----------------------------- MODULE BuggyTasks ------------------------------
(***************************************************************************)
(* The life of a command: the main loop takes it from the message stack,   *)
(* opens a task for its actions, arms one timer per action, and the timer  *)
(* thread ends the actions; the last one closes the task and the client is *)
(* told (algobot_main.c, asyncTools/, timerManager.c).  Requests for       *)
(* sensor events take rows of the same sender table.                       *)
(*                                                                         *)
(* Two threads interleave between calls of the functions that share the    *)
(* tables: the main loop (variable main) and TimerTask (variable fired).   *)
(* The messager thread receives the commands.  One call of createBuggyTask,*)
(* removeBuggyTask, setTimer, saveSenderOfMsgId or removeSenderOfMsgId is  *)
(* one step; sendResponse goes with the call before it that decided it.    *)
(* Time is left out: an armed timer may expire at any moment.              *)
(***************************************************************************)
EXTENDS Integers, FiniteSets, Sequences, TaskTable, TimerTable, SenderTable

CONSTANTS
    Commands,      \* the commands clients may send
    Requests,      \* the requests clients may send
    NACTION,       \* entries of a command's device array (20 in the code)
    NSCAN,         \* entries the start loops look at (10 in the code)
    SaveStarts,    \* the values the uninitialised counter of save may have
    UniqueIds,     \* TRUE: clients never use a message id twice
    MaxMessages    \* bound: commands received in a behaviour

Families == {"motor", "stepper", "pwm", "led"}

(* One entry of the device array: a device that exists, or a negative name *)
(* for an entry without a usable id.  (A name past the last device, which  *)
(* the LED and motor loops would read out of bounds, is left out.)  "none" *)
(* is a servo entry for a PWM that an earlier command left in blink state. *)
Act == [name : Int, mode : Modes \cup {"none"}]

(* Motors and steppers run for a time, up to a distance or forever.  The   *)
(* callbacks of LEDs, PWMs and servos look at the state of the device,     *)
(* which a later command may change: each time they end it or re-arm.      *)
ModesOf(family) ==
    [motor |-> Modes, stepper |-> Modes,
     led |-> {"poll"}, pwm |-> {"poll", "none"}][family]

ASSUME CommandsAssumption ==
    /\ NACTION \in Nat
    /\ \A c \in Commands :
          /\ c \in [id : Nat \ {0}, from : Clients, family : Families,
                    acts : Seq(Act)]
          /\ Len(c.acts) <= NACTION
          /\ \A k \in DOMAIN c.acts : c.acts[k].mode \in ModesOf(c.family)

(* A request is known by what its handler does to the sender table, call   *)
(* by call: save where a sensor's events are switched on, remove where     *)
(* they are switched off (the battery handler does either twice).          *)
ASSUME RequestsAssumption ==
    \A r \in Requests : r \in [id : Nat \ {0}, from : Clients, family : {"request"},
                              calls : Seq({"save", "remove"})]
ASSUME NScanAssumption == NSCAN \in Nat
ASSUME SaveStartsAssumption == SaveStarts \subseteq 0 .. 255
ASSUME UniqueIdsAssumption == UniqueIds \in BOOLEAN

(* type.h: MOTOR, STEPMOTOR, PWM, LED.                                     *)
TypeOf(family) ==
    [motor |-> 0, stepper |-> 1, pwm |-> 2, led |-> 3][family]

Messages == Commands \cup Requests
Ids == {m.id : m \in Messages}

VARIABLES
    task,       \* ActionTable
    timer,      \* myTimer
    sender,     \* msgEventHeader
    main,       \* the main loop: where it is, and its locals
    fired,      \* TimerTask: the expired timer it is calling back for
    stack,      \* messages received and not yet taken by the main loop
    rxFrom,     \* AlgoidMessageRX.msgFrom: sender of the last message received
    overran,    \* createBuggyTask wrote a task past the end of its table
    hist,       \* history: the begin, end and abort events sent, by id
    used,       \* history: ids of the messages received
    received,   \* number of messages received, for the bound
    unsaved,    \* history: commands whose sender found no row
    crowded     \* history: an action found no timer slot

vars == <<task, timer, sender, main, fired, stack, rxFrom, overran,
          hist, used, received, unsaved, crowded>>

NoCommand == [id |-> 0, from |-> Garbage, family |-> "none", acts |-> <<>>]

IdleMain == [pc |-> "idle", cmd |-> NoCommand, k |-> 1, left |-> 0, over |-> 0]

IdleTimer == [pc |-> "scan", id |-> 0, name |-> 0, type |-> 0,
              fn |-> "none", ended |-> 0]

TimerInCallback(slot) == [pc |-> "call", id |-> slot.id, name |-> slot.name,
                          type |-> slot.type, fn |-> slot.fn, ended |-> 0]

Event(kind, to) == [kind |-> kind, to |-> to]

(* sendResponse with msgType EVENT: the client named "to" hears of id.     *)
Tell(id, kind, to) == hist' = [hist EXCEPT ![id] = Append(@, Event(kind, to))]

(* actionCount of the run...Action functions: each existing device the     *)
(* command names counts once.                                              *)
ActionCount(c) ==
    Cardinality({n \in {c.acts[k].name : k \in DOMAIN c.acts} : n >= 0})

------------------------------------------------------------------------------
Init ==
    /\ task = EmptyTaskTable
    /\ timer = EmptyTimerTable
    /\ sender = EmptySenderTable
    /\ main = IdleMain
    /\ fired = IdleTimer
    /\ stack = <<>>
    /\ rxFrom = Garbage
    /\ overran = FALSE
    /\ hist = [id \in Ids \cup {-1} |-> <<>>]
    /\ used = {}
    /\ received = 0
    /\ unsaved = {}
    /\ crowded = FALSE

(* The messager thread parses a message into AlgoidMessageRX and pushes it.*)
Receive(m) ==
    /\ received < MaxMessages
    /\ UniqueIds => m.id \notin used
    /\ stack' = Append(stack, m)
    /\ rxFrom' = m.from
    /\ used' = used \cup {m.id}
    /\ received' = received + 1
    /\ UNCHANGED <<task, timer, sender, main, fired, overran, hist, unsaved,
                   crowded>>

------------------------------------------------------------------------------
(* The main loop: runMotorAction, runStepperAction, runLedAction and       *)
(* runPwmAction, and setAsync...Action which they call.                    *)

(* A command is taken.  Without any existing device it is answered with an *)
(* error event (whose id is an uninitialised local, and which the history  *)
(* does not keep); a motor or stepper command is announced before its task *)
(* exists.                                                                 *)
Take ==
    /\ main.pc = "idle"
    /\ stack # <<>>
    /\ Head(stack).family # "request"
    /\ LET c == Head(stack) IN
        /\ stack' = Tail(stack)
        /\ IF ActionCount(c) = 0
           THEN UNCHANGED <<main, hist>>
           ELSE /\ main' = [IdleMain EXCEPT !.pc = "create", !.cmd = c]
                /\ IF c.family \in {"motor", "stepper"}
                   THEN Tell(c.id, "begin", c.from)
                   ELSE UNCHANGED hist
    /\ UNCHANGED <<task, timer, sender, fired, rxFrom, overran, used, received,
                   unsaved, crowded>>

(* A request is taken.                                                     *)
TakeRequest ==
    /\ main.pc = "idle"
    /\ stack # <<>>
    /\ Head(stack).family = "request"
    /\ stack' = Tail(stack)
    /\ main' = [IdleMain EXCEPT !.pc = "answer", !.cmd = Head(stack)]
    /\ UNCHANGED <<task, timer, sender, fired, rxFrom, overran, hist, used,
                   received, unsaved, crowded>>

(* Its handler saves the sender of the last message received under the id  *)
(* of the request, or frees a row of that id ...                           *)
AnswerCall ==
    /\ main.pc = "answer"
    /\ main.k <= Len(main.cmd.calls)
    /\ \/ /\ main.cmd.calls[main.k] = "save"
          /\ \E start \in SaveStarts :
                sender' = SaveSender(sender, start, main.cmd.id, rxFrom)
       \/ /\ main.cmd.calls[main.k] = "remove"
          /\ sender' = RemoveSender(sender, main.cmd.id)
    /\ main' = [main EXCEPT !.k = @ + 1]
    /\ UNCHANGED <<task, timer, fired, stack, rxFrom, overran, hist, used,
                   received, unsaved, crowded>>

(* ... and answers with what the sensors measure.                          *)
AnswerEnds ==
    /\ main.pc = "answer"
    /\ main.k > Len(main.cmd.calls)
    /\ main' = IdleMain
    /\ UNCHANGED <<task, timer, sender, fired, stack, rxFrom, overran, hist,
                   used, received, unsaved, crowded>>

(* The sender is not saved.                                                *)
OpenedUnsaved == [main EXCEPT !.pc = "start", !.left = ActionCount(main.cmd)]

(* The main loop goes on to arm the timers of a task it has opened.        *)
Opened == [main EXCEPT !.pc = "save", !.left = ActionCount(main.cmd)]

(* createBuggyTask finds a place, or the number in use (the command is     *)
(* dropped with a RESPONSE).                                               *)
Create ==
    LET new == CreateTask(task, main.cmd.id, ActionCount(main.cmd)) IN
    /\ main.pc = "create"
    /\ CreateStops(task, main.cmd.id) # {}
    /\ task' = new.table
    /\ IF new.result > 0
       THEN /\ main' = Opened
            /\ IF main.cmd.family = "led"
               THEN Tell(main.cmd.id, "begin", rxFrom)
               ELSE UNCHANGED hist
       ELSE main' = IdleMain /\ UNCHANGED hist
    /\ UNCHANGED <<timer, sender, fired, stack, rxFrom, overran, used,
                   received, unsaved, crowded>>

(* All rows are taken.  The scan runs to 50 over a table of 10: depending  *)
(* on what the memory behind it holds it finds nothing, and the command is *)
(* dropped, or it finds a zero and the task is written there.              *)
CreateFull ==
    /\ main.pc = "create"
    /\ CreateStops(task, main.cmd.id) = {}
    /\ \/ main' = IdleMain /\ UNCHANGED <<overran, hist>>
       \/ /\ main' = Opened
          /\ overran' = TRUE
          /\ IF main.cmd.family = "led"
             THEN Tell(main.cmd.id, "begin", rxFrom)
             ELSE UNCHANGED hist
    /\ UNCHANGED <<task, timer, sender, fired, stack, rxFrom, used, received,
                   unsaved, crowded>>

(* saveSenderOfMsgId(AlgoidCommand.msgID, AlgoidMessageRX.msgFrom).        *)
Save ==
    /\ main.pc = "save"
    /\ \E start \in SaveStarts :
          LET saved == SaveSender(sender, start, main.cmd.id, rxFrom)
          IN  /\ sender' = saved
              /\ unsaved' = IF saved = sender THEN unsaved \cup {main.cmd.id} ELSE unsaved
    /\ main' = [main EXCEPT !.pc = "start"]
    /\ UNCHANGED <<task, timer, fired, stack, rxFrom, overran, hist, used, received,
                   crowded>>

(* Entries are left to look at.  (While actions are left the loops do not  *)
(* run past the entries of the message.)                                   *)
EntriesLeft == main.k <= Len(main.cmd.acts) /\ main.k <= NSCAN

(* A start loop that does not look at the actions left.                    *)
StartingAll == main.pc = "start" /\ EntriesLeft

(* The start loop goes on while it has counted actions left.               *)
Starting == main.pc = "start" /\ main.left > 0 /\ EntriesLeft

Startable(act) == act.name >= 0 /\ act.mode # "none"

(* An entry for which nothing is started.  Without a device, the motor and *)
(* stepper loops count it as an action done, the LED and PWM loops pass    *)
(* over it; a servo entry on a blinking PWM is counted.                    *)
SkipEntry ==
    /\ Starting
    /\ ~Startable(main.cmd.acts[main.k])
    /\ main' = [main EXCEPT
                  !.k = @ + 1,
                  !.left = IF main.cmd.family \in {"motor", "stepper"}
                                \/ main.cmd.acts[main.k].name >= 0
                           THEN @ - 1 ELSE @]
    /\ UNCHANGED <<task, timer, sender, fired, stack, rxFrom, overran, hist,
                   used, received, unsaved, crowded>>

(* setAsync...Action: the timer of the entry's device is armed; the number *)
(* of an overwritten action is kept to be aborted.                         *)
StartEntry ==
    /\ Starting
    /\ Startable(main.cmd.acts[main.k])
    /\ LET act == main.cmd.acts[main.k]
           set == SetTimer(timer, main.cmd.id, act.name,
                           TypeOf(main.cmd.family), act.mode)
       IN  /\ timer' = set.table
           /\ crowded' = (crowded \/ set.result = 0)
           /\ main' = [main EXCEPT
                         !.k = @ + 1,
                         !.left = @ - 1,
                         !.pc = IF set.result > 1 THEN "retire" ELSE "start",
                         !.over = IF set.result > 1 THEN set.result ELSE 0]
    /\ UNCHANGED <<task, sender, fired, stack, rxFrom, overran, hist, used,
                   received, unsaved>>

(* setAsync...Action goes on: removeBuggyTask of the overwritten action.   *)
Retire ==
    LET rest == RemoveTask(task, main.over) IN
    /\ main.pc = "retire"
    /\ task' = rest.table
    /\ main' = [main EXCEPT !.pc = IF rest.result # 0 THEN "abort" ELSE "start",
                            !.over = rest.result]
    /\ UNCHANGED <<timer, sender, fired, stack, rxFrom, overran, hist, used,
                   received, unsaved, crowded>>

(* ... and, when that closed the task, its abort event, which goes to the  *)
(* sender of the new command.                                              *)
Abort ==
    /\ main.pc = "abort"
    /\ sender' = RemoveSender(sender, main.over)
    /\ Tell(main.over, "abort", main.cmd.from)
    /\ main' = [main EXCEPT !.pc = "start", !.over = 0]
    /\ UNCHANGED <<task, timer, fired, stack, rxFrom, overran, used, received,
                   unsaved, crowded>>

(* The loop is over; only now is a PWM or servo command announced.         *)
Finish ==
    /\ main.pc = "start"
    /\ ~Starting
    /\ main' = IdleMain
    /\ IF main.cmd.family = "pwm"
       THEN Tell(main.cmd.id, "begin", rxFrom)
       ELSE UNCHANGED hist
    /\ UNCHANGED <<task, timer, sender, fired, stack, rxFrom, overran, used,
                   received, unsaved, crowded>>

------------------------------------------------------------------------------
(* TimerTask and the callbacks.                                            *)

(* A slot expires: it is freed and its callback begins.                    *)
Fire(i) ==
    /\ fired.pc = "scan"
    /\ timer[i].id > 0
    /\ fired' = TimerInCallback(timer[i])
    /\ timer' = Expire(timer, i)
    /\ UNCHANGED <<task, sender, main, stack, rxFrom, overran, hist, used,
                   received, unsaved, crowded>>

(* endWheelAction, endStepperAction, endLedAction, endPwmAction and        *)
(* endServoAction, called by the timer or by a polling callback whose      *)
(* condition is reached: the action leaves the task.  The LED callback     *)
(* tests endOfTask > 0, the others endOfTask # 0.                          *)
EndAction ==
    LET rest == RemoveTask(task, fired.id)
        over == IF fired.type = TypeOf("led") THEN rest.result > 0
                ELSE rest.result # 0
    IN
    /\ fired.pc = "call"
    /\ fired.fn \in {"once", "poll"}
    /\ task' = rest.table
    /\ fired' = IF over THEN [IdleTimer EXCEPT !.pc = "tell",
                                               !.ended = rest.result]
                ELSE IdleTimer
    /\ UNCHANGED <<timer, sender, main, stack, rxFrom, overran, hist, used,
                   received, unsaved, crowded>>

(* ... and when it was the last one, the end event goes to the sender      *)
(* saved for the id.                                                       *)
TellEnd ==
    /\ fired.pc = "tell"
    /\ Tell(fired.ended, "end", SenderOf(sender, fired.ended))
    /\ sender' = RemoveSender(sender, fired.ended)
    /\ fired' = IdleTimer
    /\ UNCHANGED <<task, timer, main, stack, rxFrom, overran, used, received,
                   unsaved, crowded>>

(* checkMotorEncoder, checkStepperStatus, checkBlinkLedCount,              *)
(* checkBlinkPwmCount, checkBlinkServoCount before their condition is      *)
(* reached, and the dummy callbacks of endless actions: setTimer again,    *)
(* whatever it returns.                                                    *)
Rearm ==
    LET set == SetTimer(timer, fired.id, fired.name, fired.type, fired.fn) IN
    /\ fired.pc = "call"
    /\ fired.fn \in {"poll", "forever"}
    /\ timer' = set.table
    /\ crowded' = (crowded \/ set.result = 0)
    /\ fired' = IdleTimer
    /\ UNCHANGED <<task, sender, main, stack, rxFrom, overran, hist, used, received,
                   unsaved>>

------------------------------------------------------------------------------
MainStep ==
    \/ TakeRequest \/ AnswerCall \/ AnswerEnds
    \/ Take \/ Create \/ CreateFull \/ Save
    \/ SkipEntry \/ StartEntry \/ Retire \/ Abort \/ Finish

TimerStep == (\E i \in TimerSlots : Fire(i)) \/ EndAction \/ TellEnd \/ Rearm

Next == (\E m \in Messages : Receive(m)) \/ MainStep \/ TimerStep

Spec == Init /\ [][Next]_vars

(* Both threads run forever; TimerTask visits every slot each millisecond. *)
Fairness ==
    /\ WF_vars(MainStep)
    /\ WF_vars(EndAction \/ TellEnd \/ Rearm)
    /\ \A i \in TimerSlots : SF_vars(Fire(i))

(* What an action waits for comes: the distance, the count, the standstill.*)
PollsEnd == SF_vars(EndAction)

FairSpec == Spec /\ Fairness /\ PollsEnd

------------------------------------------------------------------------------
(* Properties.                                                             *)

EventRecord == [kind : {"begin", "end", "abort"}, to : Clients \cup {Garbage}]

MainStates ==
    [pc : {"idle", "answer", "create", "save", "start", "retire", "abort"},
     cmd : Messages \cup {NoCommand}, k : Nat \ {0}, left : 0 .. NACTION,
     over : Ids \cup {0, -1}]

FiredStates ==
    [pc : {"scan", "call", "tell"}, id : Ids \cup {0}, name : Int, type : 0 .. 3,
     fn : Modes \cup {"none"}, ended : Ids \cup {0, -1}]

(* The values the variables range over.                                    *)
TypeOK ==
    /\ task \in [TaskRows -> [num : Ids \cup {0}, count : 0 .. NACTION]]
    /\ timer \in [TimerSlots -> [id : Ids \cup {0}, name : Int,
                                 type : 0 .. 3, fn : Modes \cup {"none"}]]
    /\ sender \in [SenderRows -> SenderRow]
    /\ main \in MainStates
    /\ fired \in FiredStates
    /\ stack \in Seq(Messages)
    /\ rxFrom \in Clients \cup {Garbage}
    /\ overran \in BOOLEAN
    /\ hist \in [Ids \cup {-1} -> Seq(EventRecord)]
    /\ used \subseteq Ids
    /\ received \in Nat
    /\ unsaved \subseteq Ids
    /\ crowded \in BOOLEAN

(* Where an action of id can be between the moment its task is opened and  *)
(* the moment removeBuggyTask is called for it: still to be started, on a  *)
(* timer, in a callback, or overwritten and about to be aborted.           *)
ToStart(id) ==
    IF main.pc \in {"save", "start", "retire", "abort"} /\ main.cmd.id = id
    THEN {<<"start", k>> : k \in 1 .. main.left} ELSE {}
OnTimer(id) == {<<"timer", i>> : i \in SlotsOf(timer, id)}
InCallback(id) ==
    IF fired.pc = "call" /\ fired.id = id THEN {<<"call", 0>>} ELSE {}
Overwritten(id) ==
    IF main.pc = "retire" /\ main.over = id THEN {<<"over", 0>>} ELSE {}

Running(id) == ToStart(id) \cup OnTimer(id) \cup InCallback(id) \cup Overwritten(id)

(* The actions the task table still waits for, one pair per unit of count. *)
OwedIn(tab, id) == {p \in TaskRows \X (1 .. NACTION) :
                       tab[p[1]].num = id /\ p[2] <= tab[p[1]].count}
Owed(id) == OwedIn(task, id)

(* A task is never closed while one of its actions still runs: whatever    *)
(* clients send (a repeated id, a device twice, an entry without a device),*)
(* the counts of the task table never fall below the actions under way.    *)
(* Claimed as long as createBuggyTask has not left its table.              *)
NeverEndsEarly ==
    ~overran => \A id \in Ids : Cardinality(Running(id)) <= Cardinality(Owed(id))

(* No callback ever finds its task missing, so no end or abort event is    *)
(* sent for "message -1" (removeBuggyTask returns -1, which all callers but*)
(* endLedAction take for an ended task).                                   *)
NoEventForNoTask == ~overran => hist[-1] = <<>>

(* For commands the sender table holds an entry only while a task is open  *)
(* or being announced: commands leak no entries.  (Requests do: the row of *)
(* a request is freed only by another request with the same id.)           *)
Announcing(id) == (IF fired.pc = "tell" /\ fired.ended = id THEN 1 ELSE 0)
                  + (IF main.pc = "abort" /\ main.over = id THEN 1 ELSE 0)
SenderPerTask ==
    ~overran => \A id \in Ids \ {r.id : r \in Requests} :
        Cardinality(EntriesOf(sender, id))
            <= Cardinality(RowsOf(task, id)) + Announcing(id)

Kinds(id) == [n \in DOMAIN hist[id] |-> hist[id][n].kind]

Closed(id) == \E n \in DOMAIN hist[id] : hist[id][n].kind \in {"end", "abort"}

(* When a client has been told that its command ended or was aborted,      *)
(* nothing of that command runs any more.                                  *)
EndMeansQuiet ==
    UniqueIds /\ ~overran => \A id \in Ids : Closed(id) => Running(id) = {}

(* A command that was announced is closed once, and after its announcement;*)
(* only PWM and servo commands, announced after their timers are armed,    *)
(* may end first.                                                          *)
MayEndFirst(id) == \E c \in Commands : c.id = id /\ c.family = "pwm"
Orders(id) ==
    {<<>>, <<"begin">>, <<"begin", "end">>, <<"begin", "abort">>} \cup
    (IF MayEndFirst(id)
     THEN {<<"end">>, <<"abort">>, <<"end", "begin">>, <<"abort", "begin">>}
     ELSE {})
EventOrder == UniqueIds /\ ~overran => \A id \in Ids : Kinds(id) \in Orders(id)

(* An end event is addressed to a client, if the sender's row was saved:   *)
(* it is on record before the first callback can look for it, and no other *)
(* command, abort or request takes it away.  (saveSenderOfMsgId finds no   *)
(* row when the table is full behind its arbitrary start, see README.)     *)
EndIsAddressed ==
    UniqueIds /\ ~overran =>
        \A c \in Commands : \A n \in DOMAIN hist[c.id] :
            c.id \notin unsaved /\ hist[c.id][n].kind = "end"
                => hist[c.id][n].to \in Clients

(* Clients that are orderly name devices that can be started, each once,   *)
(* no more of them than the start loops look at, under ids above 1, and    *)
(* leave a device that is polled or runs forever to one command.           *)
Orderly ==
    \A c \in Commands :
        /\ c.id > 1 /\ Len(c.acts) <= NSCAN
        /\ \A k \in DOMAIN c.acts : Startable(c.acts[k])
        /\ \A j, k \in DOMAIN c.acts : c.acts[j].name = c.acts[k].name => j = k
        /\ \A d \in Commands : \A j \in DOMAIN c.acts, k \in DOMAIN d.acts :
              /\ TypeOf(c.family) = TypeOf(d.family) /\ c.acts[j].name = d.acts[k].name
              /\ c.acts[j].mode \in {"poll", "forever"}
              => c.id = d.id

(* Nothing is lost: as long as the tables have room for them, every action *)
(* of orderly clients that the task table waits for is under way, although *)
(* they overwrite each other's timers while the old ones call back.        *)
(* (Of others actions are lost: when a polling callback re-arms over       *)
(* another task's timer, when an overwritten task has id 1, when a motor   *)
(* entry has no device, or a servo entry a blinking one: see README.)      *)
NothingLost ==
    Orderly /\ UniqueIds /\ ~overran /\ ~crowded =>
        \A id \in Ids : Cardinality(Running(id)) = Cardinality(Owed(id))

(* Every command that was announced is closed.  (Messages are bounded and  *)
(* histories only grow, so this says it of each command.)                  *)
EveryBeginEnds ==
    []<>(\A c \in Commands : hist[c.id] # <<>> => Closed(c.id))

(* timerManager.c:142: a new order for a device overwrites its timer.      *)
OneTimerPerDevice ==
    \A i, j \in TimerSlots :
        i # j /\ timer[i].id > 0 /\ timer[j].id > 0
            => ~Matches(timer[i], timer[j].name, timer[j].type)

(* algobot_main.c:1214: a message id that is in use is refused.            *)
OneTaskPerId ==
    \A i, j \in TaskRows : i # j /\ task[i].num # 0 => task[i].num # task[j].num

(* asyncMOTOR.c:90: the client that caused the aborted command is told.    *)
AbortReachesSender ==
    \A c \in Commands : \A n \in DOMAIN hist[c.id] :
        hist[c.id][n].kind = "abort" => hist[c.id][n].to = c.from

==============================================================================
