---------------------------- MODULE MessageStack -----------------------------
(***************************************************************************)
(* From the network to the main loop (AlgoidCom/messagesManager.c): the    *)
(* MQTT callback leaves a message in a one-place mailbox, MessagerTask     *)
(* parses it and pushes it on AlgoidMsgRXStack, the main loop pulls it.    *)
(*                                                                         *)
(* Three threads: the callback thread of the MQTT library (Arrive), the    *)
(* messager (variable msgr) and the main loop (variable pull).  There is no*)
(* lock.  A step reads or writes one place of the stack; the copy of a     *)
(* whole ALGOID structure counts as one step, and so do the parsing of the *)
(* mailbox and the writing of an answer, which are in module MessageTexts. *)
(***************************************************************************)
EXTENDS Integers, FiniteSets, Sequences, SequencesExt, AlgoidMessage

CONSTANTS
    NSTACK,        \* places of AlgoidMsgRXStack (10 in the code)
    RandomId,      \* the id rand() finds for a message that has none
    Ids,           \* the ids that hosts give messages, and -1
    Scripts,       \* what may happen, by name: a record of
                   \*   docs    what hosts may send, each once
                   \*   locked  TRUE for behaviours in which a push and a pull
                   \*           never overlap, as if a lock were held (the code
                   \*           has none)
                   \*   answers the lists of entries of AlgoidResponse that the
                   \*           main loop may answer a message with
    Parsed         \* what GetAlgoidMsg finds in the documents of a script
ASSUME NStackAssumption == NSTACK \in Nat \ {0}
ASSUME IdsAssumption == Ids \subseteq Int
ASSUME ScriptsAssumption ==
    \A n \in DOMAIN Scripts :
        /\ Scripts[n].locked \in BOOLEAN
        /\ \A k \in DOMAIN Scripts[n].docs :
             LET m == Parsed[n][k] IN DOMAIN m = DOMAIN NoMessage /\ m.id \in Ids

(* What is asked of hosts: no two messages have the same id; when push and *)
(* pull do not overlap, those for the stack have one.                      *)
DistinctIds ==
    \A n \in DOMAIN Scripts : \A j, k \in DOMAIN Scripts[n].docs :
        j # k => Parsed[n][j].id # Parsed[n][k].id
NamedInTurns ==
    \A n \in DOMAIN Scripts : \A k \in DOMAIN Scripts[n].docs :
        Scripts[n].locked /\ Known(Parsed[n][k]) /\ ForMe(Parsed[n][k]) => Parsed[n][k].id >= 0

Places == 0 .. NSTACK - 1

(* A message that is stored without its type.                              *)
PlaceUntyped(m) == [id |-> m.id, typed |-> FALSE, msg |-> m]

(* A place as push and pull see it: MsgID, a type other than -1, and the   *)
(* rest of the message.                                                    *)
Place(m) == [id |-> m.id, typed |-> TRUE, msg |-> m]
FreePlace == [id |-> -1, typed |-> FALSE, msg |-> NoMessage]

VARIABLES
    script,     \* the name of the script that is played; it never changes
    buffer,     \* MqttDataBuffer: which of the documents, 0 for none
    ready,      \* mqttDataReady
    msgr,       \* MessagerTask: where it is, AlgoidMessageRX, and the index
    stack,      \* AlgoidMsgRXStack
    pull,       \* the main loop: where it is in pullMsgStack, and the index
    command,    \* AlgoidCommand
    reply,      \* the arguments of the last call of sendResponse
    sent,       \* history: the documents that arrived
    acked,      \* history: the ids of the messages acknowledged, in order
    taken       \* history: the ids of the messages pulled, in order

vars == <<script, buffer, ready, msgr, stack, pull, command, reply, sent, acked, taken>>
received == <<script, buffer, ready, sent>>
history == <<acked, taken>>

Docs == Scripts[script].docs
Locked == Scripts[script].locked

IdlePull == [pc |-> "check", i |-> 0]
NoReply == [to |-> "", id |-> -1, type |-> "", param |-> "", count |-> 0, entries |-> <<>>]

(* sendResponse: to a host, with the first entries of AlgoidResponse.  What*)
(* is published is Sent(reply).                                            *)
SendResponse(id, to, type, param, entries) ==
    reply' = [to |-> to, id |-> id, type |-> type, param |-> param,
              count |-> Len(entries), entries |-> entries]

Init ==
    /\ script \in DOMAIN Scripts
    /\ buffer = 0
    /\ ready = FALSE
    /\ msgr = [pc |-> "poll", rx |-> NoMessage, p |-> 0]
    /\ stack = [i \in Places |-> FreePlace]
    /\ pull = IdlePull
    /\ command = NoMessage
    /\ reply = NoReply
    /\ sent = {}
    /\ acked = <<>>
    /\ taken = <<>>

(* mqttMsgArrived: whatever the mailbox held is overwritten.               *)
Arrive(k) ==
    /\ k \in DOMAIN Docs \ sent
    /\ buffer' = k
    /\ ready' = TRUE
    /\ sent' = sent \cup {k}
    /\ UNCHANGED <<script, msgr, stack, pull, command, reply, history>>

------------------------------------------------------------------------------
(* MessagerTask.                                                           *)

Pushing == msgr.pc \in {"scan", "store"}
Pulling == pull.pc \in {"shift", "wipe"}

(* The mailbox is parsed into AlgoidMessageRX; a malformed message is      *)
(* answered with an error, one for another robot is reported, both are     *)
(* dropped.                                                                *)
Poll ==
    /\ msgr.pc = "poll"
    /\ ready
    /\ \E m \in {GetAlgoidMsg(msgr.rx, Parsed[script][buffer])} :
           /\ Locked /\ Known(m) /\ ForMe(m) => ~Pulling
           /\ msgr' = [pc |-> IF Known(m) /\ ForMe(m) THEN "scan" ELSE "clear", rx |-> m, p |-> 0]
           /\ IF Known(m) THEN UNCHANGED reply
              ELSE SendResponse(m.id, m.from, m.type, m.param, <<>>)
    /\ UNCHANGED <<received, stack, pull, command, history>>

(* pushMsgStack passes over a place whose MsgID is not negative.           *)
ScanPast ==
    /\ msgr.pc = "scan"
    /\ msgr.p < NSTACK
    /\ stack[msgr.p].id >= 0
    /\ msgr' = [msgr EXCEPT !.p = @ + 1]
    /\ UNCHANGED <<received, stack, pull, command, reply, history>>

ScanStop ==
    /\ msgr.pc = "scan"
    /\ msgr.p < NSTACK
    /\ stack[msgr.p].id < 0
    /\ msgr' = [msgr EXCEPT !.pc = "store"]
    /\ UNCHANGED <<received, stack, pull, command, reply, history>>

(* No place is free: the message is dropped without an answer.             *)
Full ==
    /\ msgr.pc = "scan"
    /\ msgr.p = NSTACK
    /\ msgr' = [msgr EXCEPT !.pc = "clear"]
    /\ UNCHANGED <<received, stack, pull, command, reply, history>>

(* The message is copied to the place found, and its sender gets an ack.   *)
Store ==
    /\ msgr.pc = "store"
    /\ stack' = [stack EXCEPT ![msgr.p] = Place(msgr.rx)]
    /\ acked' = Append(acked, msgr.rx.id)
    /\ SendResponse(msgr.rx.id, msgr.rx.from, "ack", msgr.rx.param, <<>>)
    /\ msgr' = [msgr EXCEPT !.pc = "clear"]
    /\ UNCHANGED <<received, pull, command, taken>>

(* mqttDataReady=0, whether or not another message has arrived since.      *)
Clear ==
    /\ msgr.pc = "clear"
    /\ ready' = FALSE
    /\ msgr' = [msgr EXCEPT !.pc = "poll"]
    /\ UNCHANGED <<script, buffer, stack, pull, command, reply, sent, history>>

------------------------------------------------------------------------------
(* pullMsgStack(0), called by the main loop.                               *)

(* AlgoidCommand: a MsgID that is not positive is replaced by a random one,*)
(* and an empty sender by "unknown".                                       *)
Commanded(m) ==
    [m EXCEPT !.id = IF @ <= 0 THEN RandomId ELSE @, !.from = IF @ = "" THEN "unknown" ELSE @]

(* The message at the head is taken, whatever its MsgID, as long as its    *)
(* type is not -1.                                                         *)
Pull ==
    /\ pull.pc = "check"
    /\ stack[0].typed
    /\ Locked => ~Pushing
    /\ command' = Commanded(stack[0].msg)
    /\ taken' = Append(taken, stack[0].msg.id)
    /\ pull' = [pc |-> "shift", i |-> 0]
    /\ UNCHANGED <<received, msgr, stack, reply, acked>>

(* The message at the head is overwritten by every one behind it.          *)
ShiftToHead ==
    /\ pull.pc = "shift"
    /\ pull.i < NSTACK - 1
    /\ stack' = [stack EXCEPT ![0] = stack[pull.i + 1]]
    /\ pull' = [pull EXCEPT !.i = @ + 1]
    /\ UNCHANGED <<received, msgr, command, reply, history>>

(* The places behind the head move up, one after the other.                *)
Shift ==
    /\ pull.pc = "shift"
    /\ pull.i < NSTACK - 1
    /\ stack' = [stack EXCEPT ![pull.i] = stack[pull.i + 1]]
    /\ pull' = [pull EXCEPT !.i = @ + 1]
    /\ UNCHANGED <<received, msgr, command, reply, history>>

(* The last place is cleared field by field: first MsgID, ...              *)
WipeId ==
    /\ pull.pc = "shift"
    /\ pull.i = NSTACK - 1
    /\ stack' = [stack EXCEPT ![NSTACK - 1].id = -1]
    /\ pull' = [pull EXCEPT !.pc = "wipe"]
    /\ UNCHANGED <<received, msgr, command, reply, history>>

(* The main loop goes on to the command, or, in the scripts without        *)
(* answers, to its next message.                                           *)
Pulled == IF Scripts[script].answers = {} THEN IdlePull ELSE [pc |-> "answer", i |-> 0]

(* The type of the last place is left as it is.                            *)
WipeIdOnly ==
    /\ pull.pc = "wipe"
    /\ pull' = Pulled
    /\ UNCHANGED <<received, msgr, stack, command, reply, history>>

(* ... then msgType.                                                       *)
WipeType ==
    /\ pull.pc = "wipe"
    /\ stack' = [stack EXCEPT ![NSTACK - 1].typed = FALSE]
    /\ pull' = Pulled
    /\ UNCHANGED <<received, msgr, command, reply, history>>

(* The main loop answers: a request to its sender, a command to whoever    *)
(* sent the latest message; with what it holds, or with what happens to the*)
(* action that was begun.                                                  *)
Answer(entries) ==
    /\ pull.pc = "answer"
    /\ entries \in Scripts[script].answers
    /\ SendResponse(command.id, IF command.type = "request" THEN command.from ELSE msgr.rx.from,
                    IF entries[1].kind = "std" THEN "response" ELSE "event",
                    command.param, entries)
    /\ pull' = IdlePull
    /\ UNCHANGED <<received, msgr, stack, command, history>>

------------------------------------------------------------------------------
MessagerStep == Poll \/ ScanPast \/ ScanStop \/ Full \/ Store \/ Clear
PullStep ==
    Pull \/ Shift \/ WipeId \/ WipeType \/ \E entries \in Scripts[script].answers : Answer(entries)

Next == (\E k \in DOMAIN Docs : Arrive(k)) \/ MessagerStep \/ PullStep

Spec == Init /\ [][Next]_vars

(* Both loops run forever, one with a period of 10 ms: weak fairness, with *)
(* the conditions under which they can go on written out.                  *)
MessagerMay == IF msgr.pc = "poll" THEN ready /\ (Locked => ~Pulling) ELSE TRUE
PullMay == IF pull.pc = "check" THEN stack[0].typed /\ (Locked => ~Pushing) ELSE TRUE
FairSpec ==
    /\ Spec
    /\ []<>~MessagerMay \/ []<><<MessagerStep>>_vars
    /\ []<>~PullMay \/ []<><<PullStep>>_vars

------------------------------------------------------------------------------
(* Properties.                                                             *)

(* However push and pull interleave, no message is executed twice, although*)
(* the shift of pullMsgStack keeps each message in two places for a while. *)
TakenOnce == IsInjective(taken)

(* The places of the messages that wait: while the stack is being shifted, *)
(* the place about to be overwritten is a copy of the one before it.       *)
WaitingPlaces == {j \in Places : stack[j].typed /\ ~(Pulling /\ j = pull.i)}

(* If push and pull do not overlap, and every message has an id, the stack *)
(* is the bounded queue of MessageQueue.  Waiting messages then fill the   *)
(* stack from its head on, but for the place about to be overwritten.      *)
Waiting ==
    [n \in 1 .. Cardinality(WaitingPlaces) |->
        stack[IF Pulling /\ pull.i < n THEN n ELSE n - 1].msg.id]
Queue == INSTANCE MessageQueue WITH
             Messages <- Ids,
             queue <- IF Locked THEN Waiting ELSE <<>>,
             taken <- IF Locked THEN taken ELSE <<>>
IsQueue == Queue!Spec

(* ... and in the end each acknowledged message has been taken.            *)
EveryAckedTaken == <>[](Locked => ToSet(acked) \subseteq ToSet(taken))

(* messagesManager.c:181: a message without id gets one when it is pulled. *)
(* So once acknowledged it is taken or still waits, like the others.       *)
NoneLost == ToSet(acked) \subseteq ToSet(taken) \cup {stack[j].msg.id : j \in WaitingPlaces}
==============================================================================
