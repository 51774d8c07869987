------------------------------- MODULE MqttLink ------------------------------
(***************************************************************************)
(* The connection to the broker: MessagerTask in mqtt_init and after       *)
(* (messagesManager.c, mqttProtocol.c), and as much of the Paho client in  *)
(* libs/lib_mqtt as stands between it and the network (MQTTClient.c).      *)
(*                                                                         *)
(* Threads: the messager; the main loop, which publishes; MQTTClient_run,  *)
(* which reads the socket; connectionLost_call, started when a connection  *)
(* is given up.  What the library does with mqttclient_mutex held is one   *)
(* step; the gaps in which it lets go of it are between steps.  A mutex    *)
(* that is never released is the variable hung.                            *)
(*                                                                         *)
(* Messages are sent with QoS 0, so nothing is in flight and nothing is    *)
(* retried; a write is accepted whole by the socket or fails.  Timeouts    *)
(* (30 s for a connection, 10 s for a SUBACK, 20 s for a PINGRESP) are     *)
(* long: they end only what nothing else will end any more.                *)
(***************************************************************************)
EXTENDS Integers, Sequences, SequencesExt

CONSTANTS
    NSOCKET,     \* sockets the process may have open
    Allowed,     \* bounds: how often each fault may happen
    NMESSAGE     \* bound: the messages the broker publishes

ASSUME NSocketAssumption == NSOCKET \in Nat \ {0}
ASSUME AllowedAssumption ==
    Allowed \subseteq [{"reset", "silence", "down", "refuse"} -> Nat]
ASSUME NMessageAssumption == NMESSAGE \in Nat

VARIABLES
    status,    \* mqttStatus
    link,      \* MessagerTask: where it is in connecting and subscribing
    conn,      \* the handle in use (MQTTClients, Clients)
    run,       \* MQTTClient_run: where it is, and what its cycle returned
    tostop,    \* tostop
    call,      \* MQTTClient_disconnect1, called by the messager or the main loop
    lost,      \* connectionLost_call has been started
    hung,      \* mqttclient_mutex is held for good
    net,       \* the network and the broker
    faults,    \* how often each fault may still happen
    past       \* history: whether there was a fault, whether the last loss was
               \* told while the messager connected, the number of messages
               \* published, and those given to mqttMsgArrived, in order

linkVars == <<status, link, conn, run, tostop, call, lost, hung, net, faults, past>>

------------------------------------------------------------------------------
(* A handle.  state is connect_state: 1 while TCP connects, 3 while CONNACK*)
(* is awaited; sems are the semaphores that are posted; pending: the socket*)
(* is in connect_pending.                                                  *)
NewHandle ==
    [state |-> 0, connected |-> FALSE, pending |-> FALSE, sems |-> {},
     pack |-> "none", rc |-> 0, ping |-> FALSE, queue |-> <<>>]

InUse(c) == c.connected \/ c.state > 0

(* MQTTClient_closeSession with a clean session, and the loops that drain  *)
(* the semaphores.                                                         *)
Closing(c) == [NewHandle EXCEPT !.pack = c.pack, !.rc = c.rc]

(* What the socket says: TCP is being opened, open, refused, closed by the *)
(* broker, or no packet comes through any more.                            *)
NoSession == [sess |-> "closed", inbox |-> <<>>, owes |-> {}, subscribed |-> FALSE]
With(n, s) == [f \in DOMAIN n |-> IF f \in DOMAIN s THEN s[f] ELSE n[f]]

NoCall == [pc |-> "none", internal |-> FALSE, stop |-> FALSE, stale |-> FALSE, was |-> FALSE]
Disconnect(internal, stop) ==
    [NoCall EXCEPT !.pc = "close", !.internal = internal, !.stop = stop]
Free(t) == call[t].pc = "none"

Cycling == [pc |-> "cycle", got |-> "none", stale |-> FALSE, msg |-> 0]
Gone == [Cycling EXCEPT !.pc = "gone"]

Packets == {"connack", "refused", "suback"}

------------------------------------------------------------------------------
(* MQTTClient_cycle: the next thing the socket has, and what it does to    *)
(* the handle.                                                             *)
QueuedEarly(c, m) ==       \* ... only until MessagerTask is in its loop
    IF link.pc = "suback" THEN [c EXCEPT !.queue = Append(@, m)] ELSE c
Queued(c, m) == [c EXCEPT !.queue = Append(@, m)]

Readable ==
    IF conn.state = 1
    THEN conn.pending /\ net.sess \in {"open", "refused"}
    ELSE InUse(conn) /\ (net.inbox # <<>> \/ net.sess = "reset")

Event ==
    IF conn.state = 1
    THEN [got |-> "connectable", conn |-> [conn EXCEPT !.pending = FALSE], net |-> net]
    ELSE IF net.inbox = <<>> THEN [got |-> "error", conn |-> conn, net |-> net]
    ELSE LET p == Head(net.inbox)
         IN  [got |-> IF p.type \in Packets THEN p.type ELSE "ok",
              conn |-> CASE p.type = "pingresp" -> [conn EXCEPT !.ping = FALSE]
                         [] p.type = "publish" -> Queued(conn, p.msg)
                         [] OTHER -> conn,
              net |-> [net EXCEPT !.inbox = Tail(@)]]

(* SO_ERROR of a socket that was connecting.                               *)
TcpResult == IF net.sess = "open" THEN 0 ELSE -1

(* MQTTClient_disconnect1 up to MQTTClient_stop, for a handle that may not *)
(* be the one in use any more.                                             *)
CloseHandle(stale) ==
    /\ conn' = IF stale THEN conn ELSE Closing(conn)
    /\ net' = IF stale \/ ~InUse(conn) THEN net ELSE With(net, NoSession)

(* MQTTClient_stop: the run thread is to leave when no handle is in use.   *)
StopsRun(stale) == run.pc # "gone" /\ ~tostop /\ (stale => ~InUse(conn))

(* connectionLost_call is started when a connection is given up by the     *)
(* library itself.                                                         *)
Untold(internal, was) == lost
Told(internal, was) == lost \/ (internal /\ was)

(* The handle is given up; a caller that stops the run thread waits for it *)
(* to leave before it tells of the loss.                                   *)
CloseBy(t) ==
    LET k == call[t]
        was == ~k.stale /\ conn.connected
    IN  /\ k.pc = "close"
        /\ ~hung
        /\ CloseHandle(k.stale)
        /\ IF k.stop /\ StopsRun(k.stale)
           THEN /\ tostop' = TRUE
                /\ call' = [call EXCEPT ![t].pc = "stopping", ![t].was = was]
                /\ UNCHANGED lost
           ELSE /\ call' = [call EXCEPT ![t] = NoCall]
                /\ lost' = Told(k.internal, was)
                /\ UNCHANGED tostop
        /\ UNCHANGED <<status, link, run, hung, faults, past>>

Stopped(t) ==
    /\ call[t].pc = "stopping"
    /\ ~tostop /\ ~hung
    /\ call' = [call EXCEPT ![t] = NoCall]
    /\ lost' = Told(call[t].internal, call[t].was)
    /\ UNCHANGED <<status, link, conn, run, tostop, hung, net, faults, past>>

(* MQTTClient_publish on a socket the broker has closed; any other publish *)
(* changes nothing here.                                                   *)
WriteFails(t) == ~hung /\ Free(t) /\ conn.connected /\ net.sess = "reset"
PublishFails(t) ==
    /\ WriteFails(t)
    /\ call' = [call EXCEPT ![t] = Disconnect(TRUE, TRUE)]
    /\ UNCHANGED <<status, conn, run, tostop, lost, hung, net, faults, past>>

------------------------------------------------------------------------------
(* MQTTClient_run.                                                         *)

Quiet == UNCHANGED <<status, link, call, lost, hung, faults, past>>

RunCycle ==
    /\ run.pc = "cycle" /\ ~hung
    /\ Readable
    /\ conn' = Event.conn /\ net' = Event.net
    /\ run' = [Cycling EXCEPT !.pc = "handle", !.got = Event.got]
    /\ Quiet /\ UNCHANGED tostop

(* What is posted for a connecting or subscribing messager.                *)
Posted(c, got) ==
    IF got \in {"connack", "refused"} /\ "connack" \notin c.sems
    THEN [c EXCEPT !.pack = got, !.sems = @ \cup {"connack"}]
    ELSE IF got = "suback"
    THEN [c EXCEPT !.pack = got, !.sems = @ \cup {"suback"}]
    ELSE IF got \notin Packets /\ c.state = 1 /\ "tcp" \notin c.sems
    THEN [c EXCEPT !.rc = TcpResult, !.sems = @ \cup {"tcp"}]
    ELSE c

(* The handle is looked up by the number of the socket, which a newer      *)
(* handle may have got again.                                              *)
IsFound(found) ==
    IF run.stale THEN found => InUse(conn) ELSE found = InUse(conn)

RunHandle(found) ==
    /\ run.pc = "handle" /\ ~tostop /\ ~hung
    /\ IsFound(found)
    /\ IF ~found THEN run' = Cycling /\ UNCHANGED conn
       ELSE IF run.got = "error"
       THEN IF conn.connected
            THEN run' = [Cycling EXCEPT !.pc = "close"] /\ UNCHANGED conn
            ELSE /\ run' = Cycling
                 /\ conn' = IF conn.state = 3
                            THEN [conn EXCEPT !.sems = @ \cup {"connack"}] ELSE conn
       ELSE IF conn.queue # <<>>
       THEN /\ run' = [run EXCEPT !.pc = "deliver", !.msg = Head(conn.queue), !.stale = FALSE]
            /\ UNCHANGED conn
       ELSE run' = Cycling /\ conn' = Posted(conn, run.got)
    /\ Quiet /\ UNCHANGED <<tostop, net>>

(* mqttMsgArrived is called without the mutex (MessageStack has what it    *)
(* does with the message).                                                 *)
RunDeliver ==
    /\ run.pc = "deliver"
    /\ past' = [past EXCEPT !.arrived = Append(@, run.msg)]
    /\ run' = [run EXCEPT !.pc = "after"]
    /\ UNCHANGED <<status, link, conn, call, tostop, lost, hung, net, faults>>

Kept(queue) == queue      \* a message that stays in the queue
Taken(queue) == IF queue # <<>> /\ Head(queue) = run.msg THEN Tail(queue) ELSE queue

RunAfter ==
    /\ run.pc = "after" /\ ~hung
    /\ conn' = IF run.stale THEN conn
               ELSE Posted([conn EXCEPT !.queue = Taken(@)], run.got)
    /\ run' = [Cycling EXCEPT !.pc = "top"]
    /\ Quiet /\ UNCHANGED <<tostop, net>>

RunClose ==
    /\ run.pc = "close" /\ ~hung
    /\ CloseHandle(run.stale)
    /\ tostop' = (tostop \/ StopsRun(run.stale))
    /\ lost' = Told(TRUE, ~run.stale /\ conn.connected)
    /\ run' = [Cycling EXCEPT !.pc = "top"]
    /\ UNCHANGED <<status, link, call, hung, faults, past>>

RunTop ==
    /\ run.pc = "top" /\ ~tostop /\ ~hung
    /\ run' = Cycling
    /\ Quiet /\ UNCHANGED <<conn, tostop, net>>

RunLeaves ==
    /\ run.pc \in {"cycle", "handle", "top"} /\ tostop /\ ~hung
    /\ run' = Gone
    /\ tostop' = FALSE
    /\ Quiet /\ UNCHANGED <<conn, net>>

RunStep ==
    \/ RunCycle \/ RunDeliver \/ RunAfter \/ RunClose \/ RunTop \/ RunLeaves
    \/ \E found \in BOOLEAN : RunHandle(found)

(* MQTTProtocol_keepalive, in a cycle of the run thread or of a messager   *)
(* that cycles by itself: a PINGREQ, or, with the last one unanswered or   *)
(* the write failing, MQTTProtocol_closeSession, which takes the mutex     *)
(* that MQTTClient_cycle holds already.                                    *)
KeepAlive ==
    /\ run.pc = "cycle" \/ link.by = "self"
    /\ ~hung
    /\ conn.connected
    /\ IF conn.ping \/ net.sess = "reset"
       THEN /\ net.sess # "open"
            /\ hung' = TRUE
            /\ UNCHANGED <<conn, net>>
       ELSE /\ conn' = [conn EXCEPT !.ping = TRUE]
            /\ net' = IF net.sess = "open"
                      THEN [net EXCEPT !.owes = @ \cup {"pingresp"}] ELSE net
            /\ UNCHANGED hung
    /\ UNCHANGED <<status, link, run, tostop, call, lost, faults, past>>

------------------------------------------------------------------------------
(* MessagerTask.  by: whether a wait (MQTTClient_waitfor) is for the run   *)
(* thread or cycles by itself; late: the time for connecting is used up.   *)

Waits == {"tcp", "connack", "suback"}
At(pc) == [pc |-> pc, v |-> 4, by |-> "", rc |-> 0, late |-> FALSE]

Ready == Free("messager") /\ ~hung
Unlinked == UNCHANGED <<run, tostop, lost, hung, faults, past>>

Reconnect ==
    /\ link.pc = "loop" /\ Free("messager")
    /\ status < 0
    /\ link' = At("connect")
    /\ UNCHANGED <<status, conn, call, net>> /\ Unlinked

(* The thread is not started.                                              *)
RunNotStarted == run

(* MQTTClient_connectURIVersion, for version 4 with a new handle: the      *)
(* older one is of no use to anybody any more.  The run thread is started  *)
(* when it is not there.                                                   *)
Handle == IF link.v = 4 THEN NewHandle ELSE conn
RunStarted ==
    IF run.pc = "gone" THEN Cycling
    ELSE IF link.v = 4 THEN [run EXCEPT !.stale = TRUE] ELSE run
Begin ==
    /\ link.pc = "connect" /\ Ready
    /\ run' = RunStarted
    /\ call' = IF link.v = 4 /\ call.main.pc = "close"
               THEN [call EXCEPT !.main.stale = TRUE] ELSE call
    /\ UNCHANGED <<status, tostop, lost, hung, faults, past>>

OneTooMany == net.leaked <= NSOCKET
CanOpen == net.leaked < NSOCKET

(* A connect that fails at once leaves its socket open: connect_state is 0,*)
(* so that disconnect1 has nothing to close.                               *)
ConnectFails ==
    /\ Begin
    /\ ~net.up \/ ~CanOpen \/ link.late
    /\ conn' = Handle
    /\ net' = IF ~net.up /\ CanOpen /\ ~(link.late /\ run.pc = "gone")
              THEN [net EXCEPT !.leaked = @ + 1] ELSE net
    /\ link' = [link EXCEPT !.pc = "fail", !.rc = -1]

ConnectPends ==
    /\ Begin
    /\ CanOpen /\ ~link.late
    /\ conn' = [Handle EXCEPT !.state = 1, !.pending = TRUE]
    /\ net' = [net EXCEPT !.sess = "pending"]
    /\ link' = [link EXCEPT !.pc = "tcp", !.by = "?"]

ConnectDone ==
    /\ Begin
    /\ net.up /\ CanOpen /\ ~link.late
    /\ conn' = [Handle EXCEPT !.state = 3]
    /\ net' = With(net, [sess |-> "open", owes |-> {"connack"}])
    /\ link' = [link EXCEPT !.pc = "connack", !.by = "?"]

(* MQTTClient_waitfor looks at running once.                               *)
Look ==
    /\ link.pc \in Waits /\ link.by = "?"
    /\ link' = [link EXCEPT !.by = IF run.pc = "gone" THEN "self" ELSE "sem"]
    /\ UNCHANGED <<status, conn, call, net>> /\ Unlinked

Hears == \/ link.by = "sem" /\ link.pc \in conn.sems
         \/ link.by = "self" /\ Readable

(* What a wait is told.                                                    *)
Heard ==
    IF link.by = "self"
    THEN IF Event.got = "connectable" /\ TcpResult # 0 THEN [Event EXCEPT !.got = "error"] ELSE Event
    ELSE [got |-> IF link.pc # "tcp" THEN conn.pack
                  ELSE IF conn.rc = 0 THEN "connectable" ELSE "error",
          conn |-> [conn EXCEPT !.sems = @ \ {link.pc}], net |-> net]

Hearing(w) == link.pc = w /\ Hears /\ Ready

TcpConnected ==
    /\ Hearing("tcp")
    /\ Heard.got = "connectable" /\ net.sess = "open"
    /\ conn' = [Heard.conn EXCEPT !.state = 3]
    /\ net' = [net EXCEPT !.owes = @ \cup {"connack"}]
    /\ link' = [link EXCEPT !.pc = "connack", !.by = "?"]
    /\ UNCHANGED <<status, call>> /\ Unlinked

(* CONNACK: a clean session, whose queue is emptied.                       *)
Accepted ==
    /\ Hearing("connack")
    /\ Heard.got = "connack"
    /\ conn' = [Heard.conn EXCEPT !.connected = TRUE, !.state = 0, !.pack = "none",
                                  !.queue = <<>>]
    /\ net' = Heard.net
    /\ link' = [link EXCEPT !.pc = "assign", !.by = "", !.rc = 0]
    /\ UNCHANGED <<status, call>> /\ Unlinked

(* A refusal is a positive return code.                                    *)
NotConnected ==
    /\ \/ Hearing("tcp") /\ ~(Heard.got = "connectable" /\ net.sess = "open")
       \/ Hearing("connack") /\ Heard.got \in {"refused", "error", "none"}
    /\ conn' = [Heard.conn EXCEPT !.pack = "none"] /\ net' = Heard.net
    /\ link' = [link EXCEPT !.pc = "fail", !.by = "", !.rc = IF Heard.got = "refused" THEN 5 ELSE -1]
    /\ UNCHANGED <<status, call>> /\ Unlinked

(* Cycling by itself the messager also reads what it does not wait for.    *)
Overhears ==
    /\ Hearing("suback") \/ Hearing("connack")
    /\ link.by = "self"
    /\ Heard.got \notin {"connack", "refused", "error", link.pc}
    /\ conn' = Heard.conn /\ net' = Heard.net
    /\ UNCHANGED <<status, call, link>> /\ Unlinked

(* MQTTClient_connectURI: after a failure with version 4, version 3.       *)
Fail ==
    /\ link.pc = "fail" /\ Free("messager")
    /\ call' = [call EXCEPT !["messager"] = Disconnect(FALSE, link.v = 3)]
    /\ link' = [link EXCEPT !.pc = "failed"]
    /\ UNCHANGED <<status, conn, net>> /\ Unlinked

Failed ==
    /\ link.pc = "failed" /\ Free("messager")
    /\ link' = IF link.v = 4 THEN [link EXCEPT !.pc = "connect", !.v = 3]
               ELSE [link EXCEPT !.pc = "assign"]
    /\ UNCHANGED <<status, conn, call, net>> /\ Unlinked

Assign ==
    /\ link.pc = "assign"
    /\ status' = link.rc
    /\ link' = At(IF link.rc = 0 THEN "subscribe" ELSE "loop")
    /\ UNCHANGED <<conn, call, net>> /\ Unlinked

(* mqttAddRXChannel.  Without a connection, or when the broker does not    *)
(* answer, there is only a message on the console; giving up a connection  *)
(* reports its loss, though.                                               *)
Subscribe ==
    /\ link.pc = "subscribe" /\ Ready
    /\ IF ~conn.connected THEN link' = At("loop") /\ UNCHANGED <<call, net>>
       ELSE IF net.sess = "reset"
       THEN /\ link' = At("loop")
            /\ call' = [call EXCEPT !["messager"] = Disconnect(TRUE, TRUE)]
            /\ UNCHANGED net
       ELSE /\ link' = [At("suback") EXCEPT !.by = "?"]
            /\ net' = IF net.sess = "open" THEN [net EXCEPT !.owes = @ \cup {"suback"}] ELSE net
            /\ UNCHANGED call
    /\ UNCHANGED <<status, conn>> /\ Unlinked

Subacked ==
    /\ Hearing("suback")
    /\ Heard.got = "suback"
    /\ conn' = [Heard.conn EXCEPT !.pack = "none"] /\ net' = Heard.net
    /\ link' = At("report")
    /\ UNCHANGED <<status, call>> /\ Unlinked

(* Without a SUBACK the connection is given up, and its loss is told.      *)
GiveUp == call' = [call EXCEPT !["messager"] = Disconnect(TRUE, TRUE)]

NotSubscribed ==
    /\ Hearing("suback")
    /\ Heard.got = "error"
    /\ conn' = Heard.conn /\ net' = Heard.net
    /\ link' = At("loop")
    /\ GiveUp
    /\ UNCHANGED status /\ Unlinked

TimesOut ==
    /\ link.pc \in Waits /\ link.by \in {"sem", "self"}
    /\ ~Hears /\ Free("messager")
    /\ \/ link.by = "sem" /\ (run.pc = "gone" \/ hung)
       \/ ~Readable /\ net.sess # "pending" /\ net.owes = {} /\ run.pc \in {"cycle", "gone"}
    /\ IF link.pc = "suback" THEN link' = At("loop") /\ GiveUp
       ELSE /\ link' = [link EXCEPT !.pc = "fail", !.by = "", !.rc = -1, !.late = TRUE]
            /\ UNCHANGED call
    /\ UNCHANGED <<status, conn, net>> /\ Unlinked

(* "IS NOW ONLINE"                                                         *)
Report ==
    /\ link.pc = "report" /\ Ready
    /\ link' = At("loop")
    /\ UNCHANGED <<status, conn, call, net>> /\ Unlinked

ReportFails == link.pc = "report" /\ link' = At("loop") /\ PublishFails("messager")

LinkStep ==
    \/ Reconnect \/ ConnectFails \/ ConnectPends \/ ConnectDone \/ Look
    \/ TcpConnected \/ Accepted \/ NotConnected \/ Overhears \/ Fail \/ Failed \/ Assign
    \/ Subscribe \/ Subacked \/ NotSubscribed \/ TimesOut \/ Report \/ ReportFails

MainFails == PublishFails("main") /\ UNCHANGED link

(* mqttConnectionLost, in a thread of its own.  While mqtt_init runs its   *)
(* result has not been stored yet.                                         *)
Connecting == {"connect", "tcp", "connack", "fail", "failed", "assign"}
LostCall ==
    /\ lost
    /\ lost' = FALSE
    /\ status' = -1
    /\ past' = [past EXCEPT !.crossed = link.pc \in Connecting]
    /\ UNCHANGED <<link, conn, run, tostop, call, hung, net, faults>>

------------------------------------------------------------------------------
(* The network and the broker.                                             *)

Elsewhere == UNCHANGED <<status, link, conn, run, tostop, call, lost, hung>>
May(fault) ==
    /\ faults[fault] > 0
    /\ faults' = [faults EXCEPT ![fault] = @ - 1]
    /\ past' = [past EXCEPT !.harmed = TRUE]
Sound == UNCHANGED <<faults, past>>

TcpResolves ==
    /\ net.sess = "pending"
    /\ net' = [net EXCEPT !.sess = IF net.up THEN "open" ELSE "refused"]
    /\ Elsewhere /\ Sound

BrokerAnswers(a) ==
    /\ net.sess = "open" /\ a \in net.owes
    /\ \/ net' = With(net, [owes |-> net.owes \ {a}, inbox |-> Append(net.inbox, [type |-> a]),
                            subscribed |-> net.subscribed \/ a = "suback"])
          /\ Sound
       \/ /\ a = "connack" /\ May("refuse")
          /\ net' = With(net, [owes |-> {}, inbox |-> Append(net.inbox, [type |-> "refused"])])
    /\ Elsewhere

(* Messages are numbered in the order in which they are published.         *)
BrokerPublishes ==
    /\ net.sess = "open" /\ net.subscribed
    /\ past.published < NMESSAGE
    /\ past' = [past EXCEPT !.published = @ + 1]
    /\ net' = [net EXCEPT !.inbox = Append(@, [type |-> "publish", msg |-> past'.published])]
    /\ Elsewhere /\ UNCHANGED faults

BrokerCloses ==
    /\ net.sess = "open" /\ May("reset")
    /\ net' = With(net, [sess |-> "reset", owes |-> {}, subscribed |-> FALSE])
    /\ Elsewhere

GoesSilent ==
    /\ net.sess = "open" /\ May("silence")
    /\ net' = With(net, [sess |-> "silent", owes |-> {}, subscribed |-> FALSE])
    /\ Elsewhere

GoesDown == net.up /\ May("down") /\ net' = [net EXCEPT !.up = FALSE] /\ Elsewhere
ComesUp == ~net.up /\ net' = [net EXCEPT !.up = TRUE] /\ Elsewhere /\ Sound

BrokerStep ==
    \/ TcpResolves \/ BrokerPublishes \/ BrokerCloses \/ GoesSilent \/ GoesDown \/ ComesUp
    \/ \E a \in {"connack", "suback", "pingresp"} : BrokerAnswers(a)

------------------------------------------------------------------------------
(* MessagerTask is about to connect for the first time.                    *)
Init ==
    /\ status = 0 /\ link = At("connect")
    /\ conn = NewHandle
    /\ run = Gone /\ tostop = FALSE
    /\ call = [t \in {"messager", "main"} |-> NoCall]
    /\ lost = FALSE /\ hung = FALSE
    /\ net = [sess |-> "closed", inbox |-> <<>>, owes |-> {}, subscribed |-> FALSE,
              up |-> TRUE, leaked |-> 0]
    /\ faults \in Allowed
    /\ past = [harmed |-> FALSE, crossed |-> FALSE, published |-> 0, arrived |-> <<>>]

Next ==
    \/ LinkStep \/ RunStep \/ KeepAlive \/ MainFails \/ LostCall \/ BrokerStep
    \/ \E t \in {"messager", "main"} : CloseBy(t) \/ Stopped(t)

Spec == Init /\ [][Next]_linkVars

(* Every thread goes on, a disconnect that was begun ends, a new thread    *)
(* runs, TCP connects or is refused, the broker comes up again and answers *)
(* as long as the connection holds.                                        *)
FairSpec ==
    /\ Spec
    /\ WF_linkVars(LinkStep) /\ WF_linkVars(RunStep) /\ WF_linkVars(KeepAlive)
    /\ \A t \in {"messager", "main"} : WF_linkVars(CloseBy(t)) /\ WF_linkVars(Stopped(t))
    /\ WF_linkVars(LostCall)
    /\ WF_linkVars(TcpResolves) /\ WF_linkVars(ComesUp)
    /\ \A a \in {"connack", "suback", "pingresp"} : WF_linkVars(BrokerAnswers(a))

------------------------------------------------------------------------------
(* Properties.                                                             *)

(* The values the variables range over.                                    *)
TypeOK ==
    /\ status \in {-1, 0, 5}
    /\ link.pc \in Waits \cup {"connect", "fail", "failed", "assign", "subscribe", "report", "loop"}
    /\ link.v \in {3, 4} /\ link.by \in {"", "?", "sem", "self"} /\ link.late \in BOOLEAN
    /\ conn.state \in {0, 1, 3} /\ conn.connected \in BOOLEAN /\ conn.sems \subseteq Waits
    /\ run.pc \in {"gone", "cycle", "handle", "deliver", "after", "close", "top"}
    /\ \A t \in {"messager", "main"} : call[t].pc \in {"none", "close", "stopping"}
    /\ {tostop, lost, hung} \subseteq BOOLEAN
    /\ net.sess \in {"closed", "pending", "refused", "open", "reset", "silent"}
    /\ past.published \in 0 .. NMESSAGE /\ past.arrived \in Seq(1 .. past.published)
    /\ net.owes \subseteq {"connack", "suback", "pingresp"} /\ net.leaked \in 0 .. NSOCKET

(* The robot can be reached.                                               *)
Served ==
    /\ status = 0 /\ conn.connected /\ run.pc # "gone" /\ ~tostop
    /\ net.sess = "open" /\ net.subscribed

(* The ways in which the code does not come back.                          *)
Refused == status > 0
Forgotten == past.crossed /\ status = 0 /\ link.pc = "loop" /\ ~conn.connected
Deaf == conn.connected /\ run.pc = "gone" /\ link.pc = "loop"
Exhausted == net.leaked + 2 > NSOCKET

(* Whatever the network does, and whoever notices it first, in the end the *)
(* robot is connected and subscribed again, with a thread that listens; or *)
(* one of the five things has happened that the code does not recover from:*)
(* the broker has refused the connection (messagesManager.c:84 looks for   *)
(* negative results only), the loss was told before the result of mqtt_init*)
(* was stored (line 86), the run thread left while the messager connected, *)
(* it waits for a mutex it holds, or failed connects have used up the      *)
(* sockets.                                                                *)
LinkComesBack == <>[](Served \/ Refused \/ Forgotten \/ Deaf \/ hung \/ Exhausted)

(* As long as nothing goes wrong the robot comes to be served, and stays   *)
(* so: no interleaving of the messager with the thread it has started, and *)
(* no keep-alive, undoes what mqtt_init and mqttAddRXChannel have done.    *)
ServedIfUndisturbed == []~past.harmed => <>[]Served

(* The queue of a handle is emptied by a new connection, its first entry is*)
(* read without the mutex, and an entry is only delivered along with the   *)
(* next packet: still no message is given to mqttMsgArrived twice or after *)
(* a younger one ...                                                       *)
ArrivesInOrder ==
    \A i, j \in DOMAIN past.arrived : i < j => past.arrived[i] < past.arrived[j]

(* ... and one that was sent to a served robot arrives, unless the         *)
(* connection does not last or a thread has got stuck.                     *)
InTransit(m) == \E i \in DOMAIN net.inbox : net.inbox[i] = [type |-> "publish", msg |-> m]
PublishedArrives ==
    \A m \in 1 .. NMESSAGE :
        InTransit(m) /\ Served ~> m \in ToSet(past.arrived) \/ ~Served
==============================================================================
