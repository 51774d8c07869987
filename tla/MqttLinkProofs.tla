---------------------------- MODULE MqttLinkProofs ---------------------------
(***************************************************************************)
(* Whatever the network does and however often the robot connects again,   *)
(* mqttMsgArrived gets no message twice and none after a younger one: for  *)
(* any number of messages, sockets and faults.  And every variable of the  *)
(* link keeps its type, which holds together with where its two threads    *)
(* and the messages are.                                                   *)
(***************************************************************************)
EXTENDS MqttLink, TLAPS

(* What the broker sends; only the messages have a number.                 *)
Packet == [type : Packets \cup {"pingresp"}] \cup [type : {"publish"}, msg : Nat]

(* The shapes of the variables through which messages go.                  *)
HandleShape(c) == DOMAIN c = DOMAIN NewHandle /\ c.queue \in Seq(Nat)
NetShape(n) ==
    /\ DOMAIN n = {"sess", "inbox", "owes", "subscribed", "up", "leaked"}
    /\ n.inbox \in Seq(Packet)
RunShape == DOMAIN run = DOMAIN Cycling /\ run.msg \in Nat
PastShape ==
    /\ DOMAIN past = {"harmed", "crossed", "published", "arrived"}
    /\ past.published \in Nat /\ past.arrived \in Seq(Nat)
Shape == HandleShape(conn) /\ NetShape(net) /\ RunShape /\ PastShape

Rising(s) == \A i, j \in DOMAIN s : i < j => s[i] < s[j]
Message(p) == p.type = "publish"

(* The run thread has a message in its hands.                              *)
Held == run.pc \in {"deliver", "after"}

(* On its way from the broker: a message is behind all that were published *)
(* before it.                                                              *)
InboxInOrder ==
    /\ \A i, j \in DOMAIN net.inbox :
          i < j /\ Message(net.inbox[i]) /\ Message(net.inbox[j])
              => net.inbox[i].msg < net.inbox[j].msg
    /\ \A j \in DOMAIN net.inbox :
          Message(net.inbox[j]) => net.inbox[j].msg <= past.published

QueueInOrder ==
    /\ Rising(conn.queue)
    /\ \A i \in DOMAIN conn.queue :
          /\ conn.queue[i] <= past.published
          /\ \A j \in DOMAIN net.inbox :
                Message(net.inbox[j]) => conn.queue[i] < net.inbox[j].msg

(* The message in the hands of the run thread may still be the first of    *)
(* the queue, but of no newer handle's.                                    *)
HeldInOrder ==
    Held =>
        /\ run.msg <= past.published
        /\ \A j \in DOMAIN net.inbox : Message(net.inbox[j]) => run.msg < net.inbox[j].msg
        /\ \A i \in DOMAIN conn.queue :
              run.msg <= conn.queue[i] /\ (run.stale => run.msg < conn.queue[i])

ArrivedBefore ==
    \A k \in DOMAIN past.arrived :
        /\ past.arrived[k] <= past.published
        /\ \A j \in DOMAIN net.inbox :
              Message(net.inbox[j]) => past.arrived[k] < net.inbox[j].msg
        /\ ~Held => \A i \in DOMAIN conn.queue : past.arrived[k] < conn.queue[i]
        /\ run.pc = "deliver" => past.arrived[k] < run.msg
        /\ run.pc = "after" => past.arrived[k] <= run.msg

Inv == Shape /\ InboxInOrder /\ QueueInOrder /\ HeldInOrder /\ ArrivedBefore /\ ArrivesInOrder

------------------------------------------------------------------------------
(* What a step may do to the messages on their way when the run thread     *)
(* takes none in its hands: some of them go with a handle or a connection, *)
(* or the first packet (d = 1) is read, into the queue if it is a message. *)
Thinned(d, inbox) ==
    \A j \in DOMAIN inbox : Message(inbox[j]) =>
        j + d \in DOMAIN net.inbox /\ net.inbox[j + d] = inbox[j]
Moves(d, c, n) ==
    /\ HandleShape(c) /\ NetShape(n)
    /\ Thinned(d, n.inbox)
    /\ \/ c.queue \in {conn.queue, <<>>}
       \/ /\ d = 1 /\ net.inbox # <<>> /\ Message(net.inbox[1])
          /\ c.queue = Append(conn.queue, net.inbox[1].msg)
RunKept ==
    /\ RunShape'
    /\ \/ ~Held /\ ~Held'
       \/ /\ run'.pc = run.pc /\ run'.msg = run.msg
          /\ run'.stale => run.stale \/ conn'.queue = <<>>
PastKept ==
    /\ PastShape'
    /\ past'.published = past.published /\ past'.arrived = past.arrived

(* A message in the inbox has a number.                                    *)
LEMMA MessageNumber == ASSUME NEW p \in Packet, Message(p) PROVE p.msg \in Nat
BY DEF Packet, Packets, Message

(* Such a step keeps the order, whatever the run thread does meanwhile.    *)
LEMMA Carried ==
    ASSUME Inv, NEW d \in {0, 1}, Moves(d, conn', net'), RunKept, PastKept
    PROVE  Inv'
<1> USE DEF Inv
<1>1. Shape'
  BY DEF Moves, RunKept, PastKept, Shape
<1>2. /\ \A j \in DOMAIN net'.inbox : Message(net'.inbox[j]) =>
            /\ j \in Nat /\ j + d \in Nat
            /\ j + d \in DOMAIN net.inbox /\ net.inbox[j + d] = net'.inbox[j]
            /\ net'.inbox[j].msg \in Nat
      /\ \A j \in DOMAIN net.inbox :
            /\ j \in Nat /\ j >= 1
            /\ Message(net.inbox[j]) => net.inbox[j].msg \in Nat
  BY <1>1, MessageNumber DEF Moves, Thinned, Shape, NetShape
<1>3. InboxInOrder'
  BY <1>2 DEF InboxInOrder, PastKept
<1>4. \A i \in DOMAIN conn'.queue :
        \/ i \in DOMAIN conn.queue /\ conn'.queue[i] = conn.queue[i]
        \/ /\ d = 1 /\ i = Len(conn.queue) + 1 /\ 1 \in DOMAIN net.inbox
           /\ Message(net.inbox[1]) /\ conn'.queue[i] = net.inbox[1].msg
  <2>1. conn.queue \in Seq(Nat) /\ net.inbox \in Seq(Packet)
    BY DEF Shape, HandleShape, NetShape
  <2>2. CASE conn'.queue = conn.queue
    BY <2>2
  <2>3. CASE conn'.queue = <<>>
    BY <2>3
  <2>4. CASE /\ d = 1 /\ net.inbox # <<>> /\ Message(net.inbox[1])
             /\ conn'.queue = Append(conn.queue, net.inbox[1].msg)
    <3>1. 1 \in DOMAIN net.inbox
      BY <2>1, <2>4
    <3>2. net.inbox[1].msg \in Nat
      BY <2>1, <2>4, <3>1, MessageNumber
    <3> QED  BY <2>1, <2>4, <3>1, <3>2
  <2> QED  BY <2>2, <2>3, <2>4 DEF Moves
<1>5. /\ \A i \in DOMAIN conn.queue : i \in Nat /\ i <= Len(conn.queue) /\ conn.queue[i] \in Nat
      /\ Len(conn.queue) \in Nat
  BY DEF Shape, HandleShape
<1>6. /\ past.published \in Nat /\ run.msg \in Nat
      /\ \A k \in DOMAIN past.arrived : past.arrived[k] \in Nat
  BY DEF Shape, PastShape, RunShape
<1>7. \A j \in DOMAIN net'.inbox : d = 1 /\ Message(net'.inbox[j]) => 1 < j + d
  BY <1>1 DEF Shape, NetShape
<1>8. QueueInOrder'
  <2>1. Rising(conn'.queue)
    BY <1>2, <1>4, <1>5 DEF QueueInOrder, Rising
  <2>2. \A i \in DOMAIN conn'.queue : conn'.queue[i] <= past'.published
    BY <1>4 DEF QueueInOrder, InboxInOrder, PastKept
  <2>3. ASSUME NEW i \in DOMAIN conn'.queue, NEW j \in DOMAIN net'.inbox, Message(net'.inbox[j])
        PROVE  conn'.queue[i] < net'.inbox[j].msg
    <3>1. CASE i \in DOMAIN conn.queue /\ conn'.queue[i] = conn.queue[i]
      BY <1>2, <2>3, <3>1 DEF QueueInOrder
    <3>2. CASE d = 1 /\ 1 \in DOMAIN net.inbox /\ Message(net.inbox[1])
               /\ conn'.queue[i] = net.inbox[1].msg
      BY <1>2, <1>7, <2>3, <3>2 DEF InboxInOrder
    <3> QED  BY <1>4, <3>1, <3>2
  <2> QED  BY <2>1, <2>2, <2>3 DEF QueueInOrder
<1>9. HeldInOrder'
  BY <1>2, <1>4, <1>5, <1>6 DEF HeldInOrder, RunKept, PastKept, Held
<1>10. ArrivedBefore'
  BY <1>2, <1>4, <1>5, <1>6 DEF ArrivedBefore, RunKept, PastKept, Held
<1>11. ArrivesInOrder'
  BY DEF ArrivesInOrder, PastKept
<1> QED  BY <1>1, <1>3, <1>8, <1>9, <1>10, <1>11

------------------------------------------------------------------------------
(* A step that leaves the queue alone or empties it, and reads nothing.    *)
LEMMA NothingRead ==
    ASSUME Inv, NEW c, NEW n, HandleShape(c), NetShape(n),
           c.queue \in {conn.queue, <<>>}, n.inbox \in {net.inbox, <<>>}
    PROVE  Moves(0, c, n)
<1>1. \A j \in DOMAIN net.inbox : j + 0 = j
  BY DEF Inv, Shape, NetShape
<1>2. Thinned(0, n.inbox)
  BY <1>1 DEF Thinned
<1> QED  BY <1>2 DEF Moves

(* MQTTClient_cycle reads one packet, or only notices what became of the   *)
(* socket.                                                                 *)
LEMMA EventMoves ==
    ASSUME Inv, Readable
    PROVE  \E d \in {0, 1} : Moves(d, Event.conn, Event.net)
<1>1. HandleShape(conn) /\ NetShape(net)
  BY DEF Inv, Shape
<1>2. CASE conn.state = 1
  <2>1. Event.net = net /\ Event.conn = [conn EXCEPT !.pending = FALSE]
    BY <1>2 DEF Event
  <2>2. HandleShape(Event.conn) /\ Event.conn.queue = conn.queue
    BY <1>1, <2>1 DEF HandleShape, NewHandle
  <2> QED  BY <1>1, <2>1, <2>2, NothingRead
<1>3. CASE conn.state # 1 /\ net.inbox = <<>>
  <2>1. Event.net = net /\ Event.conn = conn
    BY <1>3 DEF Event
  <2> QED  BY <1>1, <2>1, NothingRead
<1>4. CASE conn.state # 1 /\ net.inbox # <<>>
  <2> DEFINE p == net.inbox[1]
  <2>1. /\ Event.net = [net EXCEPT !.inbox = Tail(@)]
        /\ Event.conn = CASE p.type = "pingresp" -> [conn EXCEPT !.ping = FALSE]
                          [] p.type = "publish" -> [conn EXCEPT !.queue = Append(@, p.msg)]
                          [] OTHER -> conn
    BY <1>1, <1>4 DEF Event, Queued, NetShape
  <2>2. net.inbox \in Seq(Packet) /\ p \in Packet
    BY <1>1, <1>4 DEF NetShape
  <2>3. NetShape(Event.net) /\ Event.net.inbox = Tail(net.inbox)
    BY <1>1, <1>4, <2>1 DEF NetShape
  <2>4. Thinned(1, Event.net.inbox)
    BY <1>4, <2>2, <2>3 DEF Thinned
  <2>5. CASE p.type = "publish"
    <3>1. Event.conn = [conn EXCEPT !.queue = Append(@, p.msg)]
      BY <2>1, <2>5
    <3>2. p.msg \in Nat
      BY <2>2, <2>5, MessageNumber DEF Message
    <3>3. HandleShape(Event.conn) /\ Event.conn.queue = Append(conn.queue, p.msg)
      BY <1>1, <3>1, <3>2 DEF HandleShape, NewHandle
    <3> QED  BY <1>4, <2>3, <2>4, <2>5, <3>3 DEF Moves, Message
  <2>6. CASE p.type # "publish"
    <3>1. HandleShape(Event.conn) /\ Event.conn.queue = conn.queue
      BY <1>1, <2>1, <2>6 DEF HandleShape, NewHandle
    <3> QED  BY <2>3, <2>4, <3>1 DEF Moves
  <2> QED  BY <2>5, <2>6
<1> QED  BY <1>2, <1>3, <1>4

(* A messager that is told of a packet, or reads one itself.               *)
LEMMA HeardMoves ==
    ASSUME Inv, Hears
    PROVE  \E d \in {0, 1} : Moves(d, Heard.conn, Heard.net)
<1>1. HandleShape(conn) /\ NetShape(net)
  BY DEF Inv, Shape
<1>2. CASE link.by = "self"
  <2>1. Readable
    BY <1>2 DEF Hears
  <2>2. Heard.conn = Event.conn /\ Heard.net = Event.net
    <3>1. Event.conn = [Event EXCEPT !.got = "error"].conn /\ Event.net = [Event EXCEPT !.got = "error"].net
      BY DEF Event
    <3> QED  BY <1>2, <3>1 DEF Heard
  <2> QED  BY <2>1, <2>2, EventMoves
<1>3. CASE link.by # "self"
  <2>1. Heard.conn = [conn EXCEPT !.sems = @ \ {link.pc}] /\ Heard.net = net
    BY <1>3 DEF Heard
  <2>2. HandleShape(Heard.conn) /\ Heard.conn.queue = conn.queue
    BY <1>1, <2>1 DEF HandleShape, NewHandle
  <2> QED  BY <1>1, <2>1, <2>2, NothingRead
<1> QED  BY <1>2, <1>3

(* What is done to a handle or a network besides does not matter.          *)
LEMMA MovesLike ==
    ASSUME NEW d, NEW c, NEW n, NEW e, NEW m, Moves(d, c, n),
           HandleShape(e), e.queue \in {c.queue, <<>>},
           NetShape(m), m.inbox = n.inbox
    PROVE  Moves(d, e, m)
BY DEF Moves

------------------------------------------------------------------------------
(* The steps.                                                              *)

(* Nothing is read; messages may go with their handle or connection.       *)
LEMMA Quieter ==
    ASSUME Inv, HandleShape(conn'), conn'.queue \in {conn.queue, <<>>},
           NetShape(net'), net'.inbox \in {net.inbox, <<>>}, RunKept, PastKept
    PROVE  Inv'
BY NothingRead, Carried

(* A step in which the run thread does not take part.                      *)
LEMMA RunSame == Inv /\ run' = run => RunKept
BY DEF Inv, Shape, RunShape, RunKept, Held

(* A step in which no message is published and none arrives.               *)
LEMMA PastSame == Inv /\ past' = past => PastKept
BY DEF Inv, Shape, PastShape, PastKept

(* mqttSubscribe and MQTTProtocol_keepalive, the states of the socket and  *)
(* of the broker: the inbox stays, or is lost with its connection.         *)
LEMMA NetSame ==
    ASSUME NetShape(net)
    PROVE  /\ \A x : /\ NetShape([net EXCEPT !.owes = x]) /\ [net EXCEPT !.owes = x].inbox = net.inbox
                     /\ NetShape([net EXCEPT !.sess = x]) /\ [net EXCEPT !.sess = x].inbox = net.inbox
                     /\ NetShape([net EXCEPT !.up = x]) /\ [net EXCEPT !.up = x].inbox = net.inbox
                     /\ NetShape([net EXCEPT !.leaked = x]) /\ [net EXCEPT !.leaked = x].inbox = net.inbox
           /\ NetShape(With(net, NoSession)) /\ With(net, NoSession).inbox = <<>>
           /\ \A x, y : LET n == With(net, [sess |-> x, owes |-> y])
                        IN  NetShape(n) /\ n.inbox = net.inbox
           /\ \A x : LET n == With(net, [sess |-> x, owes |-> {}, subscribed |-> FALSE])
                     IN  NetShape(n) /\ n.inbox = net.inbox
<1>1. \A f \in {"owes", "sess", "up", "leaked"} : \A x :
        NetShape([net EXCEPT ![f] = x]) /\ [net EXCEPT ![f] = x].inbox = net.inbox
  BY DEF NetShape
<1>2. \A s : /\ DOMAIN With(net, s) = DOMAIN net
             /\ With(net, s).inbox = IF "inbox" \in DOMAIN s THEN s["inbox"] ELSE net.inbox
  BY DEF NetShape, With
<1>3. NetShape(With(net, NoSession)) /\ With(net, NoSession).inbox = <<>>
  <2>1. "inbox" \in DOMAIN NoSession /\ NoSession.inbox = <<>>
    BY DEF NoSession
  <2>2. With(net, NoSession).inbox = <<>>
    BY <1>2, <2>1
  <2>3. <<>> \in Seq(Packet)
    OBVIOUS
  <2>4. DOMAIN With(net, NoSession) = {"sess", "inbox", "owes", "subscribed", "up", "leaked"}
    BY <1>2 DEF NetShape
  <2> QED  BY <2>2, <2>3, <2>4 DEF NetShape
<1>4. \A x, y : LET n == With(net, [sess |-> x, owes |-> y])
                IN  NetShape(n) /\ n.inbox = net.inbox
  <2> TAKE x, y
  <2>1. "inbox" \notin DOMAIN [sess |-> x, owes |-> y]
    OBVIOUS
  <2> QED  BY <1>2, <2>1 DEF NetShape
<1>5. \A x : LET n == With(net, [sess |-> x, owes |-> {}, subscribed |-> FALSE])
             IN  NetShape(n) /\ n.inbox = net.inbox
  <2> TAKE x
  <2>1. "inbox" \notin DOMAIN [sess |-> x, owes |-> {}, subscribed |-> FALSE]
    OBVIOUS
  <2> QED  BY <1>2, <2>1 DEF NetShape
<1> QED  BY <1>1, <1>3, <1>4, <1>5

(* A connect, with a new handle for version 4, or again with the old one.  *)
LEMMA ConnectKeeps ==
    ASSUME Inv, ConnectFails \/ ConnectPends \/ ConnectDone
    PROVE  Inv'
<1>1. HandleShape(conn) /\ NetShape(net)
  BY DEF Inv, Shape
<1>2. HandleShape(Handle) /\ Handle.queue \in {conn.queue, <<>>}
      /\ (link.v = 4 => Handle.queue = <<>>)
  BY <1>1 DEF Handle, HandleShape, NewHandle
<1>3. HandleShape(conn') /\ conn'.queue = Handle.queue
  BY <1>2 DEF ConnectFails, ConnectPends, ConnectDone, HandleShape, NewHandle
<1>4. NetShape(net') /\ net'.inbox = net.inbox
  <2>1. CASE ConnectFails
    BY <1>1, <2>1, NetSame DEF ConnectFails
  <2>2. CASE ConnectPends
    BY <1>1, <2>2, NetSame DEF ConnectPends
  <2>3. CASE ConnectDone
    BY <1>1, <2>3, NetSame DEF ConnectDone
  <2> QED  BY <2>1, <2>2, <2>3
<1>5. past' = past /\ run' = RunStarted
  BY DEF ConnectFails, ConnectPends, ConnectDone, Begin
<1>6. RunKept
  BY <1>2, <1>3, <1>5 DEF Inv, Shape, RunShape, RunKept, RunStarted, Held, Cycling
<1> QED  BY <1>2, <1>3, <1>4, <1>5, <1>6, PastSame, Quieter

(* The waits of mqtt_init and mqttAddRXChannel.                            *)
LEMMA HearingKeeps ==
    ASSUME Inv,
           TcpConnected \/ Accepted \/ NotConnected \/ Overhears \/ Subacked \/ NotSubscribed
    PROVE  Inv'
<1>1. Hears /\ run' = run /\ past' = past
  BY DEF TcpConnected, Accepted, NotConnected, Overhears, Subacked, NotSubscribed, Hearing, Unlinked
<1>2. PICK d \in {0, 1} : Moves(d, Heard.conn, Heard.net)
  BY <1>1, HeardMoves
<1>3. HandleShape(Heard.conn) /\ NetShape(Heard.net)
  BY <1>2 DEF Moves
<1>4. HandleShape(conn') /\ conn'.queue \in {Heard.conn.queue, <<>>}
  <2>1. CASE TcpConnected
    <3>1. conn' = [Heard.conn EXCEPT !.state = 3]
      BY <2>1 DEF TcpConnected
    <3> QED  BY <1>3, <3>1 DEF HandleShape, NewHandle
  <2>2. CASE Accepted
    <3>1. conn' = [Heard.conn EXCEPT !.connected = TRUE, !.state = 0, !.pack = "none",
                                     !.queue = <<>>]
      BY <2>2 DEF Accepted
    <3> QED  BY <1>3, <3>1 DEF HandleShape, NewHandle
  <2>3. CASE NotConnected \/ Subacked
    <3>1. conn' = [Heard.conn EXCEPT !.pack = "none"]
      BY <2>3 DEF NotConnected, Subacked
    <3> QED  BY <1>3, <3>1 DEF HandleShape, NewHandle
  <2>4. CASE Overhears \/ NotSubscribed
    <3>1. conn' = Heard.conn
      BY <2>4 DEF Overhears, NotSubscribed
    <3> QED  BY <1>3, <3>1
  <2> QED  BY <2>1, <2>2, <2>3, <2>4
<1>5. CASE TcpConnected
  <2>1. HandleShape(conn) /\ NetShape(net)
    BY DEF Inv, Shape
  <2>2. NetShape(net') /\ net'.inbox = net.inbox
    BY <1>5, <2>1, NetSame DEF TcpConnected
  <2>3. link.pc = "tcp" /\ Heard.got = "connectable"
    BY <1>5 DEF TcpConnected, Hearing
  <2>4. Heard.conn.queue = conn.queue
    <3>1. CASE link.by = "self"
      <4>1. Heard.conn = Event.conn /\ Event.got = "connectable"
        BY <2>3, <3>1 DEF Heard, Event
      <4>2. conn.state = 1
        BY <4>1 DEF Event, Packets
      <4>3. Event.conn = [conn EXCEPT !.pending = FALSE]
        BY <4>2 DEF Event
      <4> QED  BY <2>1, <4>1, <4>3 DEF HandleShape, NewHandle
    <3>2. CASE link.by # "self"
      <4>1. Heard.conn = [conn EXCEPT !.sems = @ \ {link.pc}]
        BY <3>2 DEF Heard
      <4> QED  BY <2>1, <4>1 DEF HandleShape, NewHandle
    <3> QED  BY <3>1, <3>2
  <2> QED  BY <1>1, <1>4, <2>2, <2>4, RunSame, PastSame, Quieter
<1>6. CASE ~TcpConnected
  <2>1. net' = Heard.net
    BY <1>6 DEF Accepted, NotConnected, Overhears, Subacked, NotSubscribed
  <2> QED  BY <1>1, <1>2, <1>3, <1>4, <2>1, MovesLike, RunSame, PastSame, Carried
<1> QED  BY <1>5, <1>6

(* The other steps of MessagerTask.                                        *)
LEMMA LinkKeeps ==
    ASSUME Inv, Reconnect \/ Look \/ Fail \/ Failed \/ Assign \/ Subscribe \/ TimesOut
                \/ Report \/ ReportFails \/ MainFails
    PROVE  Inv'
<1>1. HandleShape(conn) /\ NetShape(net)
  BY DEF Inv, Shape
<1>2. run' = run /\ past' = past /\ conn' = conn
  BY DEF Reconnect, Look, Fail, Failed, Assign, Subscribe, TimesOut, Report, ReportFails,
         MainFails, PublishFails, Unlinked
<1>3. net' = net \/ (Subscribe /\ net' = [net EXCEPT !.owes = @ \cup {"suback"}])
  BY DEF Reconnect, Look, Fail, Failed, Assign, Subscribe, TimesOut, Report, ReportFails,
         MainFails, PublishFails
<1>4. NetShape(net') /\ net'.inbox = net.inbox
  BY <1>1, <1>3, NetSame
<1> QED  BY <1>1, <1>2, <1>4, RunSame, PastSame, Quieter

(* MQTTClient_disconnect1: the queue goes with the session, what is on its *)
(* way with the socket.                                                    *)
LEMMA CloseHandleKeeps ==
    ASSUME Inv, NEW stale, CloseHandle(stale)
    PROVE  /\ HandleShape(conn') /\ conn'.queue \in {conn.queue, <<>>}
           /\ NetShape(net') /\ net'.inbox \in {net.inbox, <<>>}
<1>1. HandleShape(conn) /\ NetShape(net)
  BY DEF Inv, Shape
<1>2. HandleShape(Closing(conn)) /\ Closing(conn).queue = <<>>
  BY DEF Closing, HandleShape, NewHandle
<1> QED  BY <1>1, <1>2, NetSame DEF CloseHandle

(* The run thread, when it takes no message in its hands, and the calls    *)
(* that give up a handle.                                                  *)
LEMMA CloseKeeps ==
    ASSUME Inv, \/ RunClose
                \/ \E t \in {"messager", "main"} : CloseBy(t) \/ Stopped(t)
    PROVE  Inv'
<1>1. HandleShape(conn) /\ NetShape(net) /\ RunShape
  BY DEF Inv, Shape
<1>2. CASE RunClose
  <2>1. RunKept
    BY <1>1, <1>2 DEF RunClose, RunKept, RunShape, Held, Cycling
  <2>2. CloseHandle(run.stale) /\ past' = past
    BY <1>2 DEF RunClose
  <2> QED  BY <2>1, <2>2, CloseHandleKeeps, PastSame, Quieter
<1>3. ASSUME NEW t \in {"messager", "main"}, CloseBy(t) PROVE Inv'
  <2>1. run' = run /\ past' = past /\ CloseHandle(call[t].stale)
    BY <1>3 DEF CloseBy
  <2> QED  BY <2>1, CloseHandleKeeps, RunSame, PastSame, Quieter
<1>4. ASSUME NEW t \in {"messager", "main"}, Stopped(t) PROVE Inv'
  BY <1>1, <1>4, RunSame, PastSame, Quieter DEF Stopped
<1> QED  BY <1>2, <1>3, <1>4

(* The run thread between two readings.                                    *)
LEMMA RunRestKeeps ==
    ASSUME Inv, RunCycle \/ RunTop \/ RunLeaves
    PROVE  Inv'
<1>1. HandleShape(conn) /\ NetShape(net) /\ RunShape
  BY DEF Inv, Shape
<1>2. RunKept /\ past' = past
  <2>1. past' = past
    BY DEF RunCycle, RunTop, RunLeaves, Quiet
  <2>2. ~Held
    BY DEF RunCycle, RunTop, RunLeaves, Held
  <2>3. \/ \E x : run' = [Cycling EXCEPT !.pc = "handle", !.got = x]
        \/ run' \in {Cycling, Gone}
    BY DEF RunCycle, RunTop, RunLeaves
  <2>4. RunShape' /\ ~Held'
    <3>1. CASE run' \in {Cycling, Gone}
      BY <3>1 DEF RunShape, Held, Cycling, Gone
    <3>2. ASSUME NEW x, run' = [Cycling EXCEPT !.pc = "handle", !.got = x]
          PROVE  RunShape' /\ ~Held'
      <4>1. run' = [pc |-> "handle", got |-> x, stale |-> FALSE, msg |-> 0]
        BY <3>2 DEF Cycling
      <4> QED  BY <4>1 DEF RunShape, Held, Cycling
    <3> QED  BY <2>3, <3>1, <3>2
  <2> QED  BY <2>1, <2>2, <2>4 DEF RunKept
<1>3. CASE RunCycle
  <2>1. PICK d \in {0, 1} : Moves(d, Event.conn, Event.net)
    BY <1>3, EventMoves DEF RunCycle
  <2> QED  BY <1>2, <1>3, <2>1, PastSame, Carried DEF RunCycle
<1>4. CASE RunTop \/ RunLeaves
  BY <1>1, <1>2, <1>4, PastSame, Quieter DEF RunTop, RunLeaves
<1> QED  BY <1>3, <1>4

(* The keep-alive, the loss told to the main program, the socket and the   *)
(* broker when they send nothing.                                          *)
LEMMA ElsewhereKeeps ==
    ASSUME Inv, KeepAlive \/ LostCall \/ TcpResolves \/ BrokerCloses \/ GoesSilent
                \/ GoesDown \/ ComesUp
    PROVE  Inv'
<1>1. HandleShape(conn) /\ NetShape(net) /\ PastShape
  BY DEF Inv, Shape
<1>2. run' = run
  BY DEF KeepAlive, LostCall, TcpResolves, BrokerCloses, GoesSilent, GoesDown, ComesUp, Elsewhere
<1>3. PastKept
  <2>1. \/ past' = past
        \/ past' = [past EXCEPT !.harmed = TRUE]
        \/ \E x : past' = [past EXCEPT !.crossed = x]
    BY DEF KeepAlive, LostCall, TcpResolves, BrokerCloses, GoesSilent, GoesDown, ComesUp,
           May, Sound
  <2> QED  BY <1>1, <2>1 DEF PastKept, PastShape
<1>4. HandleShape(conn') /\ conn'.queue = conn.queue
  <2>1. conn' = conn \/ conn' = [conn EXCEPT !.ping = TRUE]
    BY DEF KeepAlive, LostCall, TcpResolves, BrokerCloses, GoesSilent, GoesDown, ComesUp,
           Elsewhere
  <2> QED  BY <1>1, <2>1 DEF HandleShape, NewHandle
<1>5. NetShape(net') /\ net'.inbox = net.inbox
  <2>1. CASE KeepAlive
    <3>1. net' = net \/ \E x : net' = [net EXCEPT !.owes = x]
      BY <2>1 DEF KeepAlive
    <3> QED  BY <1>1, <3>1, NetSame
  <2>2. CASE LostCall
    BY <1>1, <2>2 DEF LostCall
  <2>3. CASE TcpResolves
    <3>1. \E x : net' = [net EXCEPT !.sess = x]
      BY <2>3 DEF TcpResolves
    <3> QED  BY <1>1, <3>1, NetSame
  <2>4. CASE BrokerCloses
    BY <1>1, <2>4, NetSame DEF BrokerCloses
  <2>5. CASE GoesSilent
    BY <1>1, <2>5, NetSame DEF GoesSilent
  <2>6. CASE GoesDown \/ ComesUp
    <3>1. \E x : net' = [net EXCEPT !.up = x]
      BY <2>6 DEF GoesDown, ComesUp
    <3> QED  BY <1>1, <3>1, NetSame
  <2> QED  BY <2>1, <2>2, <2>3, <2>4, <2>5, <2>6
<1> QED  BY <1>2, <1>3, <1>4, <1>5, RunSame, Quieter

(* The broker answers: no message.                                         *)
LEMMA AnswerKeeps ==
    ASSUME Inv, NEW a \in {"connack", "suback", "pingresp"}, BrokerAnswers(a)
    PROVE  Inv'
<1>1. HandleShape(conn) /\ NetShape(net) /\ PastShape
  BY DEF Inv, Shape
<1>2. run' = run /\ conn' = conn
  BY DEF BrokerAnswers, Elsewhere
<1>3. PastKept
  <2>1. past' = past \/ past' = [past EXCEPT !.harmed = TRUE]
    BY DEF BrokerAnswers, May, Sound
  <2> QED  BY <1>1, <2>1 DEF PastKept, PastShape
<1>4. PICK p \in {[type |-> a], [type |-> "refused"]} :
        \/ net' = With(net, [owes |-> net.owes \ {a}, inbox |-> Append(net.inbox, p),
                             subscribed |-> net.subscribed \/ a = "suback"])
        \/ net' = With(net, [owes |-> {}, inbox |-> Append(net.inbox, p)])
  BY DEF BrokerAnswers
<1>5. p \in Packet /\ ~Message(p)
  BY DEF Packet, Packets, Message
<1>6. DOMAIN net' = DOMAIN net /\ net'.inbox = Append(net.inbox, p)
  BY <1>1, <1>4 DEF With, NetShape
<1>7. NetShape(net') /\ Thinned(0, net'.inbox)
  BY <1>1, <1>5, <1>6 DEF NetShape, Thinned
<1>8. Moves(0, conn', net')
  BY <1>1, <1>2, <1>7 DEF Moves
<1> QED  BY <1>2, <1>3, <1>8, RunSame, Carried

(* The broker publishes: the message is younger than all others.           *)
LEMMA PublishKeeps ==
    ASSUME Inv, BrokerPublishes
    PROVE  Inv'
<1> DEFINE new == past.published + 1
           p == [type |-> "publish", msg |-> new]
           last == Len(net.inbox) + 1
<1>1. /\ run' = run /\ conn' = conn
      /\ past' = [past EXCEPT !.published = new]
      /\ net' = [net EXCEPT !.inbox = Append(@, p)]
  <2>1. past' = [past EXCEPT !.published = new] /\ past.published \in Nat /\ PastShape
    BY DEF BrokerPublishes, Inv, Shape, PastShape
  <2>2. past'.published = new
    BY <2>1 DEF PastShape
  <2> QED  BY <2>1, <2>2 DEF BrokerPublishes, Elsewhere
<1>2. net.inbox \in Seq(Packet) /\ past.published \in Nat /\ p \in Packet
  BY DEF Inv, Shape, NetShape, PastShape, Packet
<1>3. net'.inbox = Append(net.inbox, p)
  BY <1>1 DEF Inv, Shape, NetShape
<1>4. past'.published = new /\ past'.arrived = past.arrived
  BY <1>1 DEF Inv, Shape, PastShape
<1>5. Shape'
  BY <1>1, <1>2, <1>3, <1>4 DEF Inv, Shape, HandleShape, NetShape, RunShape, PastShape
<1>6. \A j \in DOMAIN net'.inbox :
        /\ j \in Nat
        /\ \/ j \in DOMAIN net.inbox /\ net'.inbox[j] = net.inbox[j] /\ j < last
           \/ j = last /\ net'.inbox[j].msg = new
  BY <1>2, <1>3
<1>7. \A j \in DOMAIN net.inbox : Message(net.inbox[j]) => net.inbox[j].msg \in Nat
  BY <1>2, MessageNumber
<1>8. InboxInOrder'
  <2> HIDE DEF last
  <2>1. \A j \in DOMAIN net.inbox : Message(net.inbox[j]) => net.inbox[j].msg <= past.published
    BY DEF Inv, InboxInOrder
  <2>2. ASSUME NEW i \in DOMAIN net'.inbox, NEW j \in DOMAIN net'.inbox, i < j,
               Message(net'.inbox[i]), Message(net'.inbox[j])
        PROVE  net'.inbox[i].msg < net'.inbox[j].msg
    <3>1. CASE j \in DOMAIN net.inbox /\ net'.inbox[j] = net.inbox[j] /\ j < last
      <4>1. i \in DOMAIN net.inbox /\ net'.inbox[i] = net.inbox[i]
        BY <1>6, <2>2, <3>1
      <4> QED  BY <2>2, <3>1, <4>1 DEF Inv, InboxInOrder
    <3>2. CASE j = last /\ net'.inbox[j].msg = new
      <4>1. i \in DOMAIN net.inbox /\ net'.inbox[i] = net.inbox[i]
        BY <1>6, <2>2, <3>2
      <4> QED  BY <1>2, <1>7, <2>1, <2>2, <3>2, <4>1
    <3> QED  BY <1>6, <3>1, <3>2
  <2>3. \A j \in DOMAIN net'.inbox :
          Message(net'.inbox[j]) => net'.inbox[j].msg <= past'.published
    BY <1>2, <1>4, <1>6, <1>7, <2>1
  <2> QED  BY <2>2, <2>3 DEF InboxInOrder
<1>9. QueueInOrder'
  <2>1. \A i \in DOMAIN conn.queue : conn.queue[i] \in Nat
    BY DEF Inv, Shape, HandleShape
  <2>2. Rising(conn'.queue)
    BY <1>1 DEF Inv, QueueInOrder
  <2>3. ASSUME NEW i \in DOMAIN conn'.queue PROVE conn'.queue[i] <= past'.published
    BY <1>1, <1>2, <1>4, <2>1, <2>3 DEF Inv, QueueInOrder
  <2>4. ASSUME NEW i \in DOMAIN conn'.queue, NEW j \in DOMAIN net'.inbox, Message(net'.inbox[j])
        PROVE  conn'.queue[i] < net'.inbox[j].msg
    BY <1>1, <1>2, <1>6, <2>1, <2>4 DEF Inv, QueueInOrder
  <2> QED  BY <2>2, <2>3, <2>4 DEF QueueInOrder
<1>10. HeldInOrder'
  <2>1. run.msg \in Nat
    BY DEF Inv, Shape, RunShape
  <2> QED  BY <1>1, <1>2, <1>4, <1>6, <2>1 DEF Inv, HeldInOrder, Held
<1>11. ArrivedBefore'
  <2>1. \A k \in DOMAIN past.arrived : past.arrived[k] \in Nat
    BY DEF Inv, Shape, PastShape
  <2> QED  BY <1>1, <1>2, <1>4, <1>6, <2>1 DEF Inv, ArrivedBefore, Held
<1>12. ArrivesInOrder'
  BY <1>4 DEF Inv, ArrivesInOrder
<1> QED  BY <1>5, <1>8, <1>9, <1>10, <1>11, <1>12 DEF Inv

(* MQTTClient_run looks at a packet: the first message of the queue comes  *)
(* into its hands, or a semaphore is posted.                               *)
LEMMA HandleKeeps ==
    ASSUME Inv, NEW found \in BOOLEAN, RunHandle(found)
    PROVE  Inv'
<1>1. HandleShape(conn) /\ NetShape(net) /\ RunShape
  BY DEF Inv, Shape
<1>2. ~Held /\ past' = past /\ net' = net
  BY DEF RunHandle, Quiet, Held
<1>3. ASSUME NEW got PROVE HandleShape(Posted(conn, got)) /\ Posted(conn, got).queue = conn.queue
  BY <1>1 DEF Posted, HandleShape, NewHandle
<1>4. CASE run'.pc # "deliver"
  <2>1. run' = Cycling \/ run' = [Cycling EXCEPT !.pc = "close"]
    BY <1>1, <1>4 DEF RunHandle, RunShape, Cycling
  <2>2. RunKept
    BY <1>2, <2>1 DEF RunKept, RunShape, Held, Cycling
  <2>3. \/ conn' = conn
        \/ conn' = [conn EXCEPT !.sems = @ \cup {"connack"}]
        \/ conn' = Posted(conn, run.got)
    BY <1>1, <1>4 DEF RunHandle, RunShape, Cycling
  <2>4. HandleShape(conn') /\ conn'.queue = conn.queue
    BY <1>1, <1>3, <2>3 DEF HandleShape, NewHandle
  <2> QED  BY <1>1, <1>2, <2>2, <2>4, PastSame, Quieter
<1>5. CASE run'.pc = "deliver"
  <2>1. /\ conn' = conn /\ conn.queue # <<>>
        /\ run' = [run EXCEPT !.pc = "deliver", !.msg = Head(conn.queue), !.stale = FALSE]
    BY <1>2, <1>5 DEF RunHandle, Held, Cycling
  <2>2. /\ conn.queue \in Seq(Nat) /\ 1 \in DOMAIN conn.queue
        /\ Head(conn.queue) = conn.queue[1] /\ conn.queue[1] \in Nat
        /\ \A i \in DOMAIN conn.queue : i \in Nat /\ i >= 1 /\ conn.queue[i] \in Nat
    BY <1>1, <2>1 DEF HandleShape
  <2>3. /\ run'.pc = "deliver" /\ run'.msg = conn.queue[1] /\ run'.stale = FALSE
        /\ DOMAIN run' = DOMAIN Cycling
    BY <1>1, <2>1, <2>2 DEF RunShape, Cycling
  <2>4. Shape'
    BY <1>1, <1>2, <2>1, <2>2, <2>3 DEF Inv, Shape, HandleShape, NetShape, RunShape, PastShape
  <2>5. \A i \in DOMAIN conn.queue : conn.queue[1] <= conn.queue[i]
    <3> TAKE i \in DOMAIN conn.queue
    <3>1. CASE i = 1
      BY <2>2, <3>1
    <3>2. CASE i # 1
      BY <2>2, <3>2 DEF Inv, QueueInOrder, Rising
    <3> QED  BY <3>1, <3>2
  <2>6. HeldInOrder'
    BY <1>2, <2>1, <2>2, <2>3, <2>5 DEF Inv, QueueInOrder, HeldInOrder, Held
  <2>7. ArrivedBefore'
    BY <1>2, <2>1, <2>2, <2>3 DEF Inv, ArrivedBefore, Held
  <2>8. InboxInOrder' /\ QueueInOrder' /\ ArrivesInOrder'
    BY <1>2, <2>1 DEF Inv, InboxInOrder, QueueInOrder, ArrivesInOrder
  <2> QED  BY <2>4, <2>6, <2>7, <2>8 DEF Inv
<1> QED  BY <1>4, <1>5

(* mqttMsgArrived.                                                         *)
LEMMA DeliverKeeps ==
    ASSUME Inv, RunDeliver
    PROVE  Inv'
<1>1. /\ run.pc = "deliver" /\ conn' = conn /\ net' = net
      /\ past' = [past EXCEPT !.arrived = Append(@, run.msg)]
      /\ run' = [run EXCEPT !.pc = "after"]
  BY DEF RunDeliver
<1>2. RunShape /\ PastShape
  BY DEF Inv, Shape
<1>3. run'.pc = "after" /\ run'.msg = run.msg /\ run'.stale = run.stale /\ RunShape'
  BY <1>1, <1>2 DEF RunShape, Cycling
<1>4. /\ past'.published = past.published /\ past'.arrived = Append(past.arrived, run.msg)
      /\ PastShape'
  BY <1>1, <1>2 DEF PastShape, RunShape
<1>5. \A k \in DOMAIN past'.arrived :
        \/ k \in DOMAIN past.arrived /\ past'.arrived[k] = past.arrived[k] /\ k <= Len(past.arrived)
        \/ k = Len(past.arrived) + 1 /\ past'.arrived[k] = run.msg
  BY <1>2, <1>4 DEF PastShape, RunShape
<1>6. /\ run.msg \in Nat /\ Len(past.arrived) \in Nat
      /\ \A k \in DOMAIN past.arrived : k \in Nat /\ past.arrived[k] \in Nat /\ past.arrived[k] < run.msg
  BY <1>1, <1>2 DEF Inv, ArrivedBefore, RunShape, PastShape
<1>7. Shape' /\ InboxInOrder' /\ QueueInOrder'
  BY <1>1, <1>3, <1>4 DEF Inv, Shape, HandleShape, NetShape, InboxInOrder, QueueInOrder
<1>8. HeldInOrder'
  BY <1>1, <1>3, <1>4 DEF Inv, HeldInOrder, Held
<1>9. ArrivedBefore'
  <2>1. /\ run.msg <= past.published
        /\ \A j \in DOMAIN net.inbox : Message(net.inbox[j]) => run.msg < net.inbox[j].msg
    BY <1>1 DEF Inv, HeldInOrder, Held
  <2> QED  BY <1>1, <1>3, <1>4, <1>5, <1>6, <2>1 DEF Inv, ArrivedBefore, Held
<1>10. ArrivesInOrder'
  BY <1>5, <1>6 DEF Inv, ArrivesInOrder
<1> QED  BY <1>7, <1>8, <1>9, <1>10 DEF Inv

(* MQTTClient_run after the callback: what is left in the queue, of this   *)
(* handle or of a newer one, is younger than the message just delivered.   *)
LEMMA AfterKeeps ==
    ASSUME Inv, RunAfter
    PROVE  Inv'
<1>1. HandleShape(conn) /\ NetShape(net) /\ RunShape /\ PastShape
  BY DEF Inv, Shape
<1>2. /\ run.pc = "after" /\ net' = net /\ past' = past
      /\ run' = [Cycling EXCEPT !.pc = "top"]
  BY DEF RunAfter, Quiet
<1>3. RunShape' /\ ~Held'
  BY <1>2 DEF RunShape, Held, Cycling
<1>4. /\ conn.queue \in Seq(Nat) /\ run.msg \in Nat
      /\ \A i \in DOMAIN conn.queue : i \in Nat /\ i >= 1 /\ conn.queue[i] \in Nat
      /\ \A i \in DOMAIN conn.queue :
            run.msg <= conn.queue[i] /\ (run.stale => run.msg < conn.queue[i])
  BY <1>1, <1>2 DEF Inv, HeldInOrder, Held, HandleShape, RunShape
<1>5. HandleShape(conn')
      /\ conn'.queue = IF run.stale THEN conn.queue ELSE Taken(conn.queue)
  <2>1. Taken(conn.queue) \in Seq(Nat)
    BY <1>4 DEF Taken
  <2>2. HandleShape([conn EXCEPT !.queue = Taken(@)])
        /\ [conn EXCEPT !.queue = Taken(@)].queue = Taken(conn.queue)
    BY <1>1, <2>1 DEF HandleShape, NewHandle
  <2>3. ASSUME NEW c, HandleShape(c)
        PROVE  HandleShape(Posted(c, run.got)) /\ Posted(c, run.got).queue = c.queue
    BY <2>3 DEF Posted, HandleShape, NewHandle
  <2> QED  BY <1>1, <2>2, <2>3 DEF RunAfter
<1>6. PICK e \in {0, 1} :
        \A i \in DOMAIN conn'.queue :
            /\ i \in Nat /\ i + e \in DOMAIN conn.queue
            /\ conn'.queue[i] = conn.queue[i + e]
            /\ run.msg < conn.queue[i + e]
  <2>1. CASE run.stale
    BY <1>4, <1>5, <2>1
  <2>2. CASE ~run.stale /\ conn.queue # <<>> /\ Head(conn.queue) = run.msg
    <3>1. conn'.queue = Tail(conn.queue)
      BY <1>5, <2>2 DEF Taken
    <3>2. 1 \in DOMAIN conn.queue /\ conn.queue[1] = run.msg
      BY <1>4, <2>2
    <3>3. \A i \in DOMAIN conn.queue : 1 < i => run.msg < conn.queue[i]
      BY <3>2 DEF Inv, QueueInOrder, Rising
    <3>4. \A i \in DOMAIN conn'.queue :
            i \in Nat /\ 1 < i + 1 /\ i + 1 \in DOMAIN conn.queue
            /\ conn'.queue[i] = conn.queue[i + 1]
      BY <1>4, <3>1, <3>2
    <3> QED  BY <3>3, <3>4
  <2>3. CASE ~run.stale /\ (conn.queue = <<>> \/ Head(conn.queue) # run.msg)
    <3>1. conn'.queue = conn.queue
      BY <1>5, <2>3 DEF Taken
    <3>2. ASSUME NEW i \in DOMAIN conn.queue PROVE run.msg < conn.queue[i]
      <4>1. 1 \in DOMAIN conn.queue /\ conn.queue[1] # run.msg
        BY <1>4, <2>3, <3>2
      <4>2. run.msg < conn.queue[1]
        BY <1>4, <4>1
      <4>3. i # 1 => conn.queue[1] < conn.queue[i]
        BY <1>4, <4>1 DEF Inv, QueueInOrder, Rising
      <4> QED  BY <1>4, <4>1, <4>2, <4>3
    <3> QED  BY <1>4, <3>1, <3>2
  <2> QED  BY <2>1, <2>2, <2>3
<1>7. Shape'
  BY <1>1, <1>2, <1>3, <1>5 DEF Shape, NetShape, PastShape
<1>8. InboxInOrder' /\ ArrivesInOrder'
  BY <1>2 DEF Inv, InboxInOrder, ArrivesInOrder
<1>9. QueueInOrder'
  BY <1>2, <1>4, <1>6 DEF Inv, QueueInOrder, Rising
<1>10. HeldInOrder'
  BY <1>3 DEF HeldInOrder
<1>11. ArrivedBefore'
  <2>1. \A k \in DOMAIN past.arrived : past.arrived[k] \in Nat /\ past.arrived[k] <= run.msg
    BY <1>1, <1>2 DEF Inv, ArrivedBefore, PastShape
  <2> QED  BY <1>2, <1>3, <1>4, <1>6, <2>1 DEF Inv, ArrivedBefore, Held
<1> QED  BY <1>7, <1>8, <1>9, <1>10, <1>11 DEF Inv

------------------------------------------------------------------------------
(* Nothing was published yet.                                              *)
LEMMA InvInit == Init => Inv
<1> SUFFICES ASSUME Init PROVE Inv
  OBVIOUS
<1>1. /\ conn.queue = <<>> /\ DOMAIN conn = DOMAIN NewHandle
      /\ run.pc = "gone" /\ run.msg = 0 /\ DOMAIN run = DOMAIN Cycling
      /\ past.published = 0 /\ past.arrived = <<>>
      /\ DOMAIN past = {"harmed", "crossed", "published", "arrived"}
  BY DEF Init, NewHandle, Gone, Cycling
<1>2. /\ net.inbox = <<>>
      /\ DOMAIN net = {"sess", "inbox", "owes", "subscribed", "up", "leaked"}
  BY DEF Init
<1>3. Shape
  BY <1>1, <1>2 DEF Shape, HandleShape, NetShape, RunShape, PastShape
<1>4. InboxInOrder /\ QueueInOrder /\ HeldInOrder /\ ArrivedBefore /\ ArrivesInOrder
  BY <1>1, <1>2 DEF InboxInOrder, QueueInOrder, Rising, HeldInOrder, Held, ArrivedBefore,
                    ArrivesInOrder
<1> QED  BY <1>3, <1>4 DEF Inv

(* Every step keeps the messages in order.                                 *)
LEMMA InvStep == Inv /\ [Next]_linkVars => Inv'
<1> SUFFICES ASSUME Inv, [Next]_linkVars PROVE Inv'
  OBVIOUS
<1>1. CASE LinkStep
  BY <1>1, ConnectKeeps, HearingKeeps, LinkKeeps DEF LinkStep
<1>2. CASE RunStep
  BY <1>2, RunRestKeeps, DeliverKeeps, AfterKeeps, CloseKeeps, HandleKeeps DEF RunStep
<1>3. CASE KeepAlive \/ LostCall
  BY <1>3, ElsewhereKeeps
<1>4. CASE MainFails
  BY <1>4, LinkKeeps
<1>5. CASE BrokerStep
  BY <1>5, ElsewhereKeeps, PublishKeeps, AnswerKeeps DEF BrokerStep
<1>6. CASE \E t \in {"messager", "main"} : CloseBy(t) \/ Stopped(t)
  BY <1>6, CloseKeeps
<1>7. CASE UNCHANGED linkVars
  <2>1. conn' = conn /\ net' = net /\ run' = run /\ past' = past
    BY <1>7 DEF linkVars
  <2> QED  BY <2>1, RunSame, PastSame, Quieter DEF Inv, Shape
<1> QED  BY <1>1, <1>2, <1>3, <1>4, <1>5, <1>6, <1>7 DEF Next

(* For any number of messages, sockets and faults, and whoever gives up    *)
(* the connection while a message is read or delivered: mqttMsgArrived     *)
(* gets each message at most once, and in the order of publication.        *)
THEOREM ArrivesInOrderAlways == Spec => []ArrivesInOrder
<1>1. Inv => ArrivesInOrder
  BY DEF Inv
<1> QED  BY InvInit, InvStep, <1>1, PTL DEF Spec

------------------------------------------------------------------------------
(* Types.  TypeOK is not inductive: a number that arrives has been in the  *)
(* inbox, in the queue of a handle and in the hands of the run thread, and *)
(* lies within those published because of Inv.                             *)
Number == Nat \ {0}
Numbered == [type : Packets \cup {"pingresp"}] \cup [type : {"publish"}, msg : Number]
Answers == {"connack", "suback", "pingresp"}
Results == {-1, 0, 5}

Links ==
    [pc : Waits \cup {"connect", "fail", "failed", "assign", "subscribe", "report", "loop"},
     v : {3, 4}, by : {"", "?", "sem", "self"}, rc : Results, late : BOOLEAN]
Handles ==
    [state : {0, 1, 3}, connected : BOOLEAN, pending : BOOLEAN, sems : SUBSET Waits,
     pack : Packets \cup {"none"}, rc : {0, -1}, ping : BOOLEAN, queue : Seq(Number)]
Gots == Packets \cup {"none", "ok", "error", "connectable"}
Runs ==
    [pc : {"gone", "cycle", "handle", "deliver", "after", "close", "top"},
     got : Gots, stale : BOOLEAN, msg : Nat]
Calls ==
    [pc : {"none", "close", "stopping"}, internal : BOOLEAN, stop : BOOLEAN,
     stale : BOOLEAN, was : BOOLEAN]
Sessions == {"closed", "pending", "refused", "open", "reset", "silent"}
Nets ==
    [sess : Sessions, inbox : Seq(Numbered), owes : SUBSET Answers,
     subscribed : BOOLEAN, up : BOOLEAN, leaked : 0 .. NSOCKET]
Pasts ==
    [harmed : BOOLEAN, crossed : BOOLEAN, published : 0 .. NMESSAGE,
     arrived : Seq(Number)]

Typed ==
    /\ status \in Results
    /\ link \in Links
    /\ conn \in Handles
    /\ run \in Runs /\ (Held => run.msg # 0)
    /\ call \in [{"messager", "main"} -> Calls]
    /\ {tostop, lost, hung} \subseteq BOOLEAN
    /\ net \in Nets
    /\ past \in Pasts

(* Records of these sets.                                                  *)
LEMMA SmallTypes ==
    /\ NewHandle \in Handles /\ NoCall \in Calls
    /\ Cycling \in Runs /\ Gone \in Runs
    /\ \A internal, stop \in BOOLEAN : Disconnect(internal, stop) \in Calls
    /\ \A pc \in Waits \cup {"connect", "subscribe", "report", "loop"} : At(pc) \in Links
    /\ \A c \in Handles : Closing(c) \in Handles
<1>1. <<>> \in Seq(Number) /\ {} \in SUBSET Waits
  OBVIOUS
<1>2. NewHandle \in Handles
  BY <1>1 DEF NewHandle, Handles
<1>3. NoCall \in Calls
  BY DEF NoCall, Calls
<1>4. Cycling \in Runs
  BY DEF Cycling, Runs, Gots
<1>5. Gone \in Runs
  BY DEF Gone, Cycling, Runs, Gots
<1>6. \A internal, stop \in BOOLEAN : Disconnect(internal, stop) \in Calls
  BY <1>3 DEF Disconnect, NoCall, Calls
<1>7. \A pc \in Waits \cup {"connect", "subscribe", "report", "loop"} : At(pc) \in Links
  BY DEF At, Links, Results
<1>8. \A c \in Handles : Closing(c) \in Handles
  BY <1>1 DEF Closing, NewHandle, Handles
<1> QED
  BY <1>2, <1>3, <1>4, <1>5, <1>6, <1>7, <1>8

(* The states of the socket that end one session or begin another.         *)
LEMMA NetTypes ==
    ASSUME NEW n \in Nets
    PROVE  /\ With(n, NoSession) \in Nets
           /\ \A x \in Sessions, y \in SUBSET Answers :
                 With(n, [sess |-> x, owes |-> y]) \in Nets
           /\ \A x \in Sessions :
                 With(n, [sess |-> x, owes |-> {}, subscribed |-> FALSE]) \in Nets
           /\ \A y \in SUBSET Answers, p \in Packets \cup {"pingresp"}, b \in BOOLEAN :
                 With(n, [owes |-> y, inbox |-> Append(n.inbox, [type |-> p]),
                          subscribed |-> b]) \in Nets
           /\ \A y \in SUBSET Answers, p \in Packets :
                 With(n, [owes |-> y, inbox |-> Append(n.inbox, [type |-> p])]) \in Nets
<1> DEFINE Fields == {"sess", "inbox", "owes", "subscribed", "up", "leaked"}
<1>1. /\ n.sess \in Sessions /\ n.inbox \in Seq(Numbered) /\ n.owes \in SUBSET Answers
      /\ n.subscribed \in BOOLEAN /\ n.up \in BOOLEAN /\ n.leaked \in 0 .. NSOCKET
      /\ DOMAIN n = Fields
  BY DEF Nets
<1>2. ASSUME NEW s,
             "sess" \in DOMAIN s => s["sess"] \in Sessions,
             "inbox" \in DOMAIN s => s["inbox"] \in Seq(Numbered),
             "owes" \in DOMAIN s => s["owes"] \in SUBSET Answers,
             "subscribed" \in DOMAIN s => s["subscribed"] \in BOOLEAN,
             "up" \notin DOMAIN s, "leaked" \notin DOMAIN s
      PROVE  With(n, s) \in Nets
  <2> DEFINE w == With(n, s)
  <2>1. w = [f \in Fields |-> IF f \in DOMAIN s THEN s[f] ELSE n[f]]
    BY <1>1 DEF With
  <2>2. w = [sess |-> w["sess"], inbox |-> w["inbox"], owes |-> w["owes"],
             subscribed |-> w["subscribed"], up |-> w["up"], leaked |-> w["leaked"]]
    BY <2>1
  <2>3. /\ w["sess"] \in Sessions /\ w["inbox"] \in Seq(Numbered)
        /\ w["owes"] \in SUBSET Answers /\ w["subscribed"] \in BOOLEAN
        /\ w["up"] \in BOOLEAN /\ w["leaked"] \in 0 .. NSOCKET
    BY <1>1, <1>2, <2>1
  <2> HIDE DEF w
  <2> QED
    BY <2>2, <2>3 DEF Nets, w
<1>3. With(n, NoSession) \in Nets
  <2>1. /\ DOMAIN NoSession = {"sess", "inbox", "owes", "subscribed"}
        /\ NoSession["sess"] \in Sessions /\ NoSession["inbox"] \in Seq(Numbered)
        /\ NoSession["owes"] \in SUBSET Answers /\ NoSession["subscribed"] \in BOOLEAN
    BY DEF NoSession, Sessions
  <2> QED
    BY <1>2, <2>1
<1>4. \A x \in Sessions, y \in SUBSET Answers : With(n, [sess |-> x, owes |-> y]) \in Nets
  <2> TAKE x \in Sessions, y \in SUBSET Answers
  <2> DEFINE s == [sess |-> x, owes |-> y]
  <2>1. DOMAIN s = {"sess", "owes"} /\ s["sess"] = x /\ s["owes"] = y
    OBVIOUS
  <2> HIDE DEF s
  <2>2. With(n, s) \in Nets
    BY <1>2, <2>1
  <2> QED
    BY <2>2 DEF s
<1>5. \A x \in Sessions : With(n, [sess |-> x, owes |-> {}, subscribed |-> FALSE]) \in Nets
  <2> TAKE x \in Sessions
  <2> DEFINE s == [sess |-> x, owes |-> {}, subscribed |-> FALSE]
  <2>1. /\ DOMAIN s = {"sess", "owes", "subscribed"}
        /\ s["sess"] = x /\ s["owes"] = {} /\ s["subscribed"] = FALSE
    OBVIOUS
  <2> HIDE DEF s
  <2>2. With(n, s) \in Nets
    BY <1>2, <2>1
  <2> QED
    BY <2>2 DEF s
<1>6. \A p \in Packets \cup {"pingresp"} : Append(n.inbox, [type |-> p]) \in Seq(Numbered)
  BY <1>1 DEF Numbered
<1>7. ASSUME NEW y \in SUBSET Answers, NEW p \in Packets \cup {"pingresp"}, NEW b \in BOOLEAN
      PROVE  With(n, [owes |-> y, inbox |-> Append(n.inbox, [type |-> p]),
                      subscribed |-> b]) \in Nets
  <2> DEFINE s == [owes |-> y, inbox |-> Append(n.inbox, [type |-> p]), subscribed |-> b]
  <2>1. /\ DOMAIN s = {"owes", "inbox", "subscribed"}
        /\ s["owes"] = y /\ s["subscribed"] = b
        /\ s["inbox"] \in Seq(Numbered)
    BY <1>6
  <2> HIDE DEF s
  <2>2. With(n, s) \in Nets
    BY <1>2, <2>1
  <2> QED
    BY <2>2 DEF s
<1>8. ASSUME NEW y \in SUBSET Answers, NEW p \in Packets
      PROVE  With(n, [owes |-> y, inbox |-> Append(n.inbox, [type |-> p])]) \in Nets
  <2> DEFINE s == [owes |-> y, inbox |-> Append(n.inbox, [type |-> p])]
  <2>1. /\ DOMAIN s = {"owes", "inbox"} /\ s["owes"] = y
        /\ s["inbox"] \in Seq(Numbered)
    BY <1>6
  <2> HIDE DEF s
  <2>2. With(n, s) \in Nets
    BY <1>2, <2>1
  <2> QED
    BY <2>2 DEF s
<1> QED
  BY <1>3, <1>4, <1>5, <1>7, <1>8

(* MQTTClient_cycle.                                                       *)
LEMMA EventTypes ==
    ASSUME Typed, Readable
    PROVE  Event.got \in Gots /\ Event.conn \in Handles /\ Event.net \in Nets
<1>1. conn \in Handles /\ net \in Nets
  BY DEF Typed
<1>2. CASE conn.state = 1
  <2>1. /\ Event.got = "connectable" /\ Event.net = net
        /\ Event.conn = [conn EXCEPT !.pending = FALSE]
    BY <1>2 DEF Event
  <2>2. [conn EXCEPT !.pending = FALSE] \in Handles
    BY <1>1 DEF Handles
  <2> QED
    BY <1>1, <2>1, <2>2 DEF Gots
<1>3. CASE conn.state # 1 /\ net.inbox = <<>>
  <2>1. Event.got = "error" /\ Event.net = net /\ Event.conn = conn
    BY <1>3 DEF Event
  <2> QED
    BY <1>1, <2>1 DEF Gots
<1>4. CASE conn.state # 1 /\ net.inbox # <<>>
  <2> DEFINE p == Head(net.inbox)
  <2>1. net.inbox \in Seq(Numbered) /\ p \in Numbered
    BY <1>1, <1>4 DEF Nets
  <2>2. /\ Event.got = IF p.type \in Packets THEN p.type ELSE "ok"
        /\ Event.net = [net EXCEPT !.inbox = Tail(@)]
        /\ Event.conn = CASE p.type = "pingresp" -> [conn EXCEPT !.ping = FALSE]
                          [] p.type = "publish" -> [conn EXCEPT !.queue = Append(@, p.msg)]
                          [] OTHER -> conn
    BY <1>4 DEF Event, Queued
  <2>3. Tail(net.inbox) \in Seq(Numbered)
    BY <1>4, <2>1
  <2>4. [net EXCEPT !.inbox = Tail(@)] \in Nets
    BY <1>1, <2>3 DEF Nets
  <2> HIDE DEF p
  <2>5. [conn EXCEPT !.ping = FALSE] \in Handles
    BY <1>1 DEF Handles
  <2>6. p.type = "publish" => [conn EXCEPT !.queue = Append(@, p.msg)] \in Handles
    <3>1. SUFFICES ASSUME p.type = "publish"
                   PROVE  [conn EXCEPT !.queue = Append(@, p.msg)] \in Handles
      OBVIOUS
    <3>2. p.msg \in Number
      BY <2>1, <3>1 DEF Numbered, Packets
    <3>3. conn.queue \in Seq(Number)
      BY <1>1 DEF Handles
    <3>4. Append(conn.queue, p.msg) \in Seq(Number)
      BY <3>2, <3>3
    <3> QED
      BY <1>1, <3>4 DEF Handles
  <2>7. Event.conn \in Handles
    BY <1>1, <2>2, <2>5, <2>6
  <2>8. Event.got \in Gots
    BY <2>2 DEF Gots
  <2> QED
    BY <2>2, <2>4, <2>7, <2>8
<1> QED
  BY <1>2, <1>3, <1>4

(* What a wait of the messager is told.                                    *)
LEMMA HeardTypes ==
    ASSUME Typed, Hears
    PROVE  Heard.got \in Gots /\ Heard.conn \in Handles /\ Heard.net \in Nets
<1>1. conn \in Handles /\ net \in Nets
  BY DEF Typed
<1>2. CASE link.by = "self"
  <2>1. Event.got \in Gots /\ Event.conn \in Handles /\ Event.net \in Nets
    BY <1>2, EventTypes DEF Hears
  <2>2. Heard = Event \/ Heard = [Event EXCEPT !.got = "error"]
    BY <1>2 DEF Heard
  <2>3. DOMAIN Event = {"got", "conn", "net"}
    BY DEF Event
  <2>4. "error" \in Gots
    BY DEF Gots
  <2>5. CASE Heard = Event
    BY <2>1, <2>5
  <2>6. CASE Heard = [Event EXCEPT !.got = "error"]
    <3>1. Heard.got = "error" /\ Heard.conn = Event.conn /\ Heard.net = Event.net
      BY <2>3, <2>6
    <3> QED
      BY <2>1, <2>4, <3>1
  <2> QED
    BY <2>2, <2>5, <2>6
<1>3. CASE link.by # "self"
  <2>1. /\ Heard.got \in {conn.pack, "connectable", "error"}
        /\ Heard.conn = [conn EXCEPT !.sems = @ \ {link.pc}] /\ Heard.net = net
    BY <1>3 DEF Heard
  <2>2. conn.pack \in Packets \cup {"none"} /\ conn.sems \in SUBSET Waits
    BY <1>1 DEF Handles
  <2>3. [conn EXCEPT !.sems = @ \ {link.pc}] \in Handles
    <3>1. conn.sems \ {link.pc} \in SUBSET Waits
      BY <2>2
    <3> QED
      BY <1>1, <3>1 DEF Handles
  <2> QED
    BY <1>1, <2>1, <2>2, <2>3 DEF Gots
<1> QED
  BY <1>2, <1>3

(* What MQTTClient_run posts for it.                                       *)
LEMMA PostedType ==
    ASSUME NEW c \in Handles, NEW got \in Gots
    PROVE  Posted(c, got) \in Handles
<1>1. c.sems \in SUBSET Waits
  BY DEF Handles
<1>2. \A w \in Waits : c.sems \cup {w} \in SUBSET Waits
  BY <1>1
<1>3. "connack" \in Waits /\ "suback" \in Waits /\ "tcp" \in Waits
  BY DEF Waits
<1>4. \A w \in Waits, p \in Packets : [c EXCEPT !.pack = p, !.sems = @ \cup {w}] \in Handles
  BY <1>2 DEF Handles
<1>5. \A w \in Waits, r \in {0, -1} : [c EXCEPT !.rc = r, !.sems = @ \cup {w}] \in Handles
  BY <1>2 DEF Handles
<1>6. TcpResult \in {0, -1}
  BY DEF TcpResult
<1>7. "connack" \in Packets /\ "refused" \in Packets /\ "suback" \in Packets
  BY DEF Packets
<1> QED
  BY <1>3, <1>4, <1>5, <1>6, <1>7 DEF Posted

(* A handle that is given up, in use or not.                               *)
LEMMA CloseHandleTypes ==
    ASSUME Typed, NEW stale, CloseHandle(stale)
    PROVE  conn' \in Handles /\ net' \in Nets
<1>1. conn \in Handles /\ net \in Nets
  BY DEF Typed
<1>2. Closing(conn) \in Handles /\ With(net, NoSession) \in Nets
  BY <1>1, SmallTypes, NetTypes
<1> QED
  BY <1>1, <1>2 DEF CloseHandle

------------------------------------------------------------------------------
(* The steps of a disconnect.                                              *)
LEMMA CallTypes ==
    ASSUME Typed, NEW t \in {"messager", "main"}, CloseBy(t) \/ Stopped(t)
    PROVE  Typed'
<1>1. /\ call \in [{"messager", "main"} -> Calls] /\ conn \in Handles /\ net \in Nets
      /\ tostop \in BOOLEAN /\ lost \in BOOLEAN /\ hung \in BOOLEAN
  BY DEF Typed
<1>2. \A b \in BOOLEAN :
        [call EXCEPT ![t].pc = "stopping", ![t].was = b] \in [{"messager", "main"} -> Calls]
  BY <1>1 DEF Calls
<1>3. [call EXCEPT ![t] = NoCall] \in [{"messager", "main"} -> Calls]
  BY <1>1, SmallTypes
<1>4. \A internal, was \in BOOLEAN : Told(internal, was) \in BOOLEAN
  BY <1>1 DEF Told
<1>5. call[t].internal \in BOOLEAN /\ call[t].was \in BOOLEAN /\ call[t].stale \in BOOLEAN
  BY <1>1 DEF Calls
<1>6. CASE CloseBy(t)
  <2> DEFINE was == ~call[t].stale /\ conn.connected
  <2>1. was \in BOOLEAN
    OBVIOUS
  <2>2. conn' \in Handles /\ net' \in Nets
    BY <1>6, CloseHandleTypes DEF CloseBy
  <2>3. UNCHANGED <<status, link, run, hung, faults, past>>
    BY <1>6 DEF CloseBy
  <2>4. \/ /\ tostop' = TRUE /\ lost' = lost
           /\ call' = [call EXCEPT ![t].pc = "stopping", ![t].was = was]
        \/ /\ tostop' = tostop /\ lost' = Told(call[t].internal, was)
           /\ call' = [call EXCEPT ![t] = NoCall]
    BY <1>6 DEF CloseBy
  <2> HIDE DEF was
  <2>5. /\ call' \in [{"messager", "main"} -> Calls]
        /\ tostop' \in BOOLEAN /\ lost' \in BOOLEAN
    BY <1>1, <1>2, <1>3, <1>4, <1>5, <2>1, <2>4
  <2> QED
    BY <1>1, <2>2, <2>3, <2>5 DEF Typed, Held
<1>7. CASE Stopped(t)
  <2>1. UNCHANGED <<status, link, conn, run, tostop, hung, net, faults, past>>
    BY <1>7 DEF Stopped
  <2>2. call' \in [{"messager", "main"} -> Calls] /\ lost' \in BOOLEAN
    BY <1>3, <1>4, <1>5, <1>7 DEF Stopped
  <2> QED
    BY <1>1, <2>1, <2>2 DEF Typed, Held
<1> QED
  BY <1>6, <1>7

(* The steps of MQTTClient_run.                                            *)
LEMMA RunTypes ==
    ASSUME Typed, RunStep
    PROVE  Typed'
<1>1. /\ conn \in Handles /\ net \in Nets /\ run \in Runs /\ past \in Pasts
      /\ tostop \in BOOLEAN /\ lost \in BOOLEAN /\ hung \in BOOLEAN
      /\ Held => run.msg # 0
  BY DEF Typed
<1>2. \A pc \in {"gone", "cycle", "handle", "close", "top"} :
        /\ [Cycling EXCEPT !.pc = pc] \in Runs
        /\ [Cycling EXCEPT !.pc = pc].pc = pc
  BY SmallTypes DEF Runs, Cycling
<1>0. Cycling.pc = "cycle" /\ Gone.pc = "gone" /\ Cycling \in Runs /\ Gone \in Runs
  BY SmallTypes DEF Gone, Cycling
<1>3. ASSUME UNCHANGED <<status, link, call, hung, past>>,
             conn' \in Handles, net' \in Nets, tostop' \in BOOLEAN, lost' \in BOOLEAN,
             run' \in Runs, ~Held'
      PROVE  Typed'
  BY <1>1, <1>3 DEF Typed
<1>4. CASE RunCycle
  <2>1. conn' \in Handles /\ net' \in Nets /\ Event.got \in Gots
    BY <1>4, EventTypes DEF RunCycle
  <2>2. run' = [Cycling EXCEPT !.pc = "handle", !.got = Event.got]
    BY <1>4 DEF RunCycle
  <2>3. run' \in Runs /\ run'.pc = "handle"
    BY <2>1, <2>2, SmallTypes DEF Runs, Cycling
  <2> QED
    BY <1>1, <1>3, <1>4, <2>1, <2>3 DEF RunCycle, Quiet, Held
<1>5. ASSUME NEW found \in BOOLEAN, RunHandle(found) PROVE Typed'
  <2>1. UNCHANGED <<status, link, call, lost, hung, faults, past, tostop, net>>
    BY <1>5 DEF RunHandle, Quiet
  <2>2. run.got \in Gots /\ conn.queue \in Seq(Number) /\ conn.sems \in SUBSET Waits
    BY <1>1 DEF Runs, Handles
  <2>3. conn' \in Handles
    <3>1. [conn EXCEPT !.sems = @ \cup {"connack"}] \in Handles
      <4>1. conn.sems \cup {"connack"} \in SUBSET Waits
        BY <2>2 DEF Waits
      <4> QED
        BY <1>1, <4>1 DEF Handles
    <3>2. Posted(conn, run.got) \in Handles
      BY <1>1, <2>2, PostedType
    <3> QED
      BY <1>1, <1>5, <3>1, <3>2 DEF RunHandle
  <2>4. \/ run' = Cycling \/ run' = [Cycling EXCEPT !.pc = "close"]
        \/ /\ conn.queue # <<>>
           /\ run' = [run EXCEPT !.pc = "deliver", !.msg = Head(conn.queue), !.stale = FALSE]
    BY <1>5 DEF RunHandle
  <2>5. CASE run' = Cycling \/ run' = [Cycling EXCEPT !.pc = "close"]
    <3>1. run' \in Runs /\ run'.pc \in {"cycle", "close"}
      BY <1>0, <1>2, <2>5
    <3> QED
      BY <1>1, <1>3, <2>1, <2>3, <3>1 DEF Held
  <2>6. CASE /\ conn.queue # <<>>
             /\ run' = [run EXCEPT !.pc = "deliver", !.msg = Head(conn.queue), !.stale = FALSE]
    <3>1. Head(conn.queue) \in Number
      BY <2>2, <2>6
    <3>2. run' \in Runs /\ run'.msg = Head(conn.queue)
      BY <1>1, <2>6, <3>1 DEF Runs, Number
    <3>3. run'.msg # 0
      BY <3>1, <3>2 DEF Number
    <3> QED
      BY <1>1, <2>1, <2>3, <3>2, <3>3 DEF Typed
  <2> QED
    BY <2>4, <2>5, <2>6
<1>6. CASE RunDeliver
  <2>1. /\ UNCHANGED <<status, link, conn, call, tostop, lost, hung, net, faults>>
        /\ past' = [past EXCEPT !.arrived = Append(@, run.msg)]
        /\ run' = [run EXCEPT !.pc = "after"] /\ run.pc = "deliver"
    BY <1>6 DEF RunDeliver
  <2>2. run.msg \in Number
    <3>1. run.msg \in Nat
      BY <1>1 DEF Runs
    <3> QED
      BY <1>1, <2>1, <3>1 DEF Held, Number
  <2>3. past.arrived \in Seq(Number)
    BY <1>1 DEF Pasts
  <2>4. Append(past.arrived, run.msg) \in Seq(Number)
    BY <2>2, <2>3
  <2>5. past' \in Pasts
    BY <1>1, <2>1, <2>4 DEF Pasts
  <2>6. run' \in Runs /\ run'.msg = run.msg
    BY <1>1, <2>1 DEF Runs
  <2> QED
    BY <1>1, <2>1, <2>2, <2>5, <2>6 DEF Typed, Number
<1>7. CASE RunAfter
  <2>1. conn.queue \in Seq(Number) /\ run.got \in Gots
    BY <1>1 DEF Handles, Runs
  <2>2. Taken(conn.queue) \in Seq(Number)
    BY <2>1 DEF Taken
  <2>3. [conn EXCEPT !.queue = Taken(@)] \in Handles
    BY <1>1, <2>2 DEF Handles
  <2>4. conn' \in Handles
    BY <1>1, <1>7, <2>1, <2>3, PostedType DEF RunAfter
  <2> QED
    BY <1>1, <1>2, <1>3, <1>7, <2>4 DEF RunAfter, Quiet, Held
<1>8. CASE RunClose
  <2>1. conn' \in Handles /\ net' \in Nets
    BY <1>8, CloseHandleTypes DEF RunClose
  <2>2. tostop' \in BOOLEAN /\ lost' \in BOOLEAN
    BY <1>1, <1>8 DEF RunClose, Told
  <2> QED
    BY <1>1, <1>2, <1>3, <1>8, <2>1, <2>2 DEF RunClose, Held
<1>9. CASE RunTop \/ RunLeaves
  <2>1. run' \in Runs /\ run'.pc \in {"cycle", "gone"}
    BY <1>0, <1>9 DEF RunTop, RunLeaves
  <2> QED
    BY <1>1, <1>3, <1>9, <2>1 DEF RunTop, RunLeaves, Quiet, Held
<1> QED
  BY <1>4, <1>5, <1>6, <1>7, <1>8, <1>9 DEF RunStep

(* The keep-alive, and the loss that is told.                              *)
LEMMA AliveTypes ==
    ASSUME Typed, KeepAlive \/ LostCall
    PROVE  Typed'
<1>1. /\ conn \in Handles /\ net \in Nets /\ past \in Pasts
      /\ lost \in BOOLEAN /\ hung \in BOOLEAN
  BY DEF Typed
<1>2. CASE KeepAlive
  <2>1. [conn EXCEPT !.ping = TRUE] \in Handles
    BY <1>1 DEF Handles
  <2>2. [net EXCEPT !.owes = @ \cup {"pingresp"}] \in Nets
    <3>1. net.owes \cup {"pingresp"} \in SUBSET Answers
      BY <1>1 DEF Nets, Answers
    <3> QED
      BY <1>1, <3>1 DEF Nets
  <2>3. conn' \in Handles /\ net' \in Nets /\ hung' \in BOOLEAN
    BY <1>1, <1>2, <2>1, <2>2 DEF KeepAlive
  <2>4. UNCHANGED <<status, link, run, tostop, call, lost, faults, past>>
    BY <1>2 DEF KeepAlive
  <2> QED
    BY <1>1, <2>3, <2>4 DEF Typed, Held
<1>3. CASE LostCall
  <2>1. past' \in Pasts
    <3>1. (link.pc \in Connecting) \in BOOLEAN
      OBVIOUS
    <3>2. \A b \in BOOLEAN : [past EXCEPT !.crossed = b] \in Pasts
      BY <1>1 DEF Pasts
    <3> QED
      BY <1>3, <3>1, <3>2 DEF LostCall
  <2> QED
    BY <1>1, <1>3, <2>1 DEF LostCall, Typed, Held, Results
<1> QED
  BY <1>2, <1>3

(* The network and the broker.                                             *)
LEMMA BrokerTypes ==
    ASSUME Typed, BrokerStep
    PROVE  Typed'
<1>1. net \in Nets /\ past \in Pasts
  BY DEF Typed
<1>2. ASSUME Elsewhere, net' \in Nets, past' \in Pasts PROVE Typed'
  BY <1>1, <1>2 DEF Typed, Elsewhere, Held
<1>3. [past EXCEPT !.harmed = TRUE] \in Pasts
  BY <1>1 DEF Pasts
<1>4. /\ \A x \in Sessions : [net EXCEPT !.sess = x] \in Nets
      /\ \A x \in BOOLEAN : [net EXCEPT !.up = x] \in Nets
  BY <1>1 DEF Nets
<1>5. CASE TcpResolves
  BY <1>1, <1>2, <1>4, <1>5 DEF TcpResolves, Sound, Sessions
<1>6. ASSUME NEW a \in Answers, BrokerAnswers(a) PROVE Typed'
  <2>1. past' \in Pasts /\ Elsewhere
    BY <1>1, <1>3, <1>6 DEF BrokerAnswers, Sound, May
  <2>2. /\ net.owes \ {a} \in SUBSET Answers /\ net.subscribed \in BOOLEAN
        /\ a \in Packets \cup {"pingresp"} /\ "refused" \in Packets
    BY <1>1 DEF Nets, Answers, Packets
  <2>3. (net.subscribed \/ a = "suback") \in BOOLEAN
    OBVIOUS
  <2>4. With(net, [owes |-> net.owes \ {a}, inbox |-> Append(net.inbox, [type |-> a]),
                   subscribed |-> net.subscribed \/ a = "suback"]) \in Nets
    BY <1>1, <2>2, <2>3, NetTypes
  <2>5. With(net, [owes |-> {}, inbox |-> Append(net.inbox, [type |-> "refused"])]) \in Nets
    BY <1>1, <2>2, NetTypes
  <2>6. net' \in Nets
    BY <1>6, <2>4, <2>5 DEF BrokerAnswers
  <2> QED
    BY <1>2, <2>1, <2>6
<1>7. CASE BrokerPublishes
  <2>1. past.published \in 0 .. NMESSAGE /\ past.published < NMESSAGE
    BY <1>1, <1>7 DEF Pasts, BrokerPublishes
  <2>2. past.published + 1 \in 0 .. NMESSAGE /\ past.published + 1 \in Number
    BY <2>1, NMessageAssumption DEF Number
  <2>3. past' \in Pasts /\ past'.published = past.published + 1
    BY <1>1, <1>7, <2>2 DEF BrokerPublishes, Pasts
  <2>4. [type |-> "publish", msg |-> past'.published] \in Numbered
    BY <2>2, <2>3 DEF Numbered
  <2>5. net.inbox \in Seq(Numbered)
    BY <1>1 DEF Nets
  <2>6. Append(net.inbox, [type |-> "publish", msg |-> past'.published]) \in Seq(Numbered)
    BY <2>4, <2>5
  <2>7. net' \in Nets
    BY <1>1, <1>7, <2>6 DEF BrokerPublishes, Nets
  <2> QED
    BY <1>2, <1>7, <2>3, <2>7 DEF BrokerPublishes
<1>8. CASE BrokerCloses \/ GoesSilent
  <2>1. past' \in Pasts /\ Elsewhere
    BY <1>3, <1>8 DEF BrokerCloses, GoesSilent, May
  <2>2. net' \in Nets
    BY <1>1, <1>8, NetTypes DEF BrokerCloses, GoesSilent, Sessions
  <2> QED
    BY <1>2, <2>1, <2>2
<1>9. CASE GoesDown \/ ComesUp
  BY <1>1, <1>2, <1>3, <1>4, <1>9 DEF GoesDown, ComesUp, May, Sound
<1> QED
  BY <1>5, <1>6, <1>7, <1>8, <1>9 DEF BrokerStep, Answers

(* MQTTClient_connectURIVersion begins.                                    *)
LEMMA ConnectTypes ==
    ASSUME Typed, ConnectFails \/ ConnectPends \/ ConnectDone
    PROVE  Typed'
<1>1. /\ conn \in Handles /\ net \in Nets /\ run \in Runs /\ link \in Links
      /\ call \in [{"messager", "main"} -> Calls]
      /\ Held => run.msg # 0
  BY DEF Typed
<1>2. Begin
  BY DEF ConnectFails, ConnectPends, ConnectDone
<1>3. UNCHANGED <<status, tostop, lost, hung, faults, past>>
  BY <1>2 DEF Begin
<1>4. run' \in Runs /\ (Held' => run'.msg # 0)
  <2>1. Cycling \in Runs /\ Cycling.pc = "cycle"
    BY SmallTypes DEF Cycling
  <2>2. run' = Cycling \/ run' = [run EXCEPT !.stale = TRUE] \/ run' = run
    BY <1>2 DEF Begin, RunStarted
  <2>3. CASE run' = [run EXCEPT !.stale = TRUE]
    <3>1. run' \in Runs /\ run'.pc = run.pc /\ run'.msg = run.msg
      BY <1>1, <2>3 DEF Runs
    <3> QED
      BY <1>1, <3>1 DEF Held
  <2>4. CASE run' = Cycling
    BY <2>1, <2>4 DEF Held
  <2>5. CASE run' = run
    BY <1>1, <2>5 DEF Held
  <2> QED
    BY <2>2, <2>3, <2>4, <2>5
<1>5. call' \in [{"messager", "main"} -> Calls]
  <2>1. [call EXCEPT !.main.stale = TRUE] \in [{"messager", "main"} -> Calls]
    BY <1>1 DEF Calls
  <2> QED
    BY <1>1, <1>2, <2>1 DEF Begin
<1>6. Handle \in Handles
  BY <1>1, SmallTypes DEF Handle
<1>7. \A x \in {0, 1, 3}, b \in BOOLEAN :
        /\ [Handle EXCEPT !.state = x] \in Handles
        /\ [Handle EXCEPT !.state = x, !.pending = b] \in Handles
  BY <1>6 DEF Handles
<1>8. conn' \in Handles
  BY <1>6, <1>7 DEF ConnectFails, ConnectPends, ConnectDone
<1>9. net' \in Nets
  <2>1. CASE ConnectFails
    <3>1. CASE net' = net
      BY <1>1, <3>1
    <3>2. CASE CanOpen /\ net' = [net EXCEPT !.leaked = @ + 1]
      <4>1. net.leaked + 1 \in 0 .. NSOCKET
        BY <1>1, <3>2, NSocketAssumption DEF Nets, CanOpen
      <4> QED
        BY <1>1, <3>2, <4>1 DEF Nets
    <3> QED
      BY <2>1, <3>1, <3>2 DEF ConnectFails
  <2>2. CASE ConnectPends
    BY <1>1, <2>2 DEF ConnectPends, Nets, Sessions
  <2>3. CASE ConnectDone
    <3>1. "open" \in Sessions /\ {"connack"} \in SUBSET Answers
      BY DEF Sessions, Answers
    <3> QED
      BY <1>1, <2>3, <3>1, NetTypes DEF ConnectDone
  <2> QED
    BY <2>1, <2>2, <2>3
<1>10. link' \in Links
  <2>1. link.pc \in Waits \cup {"connect"}
    BY <1>2 DEF Begin
  <2>2. ConnectFails => link' \in Links
    BY <1>1 DEF ConnectFails, Links, Results
  <2>3. ConnectPends => link' \in Links
    BY <1>1 DEF ConnectPends, Links, Waits
  <2>4. ConnectDone => link' \in Links
    BY <1>1 DEF ConnectDone, Links, Waits
  <2> QED
    BY <2>2, <2>3, <2>4
<1> QED
  BY <1>3, <1>4, <1>5, <1>8, <1>9, <1>10 DEF Typed

(* The messager is told what it waits for, or what ends its waiting.       *)
LEMMA HearingTypes ==
    ASSUME Typed,
           \/ TcpConnected \/ Accepted \/ NotConnected \/ Overhears
           \/ Subacked \/ NotSubscribed
    PROVE  Typed'
<1>1. /\ link \in Links /\ status \in Results /\ run \in Runs
      /\ call \in [{"messager", "main"} -> Calls]
      /\ net \in Nets
  BY DEF Typed
<1>2. Heard.conn \in Handles /\ Heard.net \in Nets
  BY HeardTypes DEF TcpConnected, Accepted, NotConnected, Overhears, Subacked,
                    NotSubscribed, Hearing
<1>3. UNCHANGED status /\ Unlinked
  BY DEF TcpConnected, Accepted, NotConnected, Overhears, Subacked, NotSubscribed
<1>4. call' \in [{"messager", "main"} -> Calls]
  <2>1. [call EXCEPT !["messager"] = Disconnect(TRUE, TRUE)]
            \in [{"messager", "main"} -> Calls]
    BY <1>1, SmallTypes
  <2>2. call' = call \/ GiveUp
    BY DEF TcpConnected, Accepted, NotConnected, Overhears, Subacked, NotSubscribed
  <2> QED
    BY <1>1, <2>1, <2>2 DEF GiveUp
<1>5. conn' \in Handles
  <2>1. [Heard.conn EXCEPT !.state = 3] \in Handles
    BY <1>2 DEF Handles
  <2>2. [Heard.conn EXCEPT !.connected = TRUE, !.state = 0, !.pack = "none",
                           !.queue = <<>>] \in Handles
    <3>1. <<>> \in Seq(Number)
      OBVIOUS
    <3> QED
      BY <1>2, <3>1 DEF Handles
  <2>3. [Heard.conn EXCEPT !.pack = "none"] \in Handles
    BY <1>2 DEF Handles
  <2> QED
    BY <1>2, <2>1, <2>2, <2>3
       DEF TcpConnected, Accepted, NotConnected, Overhears, Subacked, NotSubscribed
<1>6. net' \in Nets
  <2>1. [net EXCEPT !.owes = @ \cup {"connack"}] \in Nets
    <3>1. net.owes \cup {"connack"} \in SUBSET Answers
      BY <1>1 DEF Nets, Answers
    <3> QED
      BY <1>1, <3>1 DEF Nets
  <2> QED
    BY <1>2, <2>1
       DEF TcpConnected, Accepted, NotConnected, Overhears, Subacked, NotSubscribed
<1>7. link' \in Links
  <2>1. CASE TcpConnected
    BY <1>1, <2>1 DEF TcpConnected, Links, Waits
  <2>2. CASE Accepted
    BY <1>1, <2>2 DEF Accepted, Links, Results
  <2>3. CASE NotConnected
    <3>1. \A r \in Results : [link EXCEPT !.pc = "fail", !.by = "", !.rc = r] \in Links
      BY <1>1 DEF Links
    <3>2. 5 \in Results /\ -1 \in Results
      BY DEF Results
    <3> QED
      BY <2>3, <3>1, <3>2 DEF NotConnected
  <2>4. CASE Overhears
    BY <1>1, <2>4 DEF Overhears
  <2>5. CASE Subacked \/ NotSubscribed
    BY <2>5, SmallTypes DEF Subacked, NotSubscribed
  <2> QED
    BY <2>1, <2>2, <2>3, <2>4, <2>5
<1> QED
  BY <1>1, <1>3, <1>4, <1>5, <1>6, <1>7 DEF Typed, Unlinked, Held

(* Its other steps, and a publication of the main loop that fails.         *)
LEMMA LinkTypes ==
    ASSUME Typed,
           \/ Reconnect \/ Look \/ Fail \/ Failed \/ Assign \/ Subscribe
           \/ TimesOut \/ Report \/ ReportFails \/ MainFails
    PROVE  Typed'
<1>1. /\ link \in Links /\ status \in Results /\ net \in Nets
      /\ call \in [{"messager", "main"} -> Calls] /\ conn \in Handles
  BY DEF Typed
<1>2. conn' = conn /\ UNCHANGED <<run, tostop, lost, hung, faults, past>>
  BY DEF Reconnect, Look, Fail, Failed, Assign, Subscribe, TimesOut, Report,
         ReportFails, MainFails, PublishFails, Unlinked
<1>3. call' \in [{"messager", "main"} -> Calls]
  <2>1. \A t \in {"messager", "main"}, internal, stop \in BOOLEAN :
          [call EXCEPT ![t] = Disconnect(internal, stop)]
              \in [{"messager", "main"} -> Calls]
    BY <1>1, SmallTypes
  <2>2. (link.v = 3) \in BOOLEAN /\ TRUE \in BOOLEAN /\ FALSE \in BOOLEAN
    OBVIOUS
  <2>3. Fail => call' \in [{"messager", "main"} -> Calls]
    BY <2>1, <2>2 DEF Fail
  <2>4. Subscribe \/ TimesOut \/ ReportFails \/ MainFails
            => call' \in [{"messager", "main"} -> Calls]
    BY <1>1, <2>1, <2>2 DEF Subscribe, TimesOut, GiveUp, ReportFails, MainFails, PublishFails
  <2>5. Reconnect \/ Look \/ Failed \/ Assign \/ Report => call' = call
    BY DEF Reconnect, Look, Failed, Assign, Report
  <2> QED
    BY <1>1, <2>3, <2>4, <2>5
<1>4. net' \in Nets
  <2>1. [net EXCEPT !.owes = @ \cup {"suback"}] \in Nets
    <3>1. net.owes \cup {"suback"} \in SUBSET Answers
      BY <1>1 DEF Nets, Answers
    <3> QED
      BY <1>1, <3>1 DEF Nets
  <2>2. net' = net \/ net' = [net EXCEPT !.owes = @ \cup {"suback"}]
    BY DEF Reconnect, Look, Fail, Failed, Assign, Subscribe, TimesOut, Report,
           ReportFails, MainFails, PublishFails
  <2> QED
    BY <1>1, <2>1, <2>2
<1>5. status' \in Results
  <2>1. link.rc \in Results
    BY <1>1 DEF Links
  <2>2. status' = status \/ status' = link.rc
    BY DEF Reconnect, Look, Fail, Failed, Assign, Subscribe, TimesOut, Report,
           ReportFails, MainFails, PublishFails
  <2> QED
    BY <1>1, <2>1, <2>2
<1>6. link' \in Links
  <2>1. \A pc \in Waits \cup {"connect", "subscribe", "report", "loop"} : At(pc) \in Links
    BY SmallTypes
  <2>2. CASE Reconnect \/ Assign \/ Report \/ ReportFails \/ MainFails
    BY <1>1, <2>1, <2>2 DEF Reconnect, Assign, Report, ReportFails, MainFails
  <2>3. CASE Look
    BY <1>1, <2>3 DEF Look, Links
  <2>4. CASE Fail
    BY <1>1, <2>4 DEF Fail, Links
  <2>5. CASE Failed
    BY <1>1, <2>5 DEF Failed, Links
  <2>6. CASE Subscribe
    <3>1. [At("suback") EXCEPT !.by = "?"] \in Links
      <4>1. At("suback") \in Links
        BY <2>1 DEF Waits
      <4> QED
        BY <4>1 DEF Links
    <3> QED
      BY <2>1, <2>6, <3>1 DEF Subscribe
  <2>7. CASE TimesOut
    <3>1. [link EXCEPT !.pc = "fail", !.by = "", !.rc = -1, !.late = TRUE] \in Links
      BY <1>1 DEF Links, Results
    <3> QED
      BY <2>1, <2>7, <3>1 DEF TimesOut
  <2> QED
    BY <2>2, <2>3, <2>4, <2>5, <2>6, <2>7
<1> QED
  BY <1>1, <1>2, <1>3, <1>4, <1>5, <1>6 DEF Typed, Held

(* The link starts typed.                                                  *)
LEMMA TypedInit == Init => Typed
<1> SUFFICES ASSUME Init PROVE Typed
  OBVIOUS
<1>1. /\ link = At("connect") /\ conn = NewHandle /\ run = Gone
      /\ status = 0 /\ tostop = FALSE /\ lost = FALSE /\ hung = FALSE
      /\ call = [t \in {"messager", "main"} |-> NoCall]
      /\ net = [sess |-> "closed", inbox |-> <<>>, owes |-> {}, subscribed |-> FALSE,
                up |-> TRUE, leaked |-> 0]
      /\ past = [harmed |-> FALSE, crossed |-> FALSE, published |-> 0, arrived |-> <<>>]
  BY DEF Init
<1>2. /\ link \in Links /\ conn \in Handles /\ run \in Runs
      /\ call \in [{"messager", "main"} -> Calls]
  BY <1>1, SmallTypes
<1>3. ~Held
  BY <1>1 DEF Held, Gone
<1>4. net \in Nets
  BY <1>1, NSocketAssumption DEF Nets, Sessions
<1>5. past \in Pasts
  BY <1>1, NMessageAssumption DEF Pasts
<1> QED
  BY <1>1, <1>2, <1>3, <1>4, <1>5 DEF Typed, Results

(* Every step keeps the types, with what the types rest on.                *)
LEMMA TypedStep == Typed /\ [Next]_linkVars => Typed'
<1> SUFFICES ASSUME Typed, [Next]_linkVars PROVE Typed'
  OBVIOUS
<1>1. CASE UNCHANGED linkVars
  BY <1>1 DEF linkVars, Typed, Held
<1>2. CASE LinkStep \/ MainFails
  BY <1>2, ConnectTypes, HearingTypes, LinkTypes DEF LinkStep
<1>3. CASE RunStep \/ KeepAlive \/ LostCall \/ BrokerStep
  BY <1>3, RunTypes, AliveTypes, BrokerTypes
<1>4. CASE \E t \in {"messager", "main"} : CloseBy(t) \/ Stopped(t)
  BY <1>4, CallTypes
<1> QED
  BY <1>1, <1>2, <1>3, <1>4 DEF Next

(* TypeOK: also that no more numbers arrive than were published, for which *)
(* the order of the messages is needed.                                    *)
THEOREM TypeCorrect == Spec => []TypeOK
<1>1. Typed /\ Inv => TypeOK
  <2> SUFFICES ASSUME Typed, Inv PROVE TypeOK
    OBVIOUS
  <2>1. past.arrived \in Seq(1 .. past.published)
    <3>1. past.arrived \in Seq(Number) /\ past.published \in Nat
      BY DEF Typed, Pasts
    <3>2. \A k \in DOMAIN past.arrived : past.arrived[k] \in 1 .. past.published
      <4> TAKE k \in DOMAIN past.arrived
      <4>1. past.arrived[k] \in Nat \ {0}
        BY <3>1 DEF Number
      <4>2. past.arrived[k] <= past.published
        BY DEF Inv, ArrivedBefore
      <4> QED
        BY <3>1, <4>1, <4>2
    <3> QED
      BY <3>1, <3>2
  <2>2. /\ status \in {-1, 0, 5} /\ {tostop, lost, hung} \subseteq BOOLEAN
        /\ past.published \in 0 .. NMESSAGE
    BY DEF Typed, Results, Pasts
  <2>3. /\ link.pc \in Waits \cup {"connect", "fail", "failed", "assign", "subscribe",
                                   "report", "loop"}
        /\ link.v \in {3, 4} /\ link.by \in {"", "?", "sem", "self"}
        /\ link.late \in BOOLEAN
    BY DEF Typed, Links
  <2>4. conn.state \in {0, 1, 3} /\ conn.connected \in BOOLEAN /\ conn.sems \subseteq Waits
    BY DEF Typed, Handles
  <2>5. /\ run.pc \in {"gone", "cycle", "handle", "deliver", "after", "close", "top"}
        /\ \A t \in {"messager", "main"} : call[t].pc \in {"none", "close", "stopping"}
    BY DEF Typed, Runs, Calls
  <2>6. /\ net.sess \in {"closed", "pending", "refused", "open", "reset", "silent"}
        /\ net.owes \subseteq {"connack", "suback", "pingresp"}
        /\ net.leaked \in 0 .. NSOCKET
    BY DEF Typed, Nets, Sessions, Answers
  <2> QED
    BY <2>1, <2>2, <2>3, <2>4, <2>5, <2>6 DEF TypeOK
<1> QED
  BY <1>1, InvInit, InvStep, TypedInit, TypedStep, PTL DEF Spec
==============================================================================
