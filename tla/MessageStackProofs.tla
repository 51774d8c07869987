------------------------- MODULE MessageStackProofs --------------------------
(***************************************************************************)
(* Proofs about MessageStack: no message is taken twice, however the push  *)
(* of MessagerTask and the pull of the main loop interleave; and with push *)
(* and pull apart the stack implements MessageQueue.                       *)
(***************************************************************************)
EXTENDS MessageStack, FiniteSetTheorems, TLAPS

(* Records are described by their fields: there is no set of all messages. *)
IsMsgr(m) == m = [pc |-> m.pc, rx |-> m.rx, p |-> m.p]
IsPull(q) == q = [pc |-> q.pc, i |-> q.i]
IsPlace(s) == s = [id |-> s.id, typed |-> s.typed, msg |-> s.msg]

MailType ==
    /\ script \in DOMAIN Scripts
    /\ ready \in BOOLEAN
    /\ sent \subseteq DOMAIN Docs
    /\ ready => buffer \in sent
MsgrType ==
    /\ IsMsgr(msgr)
    /\ msgr.pc \in {"poll", "scan", "store", "clear"}
    /\ msgr.p \in 0 .. NSTACK
    /\ msgr.pc = "store" => msgr.p \in Places
    /\ Pushing => msgr.rx.id \in Ids
StackType ==
    /\ DOMAIN stack = Places
    /\ \A j \in Places :
         /\ IsPlace(stack[j])
         /\ stack[j].id \in Int
         /\ stack[j].typed \in BOOLEAN
         /\ stack[j].typed => stack[j].msg.id \in Ids
PullType ==
    /\ IsPull(pull)
    /\ pull.pc \in {"check", "shift", "wipe", "answer"}
    /\ pull.i \in Places
    /\ pull.pc = "wipe" => pull.i = NSTACK - 1
TypeInv == MailType /\ MsgrType /\ StackType /\ PullType /\ taken \in Seq(Ids)

------------------------------------------------------------------------------
(* No message is taken twice.                                              *)

IdAt(j) == stack[j].msg.id
Heard == {Parsed[script][k].id : k \in sent}

(* An id that is nowhere yet: with no message that waits, nor taken.       *)
Fresh(id) ==
    /\ \A j \in WaitingPlaces : IdAt(j) # id
    /\ \A t \in DOMAIN taken : taken[t] # id

WaitingOnce ==
    \A j \in WaitingPlaces :
        /\ IdAt(j) \in Heard
        /\ \A l \in WaitingPlaces : IdAt(j) = IdAt(l) => j = l
        /\ \A t \in DOMAIN taken : taken[t] # IdAt(j)
TakenHeard == \A t \in DOMAIN taken : taken[t] \in Heard
ParsedFresh == Pushing => msgr.rx.id \in Heard /\ Fresh(msgr.rx.id)
MailFresh == msgr.pc = "poll" /\ ready => Fresh(Parsed[script][buffer].id)
OnceInv == TypeInv /\ TakenOnce /\ TakenHeard /\ WaitingOnce /\ ParsedFresh /\ MailFresh

------------------------------------------------------------------------------
(* With push and pull apart the stack is a queue.                          *)

(* Messages fill the stack from its head on.  While it is being shifted,   *)
(* those behind pull.i are still one place further.                        *)
Occupied(j, n) == j < n \/ (j = n /\ Pulling /\ pull.i < j)
Filled(n) ==
    \A j \in Places : ~(Pulling /\ j = pull.i) =>
        (stack[j].typed <=> Occupied(j, n)) /\ (stack[j].id >= 0 <=> Occupied(j, n))
Apart == ~(Pushing /\ Pulling)
Scanned ==
    /\ Pushing => msgr.rx.id >= 0 /\ \A j \in 0 .. msgr.p - 1 : stack[j].id >= 0
    /\ msgr.pc = "store" => stack[msgr.p].id < 0
Wiped == pull.pc = "wipe" => stack[NSTACK - 1].id < 0
HasShape == \E n \in 0 .. IF Pulling THEN NSTACK - 1 ELSE NSTACK : Filled(n)
QueueInv == TypeInv /\ (Locked => Apart /\ Scanned /\ Wiped /\ HasShape)

------------------------------------------------------------------------------
(* Types.                                                                  *)

(* What GetAlgoidMsg leaves in AlgoidMessageRX has the header of the       *)
(* document; only lists are those of an earlier message.                   *)
LEMMA HeaderKept ==
    ASSUME NEW rx, script \in DOMAIN Scripts, NEW k \in DOMAIN Docs
    PROVE  /\ GetAlgoidMsg(rx, Parsed[script][k]).id = Parsed[script][k].id
           /\ Parsed[script][k].id \in Ids
           /\ Known(GetAlgoidMsg(rx, Parsed[script][k])) <=> Known(Parsed[script][k])
           /\ ForMe(GetAlgoidMsg(rx, Parsed[script][k])) <=> ForMe(Parsed[script][k])
<1> DEFINE r == Parsed[script][k]
<1>1. DOMAIN r = DOMAIN NoMessage /\ r.id \in Ids
  BY ScriptsAssumption DEF Docs
<1>2. DOMAIN r = {"to", "from", "id", "type", "param", "values", "lists"}
  BY <1>1 DEF NoMessage
<1>3. \A x : LET m == [r EXCEPT !.lists = x]
             IN  m.id = r.id /\ m.to = r.to /\ m.type = r.type /\ m.param = r.param
  BY <1>2
<1>4. PICK x : GetAlgoidMsg(rx, r) = [r EXCEPT !.lists = x]
  BY DEF GetAlgoidMsg
<1> QED BY <1>1, <1>3, <1>4 DEF Known, ForMe

(* TypeInv holds at the start and is kept by every step.                   *)
LEMMA TypeInit == Init => TypeInv
<1> SUFFICES ASSUME Init PROVE TypeInv
  OBVIOUS
<1>1. 0 \in Places /\ 0 \in 0 .. NSTACK
  BY NStackAssumption DEF Places
<1>2. MailType
  BY DEF Init, MailType, Docs
<1>3. MsgrType
  BY <1>1 DEF Init, MsgrType, IsMsgr, Pushing
<1>4. StackType
  <2>1. stack = [j \in Places |-> FreePlace]
    BY DEF Init
  <2>2. /\ IsPlace(FreePlace)
        /\ FreePlace.id \in Int /\ FreePlace.typed = FALSE
    BY DEF IsPlace, FreePlace
  <2> QED BY <2>1, <2>2 DEF StackType
<1>5. PullType
  BY <1>1 DEF Init, PullType, IsPull, IdlePull
<1>6. taken \in Seq(Ids)
  BY DEF Init
<1> QED BY <1>2, <1>3, <1>4, <1>5, <1>6 DEF TypeInv

(* Every step keeps the types.                                             *)
LEMMA TypeStep == TypeInv /\ [Next]_vars => TypeInv'
<1> SUFFICES ASSUME TypeInv, [Next]_vars PROVE TypeInv'
  OBVIOUS
<1> USE NStackAssumption
<1>1. ASSUME NEW k \in DOMAIN Docs, Arrive(k) PROVE TypeInv'
  BY <1>1 DEF TypeInv, Arrive, MailType, MsgrType, StackType, PullType, history, Docs, Pushing
<1>2. CASE Poll
  <2>1. msgr.pc = "poll" /\ ready /\ buffer \in DOMAIN Docs /\ script \in DOMAIN Scripts
    BY <1>2 DEF Poll, TypeInv, MailType
  <2>2. PICK m : /\ m = GetAlgoidMsg(msgr.rx, Parsed[script][buffer])
                 /\ msgr' = [pc |-> IF Known(m) /\ ForMe(m) THEN "scan" ELSE "clear",
                             rx |-> m, p |-> 0]
    BY <1>2 DEF Poll
  <2>3. m.id \in Ids
    BY <2>1, <2>2, HeaderKept
  <2>4. MsgrType'
    BY <2>2, <2>3 DEF MsgrType, IsMsgr, Pushing, Places
  <2> QED BY <1>2, <2>4 DEF Poll, TypeInv, MailType, StackType, PullType, received, history, Docs
<1>3. CASE ScanPast \/ ScanStop \/ Full \/ Clear
  <2>1. MsgrType'
    BY <1>3 DEF ScanPast, ScanStop, Full, Clear, TypeInv, MsgrType, IsMsgr, Pushing, Places
  <2>2. UNCHANGED <<script, buffer, sent, stack, pull, taken>> /\ (ready' = ready \/ ready' = FALSE)
    BY <1>3 DEF ScanPast, ScanStop, Full, Clear, received, history
  <2>3. MailType'
    <3>1. ready' \in BOOLEAN
      BY <2>2 DEF TypeInv, MailType
    <3>2. ready' => ready
      <4>1. CASE ready' = ready
        BY <4>1
      <4>2. CASE ready' = FALSE
        BY <4>2
      <4> QED BY <2>2, <4>1, <4>2
    <3> QED BY <2>2, <3>1, <3>2 DEF TypeInv, MailType, Docs
  <2>4. StackType' /\ PullType'
    BY <2>2 DEF TypeInv, StackType, PullType
  <2> QED BY <2>1, <2>2, <2>3, <2>4 DEF TypeInv
<1>4. CASE Store
  <2>1. MsgrType'
    BY <1>4 DEF Store, TypeInv, MsgrType, IsMsgr, Pushing
  <2>2. msgr.p \in Places /\ msgr.rx.id \in Ids
    BY <1>4 DEF Store, TypeInv, MsgrType, Pushing
  <2>3. StackType'
    BY <1>4, <2>2, IdsAssumption DEF Store, TypeInv, StackType, Place, IsPlace
  <2> QED BY <1>4, <2>1, <2>3 DEF Store, TypeInv, MailType, PullType, received, Docs
<1>5. CASE Pull
  <2>1. stack[0].msg.id \in Ids
    BY <1>5 DEF Pull, TypeInv, StackType, Places
  <2>2. taken' \in Seq(Ids)
    BY <1>5, <2>1 DEF Pull, TypeInv
  <2>3. PullType'
    BY <1>5 DEF Pull, PullType, IsPull, Places
  <2> QED BY <1>5, <2>2, <2>3 DEF Pull, TypeInv, MailType, MsgrType, StackType, received, Docs, Pushing
<1>6. CASE Shift \/ WipeId \/ WipeType
  <2>1. PullType'
    BY <1>6 DEF Shift, WipeId, WipeType, TypeInv, PullType, IsPull, Places, Pulled, IdlePull
  <2>2. ASSUME Shift PROVE StackType'
    <3>1. pull.i \in Places /\ pull.i + 1 \in Places /\ stack' = [stack EXCEPT ![pull.i] = stack[pull.i + 1]]
      BY <2>2 DEF Shift, TypeInv, PullType, Places
    <3> QED BY <3>1 DEF TypeInv, StackType, IsPlace
  <2>3. ASSUME WipeId PROVE StackType'
    <3>1. NSTACK - 1 \in Places /\ stack' = [stack EXCEPT ![NSTACK - 1].id = -1]
      BY <2>3 DEF WipeId, Places
    <3> QED BY <3>1 DEF TypeInv, StackType, IsPlace
  <2>4. ASSUME WipeType PROVE StackType'
    <3>1. NSTACK - 1 \in Places /\ stack' = [stack EXCEPT ![NSTACK - 1].typed = FALSE]
      BY <2>4 DEF WipeType, Places
    <3> DEFINE s == stack[NSTACK - 1]
    <3>2. s = [id |-> s.id, typed |-> s.typed, msg |-> s.msg] /\ s.id \in Int
      BY <3>1 DEF TypeInv, StackType, IsPlace
    <3>3. stack'[NSTACK - 1] = [id |-> s.id, typed |-> FALSE, msg |-> s.msg]
      BY <3>1, <3>2 DEF TypeInv, StackType
    <3>4. /\ DOMAIN stack' = Places
          /\ \A j \in Places \ {NSTACK - 1} : stack'[j] = stack[j]
      BY <3>1 DEF TypeInv, StackType
    <3>5. /\ IsPlace(stack'[NSTACK - 1])
          /\ stack'[NSTACK - 1].id \in Int
          /\ stack'[NSTACK - 1].typed = FALSE
      BY <3>2, <3>3 DEF IsPlace
    <3> QED BY <3>4, <3>5 DEF TypeInv, StackType
  <2>5. StackType'
    BY <1>6, <2>2, <2>3, <2>4
  <2> QED BY <1>6, <2>1, <2>5
          DEF Shift, WipeId, WipeType, TypeInv, MailType, MsgrType, received, history, Docs, Pushing
<1>7. ASSUME NEW entries \in Scripts[script].answers, Answer(entries) PROVE TypeInv'
  BY <1>7 DEF Answer, TypeInv, MailType, MsgrType, StackType, PullType, IsPull, IdlePull, Places,
              received, history, Docs, Pushing
<1>8. CASE UNCHANGED vars
  BY <1>8 DEF TypeInv, MailType, MsgrType, StackType, PullType, vars, Docs, Pushing
<1> QED BY <1>1, <1>2, <1>3, <1>4, <1>5, <1>6, <1>7, <1>8 DEF Next, MessagerStep, PullStep

------------------------------------------------------------------------------
(* No message is taken twice.                                              *)

(* Nothing has been taken at the start.                                    *)
LEMMA OnceInit == Init => OnceInv
<1> SUFFICES ASSUME Init PROVE OnceInv
  OBVIOUS
<1>1. TypeInv
  BY TypeInit
<1>2. taken = <<>> /\ DOMAIN taken = {} /\ WaitingPlaces = {} /\ ready = FALSE /\ ~Pushing
  BY DEF Init, WaitingPlaces, FreePlace, Pushing
<1> QED BY <1>1, <1>2
        DEF OnceInv, TakenOnce, IsInjective, TakenHeard, WaitingOnce, ParsedFresh, MailFresh

(* A step that leaves the messages where they are.                         *)
LEMMA OnceFrame ==
    ASSUME OnceInv, UNCHANGED <<script, stack, pull, taken>>, sent \subseteq sent'
    PROVE  /\ TakenOnce' /\ TakenHeard' /\ WaitingOnce'
           /\ Heard \subseteq Heard'
           /\ \A id : Fresh(id) => Fresh(id)'
<1>1. WaitingPlaces' = WaitingPlaces
  BY DEF WaitingPlaces, Pulling
<1>2. Heard \subseteq Heard'
  BY DEF Heard
<1>3. TakenOnce' /\ TakenHeard'
  BY <1>2 DEF OnceInv, TakenOnce, TakenHeard, IsInjective
<1>4. WaitingOnce'
  BY <1>1, <1>2 DEF OnceInv, WaitingOnce, IdAt
<1>5. \A id : Fresh(id) => Fresh(id)'
  BY <1>1 DEF Fresh, IdAt
<1> QED BY <1>2, <1>3, <1>4, <1>5

(* The ids that were heard are those of other documents.                   *)
LEMMA UnheardIsFresh ==
    ASSUME OnceInv, DistinctIds, NEW k \in DOMAIN Docs \ sent
    PROVE  Fresh(Parsed[script][k].id)
<1>1. Parsed[script][k].id \notin Heard
  BY DEF OnceInv, TypeInv, MailType, DistinctIds, Heard, Docs
<1> QED BY <1>1 DEF OnceInv, WaitingOnce, TakenHeard, Fresh

(* A step that moves messages from place to place, losing some.            *)
LEMMA OnceMoved ==
    ASSUME OnceInv, UNCHANGED <<script, taken, sent, msgr, buffer, ready>>, TypeInv',
           NEW from \in [WaitingPlaces' -> WaitingPlaces],
           \A j \in WaitingPlaces' : IdAt(j)' = IdAt(from[j]),
           \A j, l \in WaitingPlaces' : from[j] = from[l] => j = l
    PROVE  OnceInv'
<1>1. Heard' = Heard /\ TakenOnce' /\ TakenHeard'
  BY DEF Heard, OnceInv, TakenOnce, TakenHeard, IsInjective
<1>2. \A j \in WaitingPlaces' : from[j] \in WaitingPlaces
  OBVIOUS
<1>3. WaitingOnce'
  BY <1>1, <1>2 DEF OnceInv, WaitingOnce
<1>4. \A x : Fresh(x) => Fresh(x)'
  BY <1>2 DEF Fresh
<1>5. ParsedFresh' /\ MailFresh'
  BY <1>1, <1>4 DEF OnceInv, ParsedFresh, MailFresh, Pushing
<1> QED BY <1>1, <1>3, <1>5 DEF OnceInv

(* Every step keeps a message taken once.                                  *)
LEMMA OnceStep == DistinctIds /\ OnceInv /\ [Next]_vars => OnceInv'
<1> SUFFICES ASSUME DistinctIds, OnceInv, [Next]_vars PROVE OnceInv'
  OBVIOUS
<1>0. TypeInv /\ TypeInv'
  BY TypeStep DEF OnceInv
<1>1. ASSUME NEW k \in DOMAIN Docs, Arrive(k) PROVE OnceInv'
  <2>1. /\ UNCHANGED <<script, stack, pull, taken, msgr>> /\ buffer' = k
        /\ sent \subseteq sent' /\ k \in DOMAIN Docs \ sent
    BY <1>1 DEF Arrive, history
  <2>2. Fresh(Parsed[script][k].id)
    BY <2>1, UnheardIsFresh
  <2>3. MailFresh'
    BY <2>1, <2>2, OnceFrame DEF MailFresh
  <2>4. ParsedFresh'
    BY <2>1, OnceFrame DEF OnceInv, ParsedFresh, Pushing
  <2> QED BY <1>0, <2>1, <2>3, <2>4, OnceFrame DEF OnceInv
<1>2. CASE Poll
  <2>1. UNCHANGED <<script, stack, pull, taken, sent>> /\ msgr.pc = "poll" /\ ready
    BY <1>2 DEF Poll, received, history
  <2>2. buffer \in sent /\ buffer \in DOMAIN Docs /\ script \in DOMAIN Scripts
    BY <1>0, <2>1 DEF TypeInv, MailType
  <2>3. PICK m : /\ m = GetAlgoidMsg(msgr.rx, Parsed[script][buffer])
                 /\ msgr' = [pc |-> IF Known(m) /\ ForMe(m) THEN "scan" ELSE "clear",
                             rx |-> m, p |-> 0]
    BY <1>2 DEF Poll
  <2>4. m.id = Parsed[script][buffer].id
    BY <2>2, <2>3, HeaderKept
  <2>5. m.id \in Heard /\ Fresh(m.id)
    BY <2>1, <2>2, <2>4 DEF OnceInv, MailFresh, Heard
  <2>6. msgr'.rx = m /\ msgr'.pc # "poll"
    BY <2>3
  <2>7. ParsedFresh' /\ MailFresh'
    BY <2>1, <2>5, <2>6, OnceFrame DEF ParsedFresh, MailFresh
  <2> QED BY <1>0, <2>1, <2>7, OnceFrame DEF OnceInv
<1>3. CASE ScanPast \/ ScanStop \/ Full \/ Clear
  <2>1. UNCHANGED <<script, stack, pull, taken, sent, buffer>>
    BY <1>3 DEF ScanPast, ScanStop, Full, Clear, received, history
  <2>2. msgr'.rx = msgr.rx /\ (Pushing' => Pushing) /\ (msgr'.pc = "poll" => ~ready')
    BY <1>0, <1>3 DEF ScanPast, ScanStop, Full, Clear, TypeInv, MsgrType, IsMsgr, Pushing, received
  <2>3. ParsedFresh' /\ MailFresh'
    BY <2>1, <2>2, OnceFrame DEF OnceInv, ParsedFresh, MailFresh
  <2> QED BY <1>0, <2>1, <2>3, OnceFrame DEF OnceInv
<1>4. CASE Store
  <2>1. /\ UNCHANGED <<script, pull, taken, sent>> /\ ~Pushing' /\ msgr'.pc # "poll"
        /\ stack' = [stack EXCEPT ![msgr.p] = Place(msgr.rx)] /\ msgr.p \in Places
        /\ msgr.rx.id \in Heard /\ Fresh(msgr.rx.id)
    BY <1>0, <1>4 DEF Store, received, TypeInv, MsgrType, IsMsgr, Pushing, OnceInv, ParsedFresh
  <2>2. /\ \A j \in Places \ {msgr.p} : stack'[j] = stack[j]
        /\ stack'[msgr.p].msg.id = msgr.rx.id
    <3>1. stack'[msgr.p] = Place(msgr.rx) /\ \A j \in Places \ {msgr.p} : stack'[j] = stack[j]
      BY <1>0, <2>1 DEF TypeInv, StackType
    <3>2. Place(msgr.rx).msg = msgr.rx
      BY DEF Place
    <3> QED BY <3>1, <3>2
  <2>3. WaitingPlaces' \subseteq WaitingPlaces \cup {msgr.p}
    BY <2>1, <2>2 DEF WaitingPlaces, Pulling
  <2>4. Heard' = Heard /\ TakenOnce' /\ TakenHeard'
    BY <2>1 DEF OnceInv, Heard, TakenOnce, TakenHeard, IsInjective
  <2>5. \A j \in WaitingPlaces' :
          \/ j = msgr.p /\ IdAt(j)' = msgr.rx.id
          \/ j # msgr.p /\ j \in WaitingPlaces /\ IdAt(j)' = IdAt(j)
    <3>1. \A j \in WaitingPlaces' : j \in Places
      BY <2>3 DEF WaitingPlaces
    <3> QED BY <2>1, <2>2, <2>3, <3>1 DEF IdAt
  <2>6. WaitingOnce'
    BY <2>1, <2>2, <2>4, <2>5 DEF OnceInv, WaitingOnce, Fresh
  <2> QED BY <1>0, <2>1, <2>4, <2>6 DEF OnceInv, ParsedFresh, MailFresh
<1>5. CASE Pull
  <2> DEFINE id == IdAt(0)
  <2>1. /\ UNCHANGED <<script, stack, sent, msgr, buffer, ready>> /\ ~Pulling /\ stack[0].typed
        /\ taken' = Append(taken, id) /\ Pulling' /\ pull'.i = 0
    BY <1>5 DEF Pull, received, Pulling, IdAt
  <2>2. 0 \in WaitingPlaces /\ WaitingPlaces' = WaitingPlaces \ {0}
    BY <2>1, NStackAssumption DEF WaitingPlaces, Pulling, Places
  <2>3. /\ Len(taken) \in Nat /\ DOMAIN taken = 1 .. Len(taken)
        /\ DOMAIN taken' = 1 .. Len(taken) + 1
        /\ taken'[Len(taken) + 1] = id
        /\ \A t \in DOMAIN taken : taken'[t] = taken[t]
    BY <1>0, <2>1 DEF TypeInv
  <2>4. \A t \in DOMAIN taken' : t \in DOMAIN taken \/ t = Len(taken) + 1
    BY <2>3
  <2>5. id \in Heard /\ \A t \in DOMAIN taken : taken[t] # id
    BY <2>2 DEF OnceInv, WaitingOnce
  <2>6. Heard' = Heard /\ \A j : IdAt(j)' = IdAt(j)
    BY <2>1 DEF Heard, IdAt
  <2>7. TakenOnce' /\ TakenHeard'
    BY <2>3, <2>4, <2>5, <2>6 DEF OnceInv, TakenOnce, TakenHeard, IsInjective
  <2>8. \A j \in WaitingPlaces' : j \in WaitingPlaces /\ IdAt(j) # id
    BY <2>2 DEF OnceInv, WaitingOnce
  <2>9. WaitingOnce'
    BY <2>3, <2>4, <2>6, <2>8 DEF OnceInv, WaitingOnce
  <2>10. \A x : Fresh(x) => Fresh(x)'
    <3> SUFFICES ASSUME NEW x, Fresh(x) PROVE Fresh(x)'
      OBVIOUS
    <3>1. x # id
      BY <2>2 DEF Fresh
    <3> QED BY <2>3, <2>4, <2>6, <2>8, <3>1 DEF Fresh
  <2>11. ParsedFresh' /\ MailFresh'
    BY <2>1, <2>6, <2>10 DEF OnceInv, ParsedFresh, MailFresh, Pushing
  <2> QED BY <1>0, <2>7, <2>9, <2>11 DEF OnceInv
<1>6. CASE Shift \/ WipeId \/ WipeType \/ \E entries \in Scripts[script].answers : Answer(entries)
  <2>1. UNCHANGED <<script, taken, sent, msgr, buffer, ready>>
    BY <1>6 DEF Shift, WipeId, WipeType, Answer, received, history
  <2> DEFINE from == [j \in WaitingPlaces' |-> IF Shift /\ j = pull.i THEN j + 1 ELSE j]
  <2>2. CASE Shift
    <3>1. /\ pull.i \in Places /\ pull.i + 1 \in Places /\ Pulling
          /\ stack' = [stack EXCEPT ![pull.i] = stack[pull.i + 1]]
          /\ pull'.i = pull.i + 1 /\ Pulling'
      BY <1>0, <2>2 DEF Shift, TypeInv, PullType, IsPull, Places, Pulling
    <3>2. /\ stack'[pull.i] = stack[pull.i + 1]
          /\ \A j \in Places \ {pull.i} : stack'[j] = stack[j]
      BY <1>0, <3>1 DEF TypeInv, StackType
    <3>3. \A j \in WaitingPlaces' : j \in Places /\ j # pull.i + 1 /\ stack'[j].typed
      BY <3>1 DEF WaitingPlaces
    <3>4. \A j \in WaitingPlaces' :
            LET l == IF j = pull.i THEN j + 1 ELSE j
            IN  l \in WaitingPlaces /\ IdAt(j)' = IdAt(l)
      BY <3>1, <3>2, <3>3 DEF WaitingPlaces, IdAt, Places
    <3>5. \A j, l \in WaitingPlaces' : from[j] = from[l] => j = l
      BY <2>2, <3>3 DEF Places
    <3> QED BY <1>0, <2>1, <2>2, <3>4, <3>5, OnceMoved
  <2>3. ASSUME ~Shift PROVE OnceInv'
    <3>1. \A j \in WaitingPlaces' : j \in WaitingPlaces /\ IdAt(j)' = IdAt(j)
      <4>1. CASE WipeId
        <5>1. /\ pull.i = NSTACK - 1 /\ Pulling /\ Pulling' /\ pull'.i = pull.i
              /\ \A j \in Places \ {NSTACK - 1} : stack'[j] = stack[j]
          BY <1>0, <4>1 DEF WipeId, TypeInv, PullType, IsPull, StackType, Pulling
        <5> QED BY <5>1 DEF WaitingPlaces, IdAt
      <4>2. CASE WipeType
        <5>1. /\ pull.i = NSTACK - 1
              /\ \A j \in Places \ {NSTACK - 1} : stack'[j] = stack[j]
          BY <1>0, <4>2 DEF WipeType, TypeInv, PullType, StackType
        <5>2. NSTACK - 1 \in Places /\ stack' = [stack EXCEPT ![NSTACK - 1].typed = FALSE]
          BY <4>2, NStackAssumption DEF WipeType, Places
        <5>3. stack'[NSTACK - 1].typed = FALSE
          BY <1>0, <5>2 DEF TypeInv, StackType, IsPlace
        <5> QED BY <5>1, <5>3 DEF WaitingPlaces, IdAt
      <4>3. ASSUME NEW entries \in Scripts[script].answers, Answer(entries)
            PROVE  WaitingPlaces' = WaitingPlaces /\ \A j : IdAt(j)' = IdAt(j)
        BY <4>3 DEF Answer, WaitingPlaces, Pulling, IdAt, IdlePull
      <4> QED BY <1>6, <2>3, <4>1, <4>2, <4>3
    <3>2. \A j \in WaitingPlaces' : from[j] = j
      BY <2>3
    <3>3. from \in [WaitingPlaces' -> WaitingPlaces]
      BY <3>1, <3>2
    <3> HIDE DEF from
    <3>4. /\ \A j \in WaitingPlaces' : IdAt(j)' = IdAt(from[j])
          /\ \A j, l \in WaitingPlaces' : from[j] = from[l] => j = l
      BY <3>1, <3>2
    <3> QED BY <1>0, <2>1, <3>3, <3>4, OnceMoved
  <2> QED BY <2>2, <2>3
<1>7. CASE UNCHANGED vars
  <2>1. UNCHANGED <<script, stack, pull, taken, sent, msgr, buffer, ready>>
    BY <1>7 DEF vars
  <2>2. ParsedFresh' /\ MailFresh'
    BY <2>1, OnceFrame DEF OnceInv, ParsedFresh, MailFresh, Pushing
  <2> QED BY <1>0, <2>1, <2>2, OnceFrame DEF OnceInv
<1> QED BY <1>1, <1>2, <1>3, <1>4, <1>5, <1>6, <1>7 DEF Next, MessagerStep, PullStep

(* For any number of places, any messages with different ids, and however  *)
(* push and pull interleave (messagesManager.c has no lock), pullMsgStack  *)
(* gives no message to the main loop twice.                                *)
THEOREM TakenOnceAlways ==
    ASSUME DistinctIds
    PROVE  Spec => []TakenOnce
<1>1. OnceInv /\ [Next]_vars => OnceInv'
  BY OnceStep
<1>2. OnceInv => TakenOnce
  BY DEF OnceInv
<1> QED BY OnceInit, <1>1, <1>2, PTL DEF Spec

------------------------------------------------------------------------------
(* The shape of the stack.                                                 *)

(* At the start the stack is empty and nothing is on its way.              *)
LEMMA QueueInit == Init => QueueInv
<1> SUFFICES ASSUME Init PROVE QueueInv
  OBVIOUS
<1>1. TypeInv /\ ~Pulling /\ ~Pushing /\ pull.pc # "wipe" /\ msgr.pc # "store"
  BY TypeInit DEF Init, Pulling, Pushing, IdlePull
<1>2. \A j \in Places : stack[j].id < 0 /\ ~stack[j].typed
  BY DEF Init, FreePlace
<1>3. Filled(0)
  <2>1. \A j \in Places : ~(stack[j].id >= 0) /\ ~stack[j].typed
    BY <1>1, <1>2 DEF TypeInv, StackType
  <2>2. \A j \in Places : ~Occupied(j, 0)
    BY <1>1 DEF Occupied, Places
  <2> QED BY <2>1, <2>2 DEF Filled
<1>4. HasShape
  BY <1>1, <1>3, NStackAssumption DEF HasShape
<1> QED BY <1>1, <1>4 DEF QueueInv, Apart, Scanned, Wiped

(* What a shift of the stack does to its shape.                            *)
LEMMA ShapePull ==
    ASSUME TypeInv, Pull, NEW n \in 0 .. NSTACK, Filled(n)
    PROVE  n > 0 /\ Filled(n - 1)'
<1> USE NStackAssumption
<1>1. /\ UNCHANGED stack /\ ~Pulling /\ Pulling' /\ pull'.i = 0 /\ stack[0].typed /\ 0 \in Places
  BY DEF Pull, Pulling, Places
<1>2. n > 0
  BY <1>1 DEF Filled, Occupied
<1>3. \A j \in Places \ {0} : Occupied(j, n - 1)' <=> Occupied(j, n)
  BY <1>1, <1>2 DEF Occupied, Places
<1> QED BY <1>1, <1>2, <1>3 DEF Filled

(* Shifting a place down keeps the stack filled, with the hole one further.*)
LEMMA ShapeShift ==
    ASSUME TypeInv, Shift, NEW n \in 0 .. NSTACK, Filled(n)
    PROVE  Filled(n)'
<1> USE NStackAssumption
<1>0. PICK i \in Places : i = pull.i
  BY DEF TypeInv, PullType
<1>1. /\ i + 1 \in Places /\ i \in Int /\ Pulling
      /\ stack' = [stack EXCEPT ![i] = stack[i + 1]]
      /\ pull'.i = i + 1 /\ Pulling'
  BY <1>0 DEF Shift, TypeInv, PullType, IsPull, Places, Pulling
<1>2. /\ stack'[i] = stack[i + 1]
      /\ \A j \in Places \ {i} : stack'[j] = stack[j]
  BY <1>1 DEF TypeInv, StackType
<1>3. /\ \A j \in Int : Occupied(j, n)' <=> (j < n \/ (j = n /\ i + 1 < j))
      /\ \A j \in Int : Occupied(j, n) <=> (j < n \/ (j = n /\ i < j))
  BY <1>0, <1>1 DEF Occupied
<1> SUFFICES ASSUME NEW j \in Places, j # i + 1
             PROVE  (stack'[j].typed <=> Occupied(j, n)') /\ (stack'[j].id >= 0 <=> Occupied(j, n)')
  BY <1>1 DEF Filled
<1>4. CASE j = i
  <2>1. /\ stack[i + 1].typed <=> Occupied(i + 1, n)
        /\ stack[i + 1].id >= 0 <=> Occupied(i + 1, n)
    BY <1>0, <1>1 DEF Filled
  <2>2. Occupied(i, n)' <=> Occupied(i + 1, n)
    BY <1>1, <1>3
  <2> QED BY <1>2, <1>4, <2>1, <2>2
<1>5. CASE j # i
  <2>1. Occupied(j, n)' <=> Occupied(j, n)
    BY <1>1, <1>3, <1>5 DEF Places
  <2> QED BY <1>0, <1>2, <1>5, <2>1 DEF Filled
<1> QED BY <1>4, <1>5

(* Wiping the last place ends the shift with one message fewer.            *)
LEMMA ShapeWipe ==
    ASSUME TypeInv, WipeId \/ WipeType, Wiped, NEW n \in 0 .. NSTACK - 1, Filled(n)
    PROVE  Filled(n)' /\ Wiped'
<1> USE NStackAssumption
<1>1. NSTACK - 1 \in Places /\ pull.i = NSTACK - 1 /\ Pulling
  BY DEF WipeId, WipeType, TypeInv, PullType, Places, Pulling
<1>2. \A j \in Places \ {NSTACK - 1} : stack'[j] = stack[j] /\ (Occupied(j, n)' <=> Occupied(j, n))
  <2>1. \A j \in Places \ {NSTACK - 1} : stack'[j] = stack[j]
    BY DEF WipeId, WipeType, TypeInv, StackType
  <2>2. \A j \in Places \ {NSTACK - 1} : j < NSTACK - 1 /\ j \in Int
    BY DEF Places
  <2>3. Pulling' => pull'.i = NSTACK - 1
    BY <1>1 DEF WipeId, WipeType, TypeInv, PullType, IsPull, Pulling, Pulled, IdlePull
  <2>4. \A j \in Places \ {NSTACK - 1} : (Occupied(j, n) <=> j < n) /\ (Occupied(j, n)' <=> j < n)
    BY <1>1, <2>2, <2>3 DEF Occupied
  <2> QED BY <2>1, <2>4
<1>3. CASE WipeId
  <2>1. stack'[NSTACK - 1].id = -1
    BY <1>1, <1>3 DEF WipeId, TypeInv, StackType, IsPlace
  <2>2. Pulling' /\ pull'.i = pull.i
    BY <1>3 DEF WipeId, TypeInv, PullType, IsPull, Pulling
  <2> QED BY <1>1, <1>2, <2>1, <2>2 DEF Filled, Wiped
<1>4. CASE WipeType
  <2>1. stack[NSTACK - 1].id < 0
    BY <1>4 DEF Wiped, WipeType
  <2>2. stack'[NSTACK - 1].typed = FALSE /\ stack'[NSTACK - 1].id = stack[NSTACK - 1].id
    BY <1>1, <1>4 DEF WipeType, TypeInv, StackType, IsPlace
  <2>3. ~Pulling' /\ pull'.pc # "wipe"
    BY <1>4 DEF WipeType, Pulled, IdlePull, Pulling
  <2>4. ~Occupied(NSTACK - 1, n)'
    BY <2>3 DEF Occupied
  <2> SUFFICES ASSUME NEW j \in Places
               PROVE  (stack'[j].typed <=> Occupied(j, n)') /\ (stack'[j].id >= 0 <=> Occupied(j, n)')
    BY <2>3 DEF Filled, Wiped
  <2>5. CASE j = NSTACK - 1
    BY <2>1, <2>2, <2>4, <2>5 DEF TypeInv, StackType
  <2>6. CASE j # NSTACK - 1
    BY <1>1, <1>2, <2>6 DEF Filled
  <2> QED BY <2>5, <2>6
<1> QED BY <1>3, <1>4

(* The push finds the first free place.                                    *)
LEMMA ShapeStore ==
    ASSUME TypeInv, Store, Apart, Scanned, NEW n \in 0 .. NSTACK, Filled(n)
    PROVE  n = msgr.p /\ n < NSTACK /\ Filled(n + 1)'
<1> USE NStackAssumption
<1>1. ~Pulling /\ msgr.p \in Places /\ msgr.rx.id >= 0 /\ msgr.rx.id \in Int
  BY IdsAssumption DEF Store, Apart, Scanned, Pushing, TypeInv, MsgrType
<1>2. \A j \in Places : (stack[j].id >= 0 <=> j < n) /\ (stack[j].typed <=> j < n)
  BY <1>1 DEF Filled, Occupied
<1>3. stack[msgr.p].id < 0 /\ \A j \in 0 .. msgr.p - 1 : stack[j].id >= 0
  BY DEF Scanned, Store, Pushing
<1>4. n = msgr.p
  <2>1. ~(msgr.p < n)
    BY <1>1, <1>2, <1>3 DEF TypeInv, StackType
  <2>2. ~(n < msgr.p)
    <3> SUFFICES ASSUME n < msgr.p PROVE FALSE
      OBVIOUS
    <3>1. n \in Places /\ n \in 0 .. msgr.p - 1
      BY <1>1 DEF Places
    <3> QED BY <1>2, <1>3, <3>1
  <2> QED BY <1>1, <2>1, <2>2 DEF Places
<1>5. /\ ~Pulling'
      /\ stack' = [stack EXCEPT ![msgr.p] = Place(msgr.rx)]
  BY <1>1 DEF Store, Pulling
<1>6. /\ stack'[msgr.p].typed = TRUE /\ stack'[msgr.p].id = msgr.rx.id
      /\ \A j \in Places \ {msgr.p} : stack'[j] = stack[j]
  BY <1>1, <1>5 DEF TypeInv, StackType, Place
<1>7. \A j \in Places : (stack'[j].id >= 0 <=> j < n + 1) /\ (stack'[j].typed <=> j < n + 1)
  BY <1>1, <1>2, <1>4, <1>6 DEF Places
<1> QED BY <1>1, <1>4, <1>5, <1>7 DEF Filled, Occupied, Places

(* Where nothing is moved the shape stays.                                 *)
LEMMA ShapeFrame ==
    ASSUME HasShape, UNCHANGED stack, Pulling' <=> Pulling, pull'.i = pull.i \/ ~Pulling
    PROVE  HasShape'
<1>1. PICK n \in 0 .. IF Pulling THEN NSTACK - 1 ELSE NSTACK : Filled(n)
  BY DEF HasShape
<1>2. Filled(n)'
  BY <1>1 DEF Filled, Occupied
<1> QED BY <1>1, <1>2 DEF HasShape

(* Every step keeps the shape while push and pull take turns.              *)
LEMMA QueueStep == NamedInTurns /\ QueueInv /\ [Next]_vars => QueueInv'
<1> SUFFICES ASSUME NamedInTurns, QueueInv, [Next]_vars PROVE QueueInv'
  OBVIOUS
<1>0. TypeInv /\ TypeInv' /\ script' = script
  BY TypeStep
     DEF QueueInv, Next, MessagerStep, PullStep, vars, received, Arrive, Poll, ScanPast, ScanStop, Full,
         Store, Clear, Pull, Shift, WipeId, WipeType, Answer
<1> SUFFICES ASSUME Locked PROVE Apart' /\ Scanned' /\ Wiped' /\ HasShape'
  BY <1>0 DEF QueueInv, Locked
<1> USE NStackAssumption
<1>a. Apart /\ Scanned /\ Wiped /\ HasShape
  BY DEF QueueInv
<1>1. ASSUME UNCHANGED <<stack, pull>>, ~Pushing' \/ UNCHANGED <<msgr>>
      PROVE  Apart' /\ Scanned' /\ Wiped' /\ HasShape'
  BY <1>a, <1>1, ShapeFrame DEF Apart, Scanned, Wiped, Pushing, Pulling
<1>2. ASSUME NEW k \in DOMAIN Docs, Arrive(k) PROVE UNCHANGED <<stack, pull, msgr>>
  BY <1>2 DEF Arrive
<1>3. CASE Poll
  <2>1. UNCHANGED <<stack, pull>> /\ buffer \in DOMAIN Docs /\ script \in DOMAIN Scripts
    BY <1>0, <1>3 DEF Poll, TypeInv, MailType
  <2>2. PICK m : /\ m = GetAlgoidMsg(msgr.rx, Parsed[script][buffer])
                 /\ Known(m) /\ ForMe(m) => ~Pulling
                 /\ msgr' = [pc |-> IF Known(m) /\ ForMe(m) THEN "scan" ELSE "clear",
                             rx |-> m, p |-> 0]
    BY <1>3 DEF Poll
  <2>3. CASE Known(m) /\ ForMe(m)
    <3>1. m.id >= 0
      BY <2>1, <2>2, <2>3, HeaderKept DEF NamedInTurns, Locked, Docs
    <3>2. msgr'.pc = "scan" /\ msgr'.rx = m /\ msgr'.p = 0 /\ ~Pulling /\ ~Pulling'
      BY <2>1, <2>2, <2>3 DEF Pulling
    <3> QED BY <1>a, <2>1, <3>1, <3>2, ShapeFrame DEF Apart, Scanned, Wiped, Pulling
  <2>4. CASE ~(Known(m) /\ ForMe(m))
    <3>1. msgr'.pc = "clear"
      BY <2>2, <2>4
    <3> QED BY <1>1, <2>1, <3>1 DEF Pushing
  <2> QED BY <2>3, <2>4
<1>4. CASE ScanPast \/ ScanStop
  <2>1. /\ UNCHANGED <<stack, pull>> /\ Pushing /\ ~Pulling /\ ~Pulling' /\ msgr'.rx = msgr.rx
        /\ \/ msgr'.pc = "scan" /\ msgr'.p = msgr.p + 1 /\ stack[msgr.p].id >= 0
           \/ msgr'.pc = "store" /\ msgr'.p = msgr.p /\ stack[msgr.p].id < 0
        /\ msgr.p \in Nat
    BY <1>0, <1>4, <1>a
       DEF ScanPast, ScanStop, TypeInv, MsgrType, IsMsgr, Pushing, Pulling, Apart
  <2>2. Scanned'
    <3>1. \A j \in 0 .. msgr.p - 1 : stack[j].id >= 0
      BY <1>a, <2>1 DEF Scanned
    <3>2. \A j \in 0 .. msgr'.p - 1 : stack'[j].id >= 0
      BY <2>1, <3>1
    <3> QED BY <1>a, <2>1, <3>2 DEF Scanned
  <2> QED BY <1>a, <2>1, <2>2, ShapeFrame DEF Apart, Wiped
<1>5. CASE Full \/ Clear
  <2>1. UNCHANGED <<stack, pull>> /\ msgr'.pc \in {"clear", "poll"}
    BY <1>0, <1>5 DEF Full, Clear, TypeInv, MsgrType, IsMsgr
  <2> QED BY <1>1, <2>1 DEF Pushing
<1>6. CASE Store
  <2>1. ~Pulling /\ UNCHANGED pull /\ ~Pushing' /\ msgr'.pc = "clear"
    BY <1>0, <1>6, <1>a DEF Store, TypeInv, MsgrType, IsMsgr, Pushing, Apart
  <2>2. PICK n \in 0 .. NSTACK : Filled(n)
    BY <1>a, <2>1 DEF HasShape
  <2>3. n + 1 \in 0 .. NSTACK /\ Filled(n + 1)'
    BY <1>0, <1>6, <1>a, <2>2, ShapeStore
  <2>4. HasShape'
    BY <2>1, <2>3 DEF HasShape, Pulling
  <2> QED BY <2>1, <2>4 DEF Apart, Scanned, Wiped, Pulling
<1>7. CASE Pull
  <2>1. UNCHANGED msgr /\ ~Pushing /\ ~Pushing' /\ ~Pulling /\ Pulling' /\ pull'.pc = "shift"
    BY <1>7 DEF Pull, Pushing, Pulling
  <2>2. PICK n \in 0 .. NSTACK : Filled(n)
    BY <1>a, <2>1 DEF HasShape
  <2>3. n - 1 \in 0 .. NSTACK - 1 /\ Filled(n - 1)'
    BY <1>0, <1>7, <2>2, ShapePull
  <2>4. HasShape'
    BY <2>1, <2>3 DEF HasShape
  <2>5. msgr.pc # "store"
    BY <2>1 DEF Pushing
  <2> QED BY <2>1, <2>4, <2>5 DEF Apart, Scanned, Wiped
<1>8. CASE Shift \/ WipeId \/ WipeType
  <2>1. UNCHANGED msgr /\ Pulling /\ ~Pushing /\ ~Pushing' /\ msgr.pc # "store"
    BY <1>8, <1>a DEF Shift, WipeId, WipeType, Apart, Pushing, Pulling
  <2>2. PICK n \in 0 .. NSTACK - 1 : Filled(n)
    BY <1>a, <2>1 DEF HasShape
  <2>3. Filled(n)' /\ Wiped'
    <3>1. CASE Shift
      <4>1. Filled(n)'
        BY <1>0, <3>1, <2>2, ShapeShift
      <4>2. pull'.pc = "shift"
        BY <1>0, <3>1 DEF Shift, TypeInv, PullType, IsPull
      <4> QED BY <4>1, <4>2 DEF Wiped
    <3>2. CASE WipeId \/ WipeType
      BY <1>0, <1>a, <3>2, <2>2, ShapeWipe
    <3> QED BY <1>8, <3>1, <3>2
  <2>4. HasShape'
    BY <2>2, <2>3 DEF HasShape
  <2> QED BY <2>1, <2>3, <2>4 DEF Apart, Scanned
<1>9. ASSUME NEW entries \in Scripts[script].answers, Answer(entries)
      PROVE  Apart' /\ Scanned' /\ Wiped' /\ HasShape'
  <2>1. UNCHANGED <<stack, msgr>> /\ ~Pulling /\ ~Pulling' /\ pull'.pc = "check"
    BY <1>9 DEF Answer, Pulling, IdlePull
  <2> QED BY <1>a, <2>1, ShapeFrame DEF Apart, Scanned, Wiped, Pushing
<1>10. CASE UNCHANGED vars
  BY <1>1, <1>10 DEF vars
<1> QED BY <1>1, <1>2, <1>3, <1>4, <1>5, <1>6, <1>7, <1>8, <1>9, <1>10 DEF Next, MessagerStep, PullStep

------------------------------------------------------------------------------
(* The stack implements the queue.                                         *)

(* A stack of that shape holds n messages.                                 *)
LEMMA CountWaiting ==
    ASSUME TypeInv, NEW n \in 0 .. IF Pulling THEN NSTACK - 1 ELSE NSTACK, Filled(n)
    PROVE  Cardinality(WaitingPlaces) = n
<1> USE NStackAssumption
<1>1. pull.i \in Int /\ pull.i >= 0 /\ n \in Int /\ n >= 0 /\ Places \subseteq Int
  BY DEF TypeInv, PullType, Places
<1>2. \A j \in Places : j \in WaitingPlaces <=> ~(Pulling /\ j = pull.i) /\ Occupied(j, n)
  BY DEF WaitingPlaces, Filled
<1>3. CASE Pulling /\ pull.i <= n
  <2>1. WaitingPlaces = (0 .. n) \ {pull.i}
    <3>1. 0 .. n \subseteq Places
      BY <1>1, <1>3 DEF Places
    <3>2. \A j \in Places : Occupied(j, n) /\ j # pull.i <=> j \in (0 .. n) \ {pull.i}
      BY <1>1, <1>3 DEF Occupied, Places
    <3> QED BY <1>2, <1>3, <3>1, <3>2 DEF WaitingPlaces
  <2>2. IsFiniteSet(0 .. n) /\ Cardinality(0 .. n) = n + 1
    BY <1>1, FS_Interval
  <2>3. pull.i \in 0 .. n
    BY <1>1, <1>3
  <2>4. Cardinality((0 .. n) \ {pull.i}) = Cardinality(0 .. n) - 1
    BY <2>2, <2>3, FS_RemoveElement
  <2> QED BY <1>1, <2>1, <2>2, <2>4
<1>4. CASE ~(Pulling /\ pull.i <= n)
  <2>1. WaitingPlaces = 0 .. n - 1
    <3>1. 0 .. n - 1 \subseteq Places
      BY <1>1 DEF Places
    <3>2. \A j \in Places : ~(Pulling /\ j = pull.i) /\ Occupied(j, n) <=> j \in 0 .. n - 1
      BY <1>1, <1>4 DEF Occupied, Places
    <3> QED BY <1>2, <3>1, <3>2 DEF WaitingPlaces
  <2> QED BY <1>1, <2>1, FS_Interval
<1> QED BY <1>3, <1>4

(* The place of the k-th message that waits.                               *)
PlaceOf(k) == IF Pulling /\ pull.i < k THEN k ELSE k - 1

WaitingAt(n) ==
    /\ Waiting = [k \in 1 .. n |-> IdAt(PlaceOf(k))]
    /\ Waiting \in Seq(Ids)
WaitingShape ==
    TypeInv =>
        \A n \in 0 .. IF Pulling THEN NSTACK - 1 ELSE NSTACK : Filled(n) => WaitingAt(n)

(* A filled stack shows the queue the ids of its places, in order.         *)
LEMMA WaitingIs == WaitingShape
<1> SUFFICES ASSUME TypeInv, NEW n \in 0 .. IF Pulling THEN NSTACK - 1 ELSE NSTACK, Filled(n)
             PROVE  WaitingAt(n)
  BY DEF WaitingShape
<1> USE NStackAssumption
<1>1. Waiting = [k \in 1 .. n |-> IdAt(PlaceOf(k))]
  BY CountWaiting DEF Waiting, IdAt, PlaceOf
<1>2. ASSUME NEW k \in 1 .. n PROVE IdAt(PlaceOf(k)) \in Ids
  <2> DEFINE j == PlaceOf(k)
  <2>1. j \in Places /\ ~(Pulling /\ j = pull.i) /\ Occupied(j, n)
    BY DEF PlaceOf, Places, Occupied, TypeInv, PullType
  <2> QED BY <2>1 DEF Filled, TypeInv, StackType, IdAt
<1> QED BY <1>1, <1>2 DEF WaitingAt

(* ... in the next state as well.                                          *)
LEMMA WaitingIsNext == WaitingShape'
BY WaitingIs, PTL

(* The stack starts as an empty queue.                                     *)
LEMMA QueueStarts == Init => Queue!Init
<1> SUFFICES ASSUME Init PROVE Waiting = <<>>
  BY DEF Init, Queue!Init
<1>1. WaitingPlaces = {}
  BY DEF Init, WaitingPlaces, FreePlace
<1>2. Cardinality(WaitingPlaces) = 0
  BY <1>1, FS_EmptySet
<1> QED BY <1>2 DEF Waiting

(* A message that is stored enters the queue, one that is pulled is taken, *)
(* and no other step changes what waits.                                   *)
LEMMA StoreEnters ==
    ASSUME QueueInv, QueueInv', Locked, Store
    PROVE  Queue!Enter(msgr.rx.id) /\ msgr.rx.id \in Ids
<1> USE NStackAssumption
<1>1. /\ TypeInv /\ TypeInv' /\ Locked' /\ Apart /\ Scanned
      /\ msgr.rx.id \in Ids /\ msgr.p \in Places
  BY DEF QueueInv, Store, received, Locked, TypeInv, MsgrType, Pushing
<1>2. ~Pulling /\ ~Pulling' /\ UNCHANGED <<pull, taken>>
  BY <1>1 DEF Store, Apart, Pushing, Pulling
<1>3. PICK n \in 0 .. NSTACK : Filled(n)
  BY <1>1, <1>2 DEF QueueInv, HasShape
<1>4. n = msgr.p /\ n < NSTACK /\ Filled(n + 1)'
  BY <1>1, <1>3, ShapeStore
<1>5. Waiting = [k \in 1 .. n |-> IdAt(k - 1)] /\ Waiting \in Seq(Ids)
  <2>1. \A k \in 1 .. n : PlaceOf(k) = k - 1
    BY <1>2 DEF PlaceOf
  <2> QED BY <1>1, <1>2, <1>3, <2>1, WaitingIs DEF WaitingShape, WaitingAt
<1>6. Waiting' = [k \in 1 .. n + 1 |-> IdAt(k - 1)']
  <2>1. \A k \in 1 .. n + 1 : PlaceOf(k)' = k - 1
    BY <1>2 DEF PlaceOf
  <2>2. Waiting' = [k \in 1 .. n + 1 |-> IdAt(PlaceOf(k))']
    BY <1>1, <1>2, <1>4, WaitingIsNext DEF WaitingShape, WaitingAt
  <2>3. \A k \in 1 .. n + 1 : IdAt(PlaceOf(k))' = IdAt(k - 1)'
    BY <2>1 DEF IdAt
  <2> QED BY <2>2, <2>3
<1>7. \A k \in 1 .. n + 1 : IdAt(k - 1)' = IF k <= n THEN IdAt(k - 1) ELSE msgr.rx.id
  <2>1. /\ stack'[msgr.p] = Place(msgr.rx)
        /\ \A j \in Places \ {msgr.p} : stack'[j] = stack[j]
    BY <1>1 DEF Store, TypeInv, StackType
  <2>2. stack'[msgr.p].msg.id = msgr.rx.id
    BY <2>1 DEF Place
  <2>3. \A k \in 1 .. n + 1 : k - 1 \in Places /\ (k - 1 = msgr.p <=> ~(k <= n))
    BY <1>1, <1>4 DEF Places
  <2> QED BY <2>1, <2>2, <2>3 DEF IdAt
<1>8. Waiting' = Append(Waiting, msgr.rx.id)
  BY <1>3, <1>5, <1>6, <1>7
<1>9. Len(Waiting) < NSTACK
  BY <1>4, <1>5
<1> QED BY <1>1, <1>2, <1>8, <1>9 DEF Queue!Enter

(* A pull takes the head of the queue.                                     *)
LEMMA PullTakes ==
    ASSUME QueueInv, QueueInv', Locked, Pull
    PROVE  Queue!Take
<1> USE NStackAssumption
<1>1. TypeInv /\ TypeInv' /\ Locked'
  BY DEF QueueInv, Pull, received, Locked
<1>2. PICK n \in 0 .. NSTACK : Filled(n)
  BY DEF QueueInv, HasShape, Pull, Pulling
<1>3. n > 0 /\ Filled(n - 1)'
  BY <1>1, <1>2, ShapePull
<1>4. /\ UNCHANGED stack /\ ~Pulling /\ Pulling' /\ pull'.i = 0
      /\ taken' = Append(taken, IdAt(0))
  BY DEF Pull, Pulling, IdAt
<1>5. Waiting = [k \in 1 .. n |-> IdAt(k - 1)] /\ Waiting \in Seq(Ids)
  <2>1. \A k \in 1 .. n : PlaceOf(k) = k - 1
    BY <1>4 DEF PlaceOf
  <2> QED BY <1>1, <1>2, <1>4, <2>1, WaitingIs DEF WaitingShape, WaitingAt
<1>6. Waiting' = [k \in 1 .. n - 1 |-> IdAt(k)']
  <2>1. \A k \in 1 .. n - 1 : PlaceOf(k)' = k
    BY <1>4 DEF PlaceOf
  <2>2. Waiting' = [k \in 1 .. n - 1 |-> IdAt(PlaceOf(k))']
    BY <1>1, <1>3, <1>4, WaitingIsNext DEF WaitingShape, WaitingAt
  <2>3. \A k \in 1 .. n - 1 : IdAt(PlaceOf(k))' = IdAt(k)'
    BY <2>1 DEF IdAt
  <2> QED BY <2>2, <2>3
<1>7. Waiting # <<>> /\ Head(Waiting) = IdAt(0)
  BY <1>3, <1>5
<1>8. Waiting' = Tail(Waiting)
  BY <1>3, <1>4, <1>5, <1>6 DEF IdAt
<1> QED BY <1>1, <1>4, <1>7, <1>8 DEF Queue!Take

(* No other step changes what waits or what was taken.                     *)
LEMMA OthersKeep ==
    ASSUME QueueInv, QueueInv', Locked, [Next]_vars, ~Store, ~Pull
    PROVE  UNCHANGED <<Waiting, taken>> /\ Locked'
<1> USE NStackAssumption
<1>1. TypeInv /\ TypeInv'
  BY DEF QueueInv
<1>2. UNCHANGED <<taken, script>>
  BY DEF Next, MessagerStep, PullStep, vars, received, history, Arrive, Poll, ScanPast, ScanStop, Full,
         Clear, Shift, WipeId, WipeType, Answer
<1>3. ASSUME UNCHANGED stack, UNCHANGED pull \/ (~Pulling /\ ~Pulling')
      PROVE  UNCHANGED <<Waiting, taken>> /\ Locked'
  <2>1. WaitingPlaces' = WaitingPlaces
    BY <1>3 DEF WaitingPlaces, Pulling
  <2>2. Waiting' = Waiting
    BY <1>3, <2>1 DEF Waiting, Pulling
  <2> QED BY <1>2, <2>2 DEF Locked
<1>4. CASE Shift \/ WipeId \/ WipeType
  <2>1. Pulling
    BY <1>4 DEF Shift, WipeId, WipeType, Pulling
  <2>2. PICK n \in 0 .. NSTACK - 1 : Filled(n)
    BY <2>1 DEF QueueInv, HasShape
  <2>3. Filled(n)'
    BY <1>1, <1>4, <2>2, ShapeShift, ShapeWipe DEF QueueInv
  <2>4. PICK i \in Places : i = pull.i
    BY <1>1 DEF TypeInv, PullType
  <2>5. /\ Waiting = [k \in 1 .. n |-> IdAt(IF i < k THEN k ELSE k - 1)]
        /\ Waiting' = [k \in 1 .. n |-> IdAt(PlaceOf(k))']
    <3>1. \A k \in 1 .. n : PlaceOf(k) = IF i < k THEN k ELSE k - 1
      BY <2>1, <2>4 DEF PlaceOf
    <3>2. Waiting = [k \in 1 .. n |-> IdAt(PlaceOf(k))]
      BY <1>1, <2>1, <2>2, WaitingIs DEF WaitingShape, WaitingAt
    <3>3. Waiting' = [k \in 1 .. n |-> IdAt(PlaceOf(k))']
      BY <1>1, <2>2, <2>3, WaitingIsNext DEF WaitingShape, WaitingAt
    <3> QED BY <3>1, <3>2, <3>3
  <2>6. ASSUME NEW k \in 1 .. n PROVE IdAt(PlaceOf(k))' = IdAt(IF i < k THEN k ELSE k - 1)
    <3>1. CASE Shift
      <4>1. /\ Pulling' /\ pull'.i = i + 1 /\ i + 1 \in Places
            /\ stack' = [stack EXCEPT ![i] = stack[i + 1]]
        BY <1>1, <2>4, <3>1 DEF Shift, TypeInv, PullType, IsPull, Pulling, Places
      <4>2. /\ stack'[i] = stack[i + 1]
            /\ \A j \in Places \ {i} : stack'[j] = stack[j]
        BY <1>1, <4>1 DEF TypeInv, StackType
      <4>3. PlaceOf(k)' = IF i + 1 < k THEN k ELSE k - 1
        BY <4>1 DEF PlaceOf
      <4> QED BY <4>2, <4>3 DEF IdAt, Places
    <3>2. CASE WipeId \/ WipeType
      <4>1. i = NSTACK - 1 /\ \A j \in Places \ {NSTACK - 1} : stack'[j] = stack[j]
        BY <1>1, <2>4, <3>2 DEF WipeId, WipeType, TypeInv, PullType, StackType
      <4>2. Pulling' => pull'.i = i
        BY <1>1, <2>4, <3>2 DEF WipeId, WipeType, TypeInv, PullType, IsPull, Pulling, Pulled, IdlePull
      <4>3. PlaceOf(k)' = k - 1 /\ ~(i < k) /\ k - 1 \in Places \ {NSTACK - 1}
        BY <4>1, <4>2 DEF PlaceOf, Places
      <4> QED BY <4>1, <4>3 DEF IdAt
    <3> QED BY <1>4, <3>1, <3>2
  <2>7. Waiting' = Waiting
    BY <2>5, <2>6
  <2> QED BY <1>2, <2>7 DEF Locked
<1>5. CASE (\E k \in DOMAIN Docs : Arrive(k)) \/ Poll \/ ScanPast \/ ScanStop \/ Full \/ Clear
  <2>1. UNCHANGED <<stack, pull>>
    BY <1>5 DEF Arrive, Poll, ScanPast, ScanStop, Full, Clear
  <2> QED BY <1>3, <2>1
<1>6. ASSUME NEW entries \in Scripts[script].answers, Answer(entries)
      PROVE  UNCHANGED <<Waiting, taken>> /\ Locked'
  <2>1. UNCHANGED stack /\ ~Pulling /\ ~Pulling'
    BY <1>6 DEF Answer, Pulling, IdlePull
  <2> QED BY <1>3, <2>1
<1>7. CASE UNCHANGED vars
  <2>1. UNCHANGED <<stack, pull>>
    BY <1>7 DEF vars
  <2> QED BY <1>3, <2>1
<1> QED BY <1>4, <1>5, <1>6, <1>7 DEF Next, MessagerStep, PullStep

(* For any number of places: as long as push and pull do not overlap, and  *)
(* the messages for the stack have an id, AlgoidMsgRXStack is the bounded  *)
(* queue of MessageQueue: what was acknowledged is taken once each, in the *)
(* order in which it came, and a full stack refuses.                       *)
THEOREM StackIsQueue ==
    ASSUME NamedInTurns
    PROVE  Spec => IsQueue
<1>1. Init => QueueInv /\ Queue!Init
  BY QueueInit, QueueStarts
<1>2. QueueInv /\ [Next]_vars => QueueInv'
  BY QueueStep
<1>3. QueueInv /\ QueueInv' /\ [Next]_vars
        => [Queue!Next]_<<IF Locked THEN Waiting ELSE <<>>, IF Locked THEN taken ELSE <<>>>>
  <2> SUFFICES ASSUME QueueInv, QueueInv', [Next]_vars
               PROVE  [Queue!Next]_<<IF Locked THEN Waiting ELSE <<>>, IF Locked THEN taken ELSE <<>>>>
    OBVIOUS
  <2>1. script' = script
    BY DEF Next, MessagerStep, PullStep, vars, received, Arrive, Poll, ScanPast, ScanStop, Full,
           Store, Clear, Pull, Shift, WipeId, WipeType, Answer
  <2>2. CASE ~Locked
    BY <2>1, <2>2 DEF Locked
  <2>3. CASE Locked /\ Store
    BY <2>3, StoreEnters DEF Queue!Next
  <2>4. CASE Locked /\ Pull
    BY <2>4, PullTakes DEF Queue!Next
  <2>5. CASE Locked /\ ~Store /\ ~Pull
    BY <2>5, OthersKeep
  <2> QED BY <2>2, <2>3, <2>4, <2>5
<1> QED BY <1>1, <1>2, <1>3, PTL DEF Spec, IsQueue, Queue!Spec
==============================================================================
