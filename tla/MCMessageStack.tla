--------------------------- MODULE MCMessageStack ----------------------------
(***************************************************************************)
(* Instances of MessageTexts for TLC.                                      *)
(***************************************************************************)
EXTENDS MessageTexts

RECURSIVE InSomeOrder(_)
InSomeOrder(S) ==
    IF S = {} THEN <<>> ELSE LET x == CHOOSE x \in S : TRUE IN <<x>> \o InSomeOrder(S \ {x})
Along(S, Op(_)) == LET s == InSomeOrder(S) IN [n \in DOMAIN s |-> Op(s[n])]

(* A message; keys that are not among the ones given are missing.          *)
Data(type, param, value) ==
    [MsgType |-> Str(type), MsgParam |-> Str(param), MsgValue |-> value]
Header(id, data) ==
    [MsgTo |-> Str("algo_1"), MsgFrom |-> Str("host"), MsgID |-> Num(id), MsgData |-> Obj(data)]
Ordered(members, keys) == [n \in DOMAIN keys |-> <<keys[n], members[keys[n]]>>]

DataKeys == <<"MsgType", "MsgParam", "MsgValue">>
HeaderKeys == <<"MsgTo", "MsgFrom", "MsgID", "MsgData">>
Message(id, type, param, value) ==
    Obj(Ordered(Header(id, Ordered(Data(type, param, value), DataKeys)), HeaderKeys))

------------------------------------------------------------------------------
(* Scripts for the stack: messages without values.                         *)

Nothing1 == Arr(<<Num(0)>>)
Plain(id) == Message(id, "command", "stop", Nothing1)
WithoutId == Obj(Ordered(Header(0, Ordered(Data("command", "stop", Nothing1), DataKeys)),
                       <<"MsgTo", "MsgFrom", "MsgData">>))
Malformed == Message(4, "command", "dance", Nothing1)
Foreign ==
    Obj(<<<<"MsgTo", Str("algo_2")>>>>
        \o Ordered(Header(5, Ordered(Data("command", "stop", Nothing1), DataKeys)),
                   <<"MsgFrom", "MsgID", "MsgData">>))

Script(docs, locked, answers) == [docs |-> docs, locked |-> locked, answers |-> answers]

(* More messages than the places of the stack.  Without a lock one of them *)
(* carries no MsgID, with one all have an id; in a third script two of the *)
(* messages are not for the stack.                                         *)
StackScript(name) ==
    CASE name = "overlapping" -> Script(<<WithoutId, Plain(1), Plain(2), Plain(3)>>, FALSE, {})
      [] name = "in turns" -> Script(<<Plain(0), Plain(1), Plain(2), Plain(3), Malformed>>, TRUE, {})
      [] name = "strays" -> Script(<<Plain(0), Plain(1), Malformed, Foreign>>, TRUE, {})
      [] name = "in turns, unnamed" -> Script(<<WithoutId, Plain(1), Plain(2), Plain(3)>>, TRUE, {})

------------------------------------------------------------------------------
(* Scripts for the reader: one message.  An entry has all the fields of its*)
(* kind of message, or all but those below one key.                        *)

Fields(param) == NumberFields(param) \cup StringFields(param)
Field(param, f, style) ==
    CASE f \in StringFields(param) -> Str("on")
      [] style = "numbers" ->
           Num(CHOOSE n \in 1 .. Cardinality(Fields(param)) : InSomeOrder(Fields(param))[n] = f)
      [] style = "switches" -> Bool(Len(f) = 1)
      [] style = "nulls" -> Mark("null")
      [] style = "words" -> Str("fast")
EntryDoc(param, without, style) ==
    LET Below(h) == {f \in Fields(param) : f[1] = h}
        MemberDoc(h) ==
            IF <<h>> \in Fields(param) THEN <<h, Field(param, <<h>>, style)>>
            ELSE <<h, Obj(Along(Below(h), LAMBDA f : <<f[2], Field(param, f, style)>>))>>
        ListDoc(l) ==
            <<l, Arr([i \in 1 .. 2 |-> Obj(Along(ListNumbers(l), LAMBDA k : <<k, Num(i)>>))])>>
        lists == IF param = "config" THEN Along(Lists \ {without}, ListDoc) ELSE <<>>
    IN  Obj(<<<<"note", Obj(<<<<"motor", Num(9)>>>>)>>>>
            \o Along({f[1] : f \in Fields(param)} \ {without}, MemberDoc) \o lists)

Heads(param) == {f[1] : f \in Fields(param)} \cup (IF param = "config" THEN Lists ELSE {})
TypeFor(param) == IF param \in {"motor", "led"} THEN "command" ELSE "request"

(* The shapes of MsgValue.                                                 *)
Styles == {"numbers", "switches", "nulls", "words"}
Odd == {"empty list", "list of a number", "empty entry", "number", "null", "object", "cut off"}
ValueDoc(param, shape) ==
    CASE shape \in Styles -> Arr(<<EntryDoc(param, "", shape)>>)
      [] shape = "empty list" -> Arr(<<>>)
      [] shape = "list of a number" -> Arr(<<Num(3)>>)
      [] shape = "empty entry" -> Arr(<<Obj(<<>>), EntryDoc(param, "", "numbers")>>)
      [] shape = "number" -> Num(3)
      [] shape = "null" -> Mark("null")
      [] shape = "object" -> EntryDoc(param, "", "numbers")
      [] shape = "cut off" -> Mark("error")
      [] OTHER -> Arr(<<EntryDoc(param, shape, "numbers"), EntryDoc(param, "", "numbers")>>)

(* A member that the robot does not ask for, with the names of some it     *)
(* does.                                                                   *)
Decoy == Obj(<<<<"MsgID", Num(8)>>, <<"MsgData", Arr(<<Num(1), Obj(<<<<"MsgTo", Num(2)>>>>)>>)>>>>)
Mixed(keys, inner) ==
    LET header == Header(7, Ordered(Data("command", "motor", ValueDoc("motor", "time")), inner))
    IN  Obj([n \in DOMAIN keys |->
                <<keys[n], IF keys[n] = "More" THEN Decoy ELSE header[keys[n]]>>])

------------------------------------------------------------------------------
(* Scripts for the writer: a message, and what the robot may hold then.    *)

NoList == [l \in Lists |-> <<>>]
Entry(kind, id, value) ==
    [kind |-> kind, id |-> id, value |-> value, event |-> "on", low |-> 2, high |-> value + 3,
     lists |-> NoList]
Entries(kinds, ids, values) == {Entry(k, i, v) : k \in kinds, i \in ids, v \in values}
SomeEntries == Entries({"std", "begin", "end", "abort", "run", "error"}, {-1, 1}, {-1, 0, 7})
WithLists ==
    {[Entry("std", 0, 5) EXCEPT !.lists.motor = m, !.lists.wheel = w, !.lists.stepper = t, !.lists.led = l] :
       m \in {<<>>, <<1>>, <<1, 0>>}, w \in {<<>>, <<0, 1>>}, t \in {<<>>, <<0>>}, l \in {<<>>, <<2, 1, 0>>}}

(* The first value of a STATUS answer is written with a fraction.          *)
StatusEntries(v) ==
    [i \in 1 .. GroupStart[Len(Groups) + 1] |-> Entry("std", i, IF i = 1 THEN v ELSE i)]
Fractions == (-12 .. 12) \cup (UNIT \div 2 - 30 .. UNIT \div 2 + 30) \cup (UNIT - 12 .. UNIT + 50)

(* More entries than fit into the buffer come last.                        *)
AnswersTo(param) ==
    IF param = "status" THEN {StatusEntries(v) : v \in Fractions}
    ELSE {<<e>> : e \in SomeEntries}
         \cup {<<e, Entry("std", 0, 4), e>> : e \in {Entry("std", 1, 3), Entry("end", 1, 3)}}
         \cup {[i \in 1 .. 8 |-> Entry("std", i, 3)]}
         \cup (IF param = "config" THEN {<<e>> : e \in WithLists} ELSE {})

------------------------------------------------------------------------------
(* Names for all of them.                                                  *)

(* A CONFIG message that leaves out the lists and names of another.        *)
TwoConfigs ==
    Script(<<Message(1, "command", "config", ValueDoc("config", "numbers")),
             Message(2, "command", "config", Arr(<<EntryDoc("stop", "", "numbers")>>))>>, TRUE, {})

ReaderNames ==
    [keys : UNION {SetToSeqs(s \cup {"MsgData", "More"}) : s \in SUBSET {"MsgTo", "MsgFrom", "MsgID"}},
     inner : SetToSeqs({"MsgType", "MsgParam", "MsgValue"})]
    \cup UNION {[param : {p}, shape : Styles \cup Odd \cup Heads(p)] : p \in Params}
    \cup [type : Types \cup {"error", "dance"}]
WriterNames == [answers : Params \ {"stop"}]

ScriptOf(name) ==
    CASE "play" \in DOMAIN name ->
           IF name.play = "two configs" THEN TwoConfigs ELSE StackScript(name.play)
      [] "keys" \in DOMAIN name -> Script(<<Mixed(name.keys, name.inner)>>, FALSE, {})
      [] "shape" \in DOMAIN name ->
           Script(<<Message(7, TypeFor(name.param), name.param, ValueDoc(name.param, name.shape))>>,
                  FALSE, {})
      [] "type" \in DOMAIN name ->
           Script(<<Message(7, name.type, "motor", ValueDoc("motor", "time"))>>, FALSE, {})
      [] "answers" \in DOMAIN name ->
           Script(<<Message(7, TypeFor(name.answers), name.answers,
                            ValueDoc(name.answers, "numbers"))>>, FALSE, AnswersTo(name.answers))

AllScripts ==
    [n \in [play : {"overlapping", "in turns", "strays", "two configs"}] \cup ReaderNames \cup WriterNames |->
        ScriptOf(n)]
InTurnsUnnamed == [n \in [play : {"in turns, unnamed"}] |-> ScriptOf(n)]

ASSUME HostsAssumption == DistinctIds /\ ([play |-> "in turns, unnamed"] \in DOMAIN Scripts \/ NamedInTurns)

SomeIds == -1 .. 9
OurRobots == {"algo_1", "algo_2"}
SomeDevices == [din |-> 2, btn |-> 1, motor |-> 2, sonar |-> 1, rgb |-> 0, led |-> 2, pwm |-> 1]
==============================================================================
