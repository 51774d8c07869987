------------------------------ MODULE Documents ------------------------------
(***************************************************************************)
(* What a host means by a JSON text, and what it understands of one: a     *)
(* document is a tree of objects, lists and scalars, looked up by keys.    *)
(* Hosts are not part of the code; reading and writing here owe nothing to *)
(* jRead.c and jWrite.c, which are compared with them.                     *)
(***************************************************************************)
EXTENDS Integers, Sequences, AlgoidJson

Obj(members) == [t |-> "{", members |-> members]     \* pairs <<key, document>>
Arr(items) == [t |-> "[", items |-> items]
Nothing == Mark("nothing")

(* The text of a document.                                                 *)
RECURSIVE Text(_), MembersText(_), ItemsText(_)
Text(d) ==
    CASE d.t = "{" -> <<Mark("{")>> \o MembersText(d.members) \o <<Mark("}")>>
      [] d.t = "[" -> <<Mark("[")>> \o ItemsText(d.items) \o <<Mark("]")>>
      [] OTHER -> <<d>>
MembersText(ms) ==
    IF ms = <<>> THEN <<>>
    ELSE <<Str(Head(ms)[1]), Mark(":")>> \o Text(Head(ms)[2])
         \o (IF Len(ms) = 1 THEN <<>> ELSE <<Mark(",")>>) \o MembersText(Tail(ms))
ItemsText(ds) ==
    IF ds = <<>> THEN <<>>
    ELSE Text(Head(ds)) \o (IF Len(ds) = 1 THEN <<>> ELSE <<Mark(",")>>) \o ItemsText(Tail(ds))

(* The document that a text stands for, strictly: [at |-> the place behind *)
(* the value at p, doc |-> the value], or at = 0.                          *)
NoValue == [at |-> 0, doc |-> Nothing]
RECURSIVE ValueAt(_, _), MembersAt(_, _, _), ItemsAt(_, _, _)
ValueAt(text, p) ==
    CASE At(text, p) = "{" /\ At(text, p + 1) = "}" -> [at |-> p + 2, doc |-> Obj(<<>>)]
      [] At(text, p) = "[" /\ At(text, p + 1) = "]" -> [at |-> p + 2, doc |-> Arr(<<>>)]
      [] At(text, p) = "{" /\ At(text, p + 1) # "}" -> MembersAt(text, p + 1, <<>>)
      [] At(text, p) = "[" /\ At(text, p + 1) # "]" -> ItemsAt(text, p + 1, <<>>)
      [] At(text, p) \in Scalars -> [at |-> p + 1, doc |-> text[p]]
      [] OTHER -> NoValue
MembersAt(text, p, before) ==
    LET v == ValueAt(text, p + 2)
        members == Append(before, <<text[p].s, v.doc>>)
    IN  IF At(text, p) # "str" \/ At(text, p + 1) # ":" \/ v.at = 0 THEN NoValue
        ELSE CASE At(text, v.at) = "," -> MembersAt(text, v.at + 1, members)
               [] At(text, v.at) = "}" -> [at |-> v.at + 1, doc |-> Obj(members)]
               [] OTHER -> NoValue
ItemsAt(text, p, before) ==
    LET v == ValueAt(text, p)
        items == Append(before, v.doc)
    IN  IF v.at = 0 THEN NoValue
        ELSE CASE At(text, v.at) = "," -> ItemsAt(text, v.at + 1, items)
               [] At(text, v.at) = "]" -> [at |-> v.at + 1, doc |-> Arr(items)]
               [] OTHER -> NoValue
Document(text) ==
    LET v == ValueAt(text, 1) IN IF v.at = Len(text) + 1 THEN v.doc ELSE Nothing

(* The value of a key (the first, if there are several), of a path.        *)
Child(d, step) ==
    CASE step.t # d.t -> Nothing
      [] step.t = "[" -> IF step.index < Len(d.items) THEN d.items[step.index + 1] ELSE Nothing
      [] step.t = "{" ->
           LET places == {n \in DOMAIN d.members : d.members[n][1] = step.key}
           IN  IF places = {} THEN Nothing
               ELSE d.members[CHOOSE n \in places : \A m \in places : n <= m][2]
RECURSIVE Lookup(_, _)
Lookup(d, path) == IF path = <<>> THEN d ELSE Lookup(Child(d, Head(path)), Tail(path))

------------------------------------------------------------------------------
(* What a message means.                                                   *)

Number(d, path) ==
    LET v == Lookup(d, path)
    IN  CASE v.t = "num" -> v.n
          [] v.t = "bool" -> IF v.b THEN 1 ELSE 0
          [] v.t \in {"nothing", "null"} -> -1
          [] OTHER -> 0
Word(d, path) ==
    LET v == Lookup(d, path)
    IN  CASE v.t = "str" -> v.s
          [] v.t = "nothing" -> ""
          [] OTHER -> "(no string)"
Items(d, path) == LET v == Lookup(d, path) IN IF v.t = "[" THEN v.items ELSE <<>>

Meaning(d) ==
    LET type == Word(d, Keys(<<"MsgData", "MsgType">>))
        named == Word(d, Keys(<<"MsgData", "MsgParam">>))
        param == IF named \in Params THEN named ELSE "error param"
        entries == Items(d, MsgValue)
    IN  [to |-> Word(d, Keys(<<"MsgTo">>)), from |-> Word(d, Keys(<<"MsgFrom">>)),
         id |-> Number(d, Keys(<<"MsgID">>)),
         type |-> IF type \in Types THEN type ELSE "error", param |-> param,
         values |-> [i \in DOMAIN entries |->
             [numbers |-> [f \in NumberFields(param) |-> Number(entries[i], Keys(f))],
              strings |-> [f \in StringFields(param) |-> Word(entries[i], Keys(f))]]],
         lists |-> [l \in {l \in Lists : param = "config" /\ entries # <<>>
                                             /\ Child(entries[1], Key(l)).t = "["} |->
                       LET list == Items(entries[1], Keys(<<l>>))
                       IN  [i \in DOMAIN list |->
                               [k \in ListNumbers(l) |-> Number(list[i], Keys(<<k>>))]]]]

(* The texts the robot promises to understand: nothing in them is empty,   *)
(* and what is asked for keys or places has them.                          *)
RECURSIVE NothingEmpty(_), Fits(_, _)
NothingEmpty(d) ==
    CASE d.t = "{" -> d.members # <<>> /\ \A n \in DOMAIN d.members : NothingEmpty(d.members[n][2])
      [] d.t = "[" -> d.items # <<>> /\ \A n \in DOMAIN d.items : NothingEmpty(d.items[n])
      [] OTHER -> TRUE
Fits(d, path) ==
    \/ path = <<>>
    \/ d = Nothing
    \/ Head(path).t = d.t /\ Fits(Child(d, Head(path)), Tail(path))

Regular(d) ==
    LET param == Meaning(d).param
        fields == NumberFields(param) \cup StringFields(param)
    IN  /\ NothingEmpty(d)
        /\ Fits(d, Keys(<<"MsgData", "MsgType">>))
        /\ \A i \in DOMAIN Items(d, MsgValue) :
             /\ \A f \in fields : Fits(d, EntryPath(i - 1, f))
             /\ param = "config" => \A l \in Lists :
                  LET place == EntryPath(i - 1, <<l>>)
                  IN  \A j \in {0} \cup DOMAIN Items(d, place) :
                        Fits(d, place \o <<Index(j), Key("")>>)

------------------------------------------------------------------------------
(* What an answer says.                                                    *)

RECURSIVE KeysOnce(_)
KeysOnce(d) ==
    CASE d.t = "{" -> /\ \A m, n \in DOMAIN d.members : d.members[m][1] = d.members[n][1] => m = n
                      /\ \A n \in DOMAIN d.members : KeysOnce(d.members[n][2])
      [] d.t = "[" -> \A n \in DOMAIN d.items : KeysOnce(d.items[n])
      [] OTHER -> TRUE

(* A number with a fraction reads back to half of the last digit, but for  *)
(* a fraction of nines and exactly a half.                                 *)
NinesAndAHalf(v) ==
    LET size == IF v < 0 THEN -v ELSE v IN size % 4 = 2 /\ (size % UNIT) \div 4 = POW - 1
Near(v, token) == NinesAndAHalf(v) \/ ReadDouble(token) - v \in -2 .. 2

(* Where the entries of an answer name their device and tell their value.  *)
Actuators == {"motor", "stepper", "pwm", "servo", "led"}
NameKey(param) ==
    CASE param = "stepper" -> "motor" [] param = "servo" -> "pwm" [] param = "distance" -> "sonar"
      [] param = "button" -> "btn" [] OTHER -> param
ValueKey(param) ==
    CASE param \in {"motor", "stepper"} -> "velocity" [] param = "servo" -> "position"
      [] param \in {"pwm", "led"} -> "power" [] param = "distance" -> "cm"
      [] param = "battery" -> "mV" [] param \in {"din", "button"} -> "state" [] OTHER -> ""
Sensors == {"distance", "battery", "din", "button"}

EntrySaid(param, e, d) ==
    /\ param \in Actuators /\ e.kind # "std" =>
         Child(d, Key("action")) = Str(e.kind) \/ (param = "servo" /\ e.kind = "run")
    /\ param \in Actuators /\ e.kind = "std" =>
         /\ Child(d, Key(NameKey(param))) = IF e.id < 0 THEN Str("unknown") ELSE Num(e.id)
         /\ Child(d, Key(ValueKey(param))) = Num(e.value)
    /\ param \in Sensors \cup {"rgb"} => Child(d, Key(NameKey(param))) = Num(e.id)
    /\ param \in Sensors /\ e.value >= 0 => Child(d, Key(ValueKey(param))) = Num(e.value)
    /\ param = "rgb" =>
         \A c \in Colours : /\ Lookup(d, Keys(<<"color", c>>)) = Num(e.value)
                            /\ Lookup(d, Keys(<<c, "event_higher">>)) = Num(e.high)
    /\ param = "config" /\ e.kind = "std" =>
         \A l \in {"motor", "wheel", "led"} :
             [i \in DOMAIN Items(d, Keys(<<l>>)) |->
                Number(Items(d, Keys(<<l>>))[i], Keys(<<l>>))] = e.lists[l]

StatusSaid(r, d) ==
    /\ Near(r.entries[1].value, Lookup(d, Keys(<<"upTime">>)))
    /\ \A g \in DOMAIN Groups :
         LET items == Items(d, Keys(<<Groups[g]>>))
             said(i) == r.entries[GroupStart[g] + i]
         IN  /\ Len(items) = NumberOf[Groups[g]]
             /\ \A i \in DOMAIN items :
                  CASE Groups[g] = "motor" ->
                         Child(items[i], Key("speed")) = Num(said(i).value)
                    [] Groups[g] = "sonar" -> Child(items[i], Key("cm")) = Num(said(i).value)
                    [] Groups[g] = "rgb" -> Child(items[i], Key("blue")) = Num(said(i).value)
                    [] OTHER -> Child(items[i], Key("state")) = Num(said(i).value)

(* A host that reads the text of answer r learns what r was to say, unless *)
(* it did not fit into the buffer.                                         *)
Says(json, r) ==
    LET d == Document(json.out)
        inside(names) == Lookup(d, Keys(names))
        entries == Items(d, MsgValue)
    IN  json.error = "ok" =>
        /\ d # Nothing
        /\ r.param # "battery" => KeysOnce(d)
        /\ inside(<<"MsgTo">>) = Str(r.to) /\ inside(<<"MsgID">>) = Num(r.id)
        /\ inside(<<"MsgData", "MsgParam">>) = Str(r.param)
        /\ r.param # "status" => /\ Len(entries) = r.count
                                 /\ \A i \in DOMAIN entries : EntrySaid(r.param, r.entries[i], entries[i])
        /\ r.param = "status" /\ r.count > 0 => StatusSaid(r, inside(<<"MsgData", "MsgMap">>))
==============================================================================
