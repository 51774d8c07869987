------------------------------ MODULE JsonRead -------------------------------
(***************************************************************************)
(* Reading JSON (AlgoidCom/libs/lib_json/jRead.c): a query such as         *)
(* "{'MsgData'{'MsgValue'[*{'din'" is followed through the text from its   *)
(* start, each time, without building a document; values on the way that   *)
(* are not asked for are skipped.                                          *)
(*                                                                         *)
(* A text is a sequence of tokens, a place in it is the number of a token. *)
(* White space and the characters of strings and numbers are left out, and *)
(* so are a string without an end and numbers with a fraction in texts.    *)
(***************************************************************************)
EXTENDS Integers, Sequences

Mark(t) == [t |-> t]                            \* { } [ ] , : null, error
Str(s) == [t |-> "str", s |-> s]
Num(n) == [t |-> "num", n |-> n]
Bool(b) == [t |-> "bool", b |-> b]
Scalars == {"str", "num", "bool", "null"}

(* A query: keys to look up, and places in lists.                          *)
Key(k) == [t |-> "{", key |-> k]
Index(i) == [t |-> "[", index |-> i]
Keys(ks) == [n \in DOMAIN ks |-> Key(ks[n])]

(* jReadFindTok: the kind of the token at p.                               *)
At(text, p) == IF p \in DOMAIN text THEN text[p].t ELSE "end"

(* What reading an element answers: where it goes on, the kind, the number *)
(* of elements, an error and the place of the value.                       *)
Element(pos, type, elements, error, at) ==
    [pos |-> pos, type |-> type, elements |-> elements, error |-> error, at |-> at]
Failed(pos, error) == Element(pos, "error", 0, error, pos)

RECURSIVE Read(_, _, _), Member(_, _, _), Item(_, _, _, _)
RECURSIVE CountObject(_, _, _, _), CountArray(_, _, _, _)

(* The place behind a value that is taken for a single token.              *)
SkipFlat(text, p) == p + 1

(* The place behind the value at p, whatever it is.  That it could not be  *)
(* read is noticed by what follows it, or not at all.                      *)
Skip(text, p) == Read(text, p, <<>>).pos

(* jReadParam.  A value of another kind than the query asks for is error 1,*)
(* but its kind and place are answered.                                    *)
Read(text, p, query) ==
    LET tok == At(text, p)
    IN  CASE query # <<>> /\ tok # Head(query).t -> Element(p, tok, 0, 1, p)
          [] query = <<>> /\ tok = "{" -> CountObject(text, p, p + 1, 0)
          [] query = <<>> /\ tok = "[" -> CountArray(text, p, p + 1, 0)
          [] query # <<>> /\ tok = "{" -> Member(text, p + 1, query)
          [] query # <<>> /\ tok = "[" -> Item(text, p + 1, Tail(query), Head(query).index)
          [] tok \in Scalars -> Element(p + 1, tok, 1, 0, p)
          [] OTHER -> Failed(p, IF tok = "error" THEN 2 ELSE 8)

(* The members of an object, from the one at p on, until the key is found. *)
Member(text, p, query) ==
    IF At(text, p) # "str" THEN Failed(p, 3)
    ELSE IF At(text, p + 1) # ":" THEN Failed(p + 1, 4)
    ELSE IF text[p].s = Head(query).key THEN Read(text, p + 2, Tail(query))
    ELSE LET next == Skip(text, p + 2)
         IN  CASE At(text, next) = "," -> Member(text, next + 1, query)
               [] At(text, next) = "}" -> Failed(next, 5)
               [] OTHER -> Failed(next, 6)

(* The items of a list, from the one at p on, until n are skipped.         *)
Item(text, p, query, n) ==
    IF n = 0 THEN Read(text, p, query)
    ELSE LET next == Skip(text, p)
         IN  CASE At(text, next) = "," -> Item(text, next + 1, query, n - 1)
               [] At(text, next) = "]" -> Failed(next, 10)
               [] OTHER -> Failed(next, 9)

(* jReadCountObject: the object at start, of which n members are counted   *)
(* and the next is at p.  An object without members is error 3, and reading*)
(* goes on at its closing brace.                                           *)
CountObject(text, start, p, n) ==
    IF At(text, p) # "str" THEN Element(p, "{", n, 3, start)
    ELSE IF At(text, p + 1) # ":" THEN Element(p + 1, "{", n, 4, start)
    ELSE LET next == Skip(text, p + 2)
         IN  CASE At(text, next) = "," -> CountObject(text, start, next + 1, n + 1)
               [] At(text, next) = "}" -> Element(next + 1, "{", n + 1, 0, start)
               [] OTHER -> Element(next, "{", n + 1, 6, start)

(* jReadCountArray: the same for a list.  A list without items has one.    *)
CountArray(text, start, p, n) ==
    LET next == Skip(text, p)
    IN  CASE At(text, next) = "," -> CountArray(text, start, next + 1, n + 1)
          [] At(text, next) = "]" -> Element(next + 1, "[", n + 1, 0, start)
          [] OTHER -> Element(next, "[", n + 1, 9, start)

Found(text, query) == Read(text, 1, query)

(* jRead_long, jRead_int: -1 when there is nothing or null; what is no     *)
(* number gives 0, also when it stands where the query wants an object.    *)
Long(text, query) ==
    LET e == Found(text, query)
    IN  CASE e.type \in {"error", "null"} -> -1
          [] e.type = "bool" -> IF text[e.at].b THEN 1 ELSE 0
          [] e.type = "num" -> text[e.at].n
          [] OTHER -> 0

(* jRead_string.  Nothing is copied of a value that does not match; text   *)
(* of another kind than a string is no name the robot knows.               *)
String(text, query) ==
    LET e == Found(text, query)
    IN  CASE e.type = "error" \/ e.error = 1 -> ""
          [] e.type = "str" -> text[e.at].s
          [] OTHER -> "(no string)"
==============================================================================
