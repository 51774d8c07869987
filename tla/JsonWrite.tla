------------------------------ MODULE JsonWrite ------------------------------
(***************************************************************************)
(* Writing JSON (AlgoidCom/libs/lib_json/jWrite.c): calls append tokens to *)
(* a buffer; a stack of nodes says what is open and where a comma belongs. *)
(* After the first error nothing more is written, and nobody is told but   *)
(* the caller of jwClose.                                                  *)
(***************************************************************************)
EXTENDS Integers, Sequences, JsonRead

CONSTANTS
    BUFLEN,    \* tokens in the buffer (4096 characters in the code)
    DEPTH,     \* nodes that may be open at a time (JWRITE_STACK_DEPTH, 32)
    PREC       \* digits after the point (6 in the code)
ASSUME WriterAssumption == {BUFLEN, DEPTH, PREC} \subseteq Nat \ {0}

Closing(type) == IF type = "{" THEN "}" ELSE "]"
Node(type) == [type |-> type, elements |-> 0]
Top(w) == w.nodes[Len(w.nodes)]

(* jwPutch and its callers.                                                *)
Put(w, token) ==
    IF Len(w.out) >= BUFLEN THEN [w EXCEPT !.error = "buffer full"]
    ELSE [w EXCEPT !.out = Append(@, token)]

(* jwOpen                                                                  *)
Open(type) == Put([out |-> <<>>, nodes |-> <<Node(type)>>, error |-> "ok"], Mark(type))

(* jwClose                                                                 *)
Close(w) ==
    CASE w.error # "ok" -> w
      [] Len(w.nodes) = 1 -> Put(w, Mark(Closing(w.nodes[1].type)))
      [] OTHER -> [w EXCEPT !.error = "nesting"]

(* jwPush                                                                  *)
Push(w, type) ==
    IF Len(w.nodes) >= DEPTH THEN [w EXCEPT !.error = "stack full"]
    ELSE [w EXCEPT !.nodes = Append(@, Node(type))]

(* jwEnd, with jwPop: the root is not popped, but its brace is written.    *)
End(w) ==
    LET popped == IF Len(w.nodes) = 1 THEN [w EXCEPT !.error = "stack empty"]
                  ELSE [w EXCEPT !.nodes = SubSeq(@, 1, Len(@) - 1)]
    IN  Put(popped, Mark(Closing(Top(w).type)))

(* A new element of the node: a comma unless it is the first.              *)
Counted(w) == [w EXCEPT !.nodes[Len(w.nodes)].elements = @ + 1]
Separated(w) == IF Top(w).elements > 0 THEN Put(Counted(w), Mark(",")) ELSE Counted(w)

(* _jwObj: in a list it is an error, but the key is written.               *)
ObjKey(w, key) ==
    LET w1 == IF Top(w).type # "{" THEN [w EXCEPT !.error = "not an object"] ELSE Separated(w)
    IN  Put(Put(w1, Str(key)), Mark(":"))

(* _jwArr                                                                  *)
ArrItem(w) == IF Top(w).type # "[" THEN [w EXCEPT !.error = "not a list"] ELSE Separated(w)

(* jwObj_string, jwObj_int, jwObj_double                                   *)
ObjValue(w, key, token) ==
    LET k == ObjKey(w, key) IN IF k.error = "ok" THEN Put(k, token) ELSE k

(* jwObj_object, jwObj_array                                               *)
ObjNode(w, key, type) ==
    LET k == ObjKey(w, key) IN IF k.error = "ok" THEN Push(Put(k, Mark(type)), type) ELSE k

(* jwArr_object                                                            *)
ArrObject(w) ==
    LET k == ArrItem(w) IN IF k.error = "ok" THEN Push(Put(k, Mark("{")), "{") ELSE k

(* The calls of a program that writes, and what they do.                   *)
Value(key, token) == [do |-> "value", key |-> key, token |-> token]
Int_(key, n) == Value(key, Num(n))
Text_(key, s) == Value(key, Str(s))
Object(key) == [do |-> "node", key |-> key, type |-> "{"]
Array(key) == [do |-> "node", key |-> key, type |-> "["]
NextObject == [do |-> "item"]
Ended == [do |-> "end"]

Do(w, call) ==
    CASE call.do = "value" -> ObjValue(w, call.key, call.token)
      [] call.do = "node" -> ObjNode(w, call.key, call.type)
      [] call.do = "item" -> ArrObject(w)
      [] call.do = "end" -> End(w)

(* Once there is an error, every call returns at once.                     *)
RECURSIVE AfterAll(_, _)
AfterAll(w, calls) ==
    IF calls = <<>> \/ w.error # "ok" THEN w ELSE AfterAll(Do(w, Head(calls)), Tail(calls))

(* What a program writes into an object, from jwOpen to jwClose.           *)
Written(calls) == Close(AfterAll(Open("{"), calls))

------------------------------------------------------------------------------
(* Numbers with a fraction.  A number is a count of UNITs of a quarter of  *)
(* the last digit that is written, so that halves and what lies on either  *)
(* side of them are told apart.                                            *)
POW == 10 ^ PREC
UNIT == 4 * POW

Stripped[frac \in 0 .. POW] ==
    IF frac % 10 = 0 /\ frac > 0 THEN Stripped[frac \div 10] ELSE frac
Zeros[frac \in 0 .. POW] ==
    IF frac % 10 = 0 /\ frac > 0 THEN 1 + Zeros[frac \div 10] ELSE 0
Digits[n \in 0 .. POW] == IF n < 10 THEN <<n>> ELSE Append(Digits[n \div 10], n % 10)

(* Rounding without the carry.                                             *)
RoundedUp(whole, frac, diff) == IF diff > 2 THEN <<whole, frac + 1>> ELSE <<whole, frac>>

(* modp_dtoa2: a half is rounded to even, but up at 0.  Rounding up a      *)
(* fraction of nines carries over above the half, not at the half.         *)
Rounded(whole, frac, diff) ==
    CASE diff > 2 /\ frac + 1 = POW -> <<whole + 1, 0>>
      [] diff > 2 /\ frac + 1 # POW -> <<whole, frac + 1>>
      [] diff = 2 /\ (frac = 0 \/ frac % 2 = 1) -> <<whole, frac + 1>>
      [] OTHER -> <<whole, frac>>

(* ... and the digits after the point, without the zeros behind them.      *)
Double(v) ==
    LET size == IF v < 0 THEN -v ELSE v
        r == Rounded(size \div UNIT, (size % UNIT) \div 4, size % 4)
        digits == Digits[Stripped[r[2]]]
        zeros == PREC - Zeros[r[2]] - Len(digits)
    IN  [t |-> "num", n |-> IF v < 0 THEN -r[1] ELSE r[1], negative |-> v < 0,
         fraction |-> IF r[2] = 0 THEN <<>>
                      ELSE [i \in 1 .. (IF zeros < 0 THEN 0 ELSE zeros) |-> 0] \o digits]

(* jRead_atof, in units.                                                   *)
ReadDouble(token) ==
    LET value[i \in 0 .. Len(token.fraction)] ==
            IF i = 0 THEN UNIT * (IF token.n < 0 THEN -token.n ELSE token.n)
            ELSE value[i - 1] + token.fraction[i] * (UNIT \div 10 ^ i)
        size == value[Len(token.fraction)]
    IN  IF token.negative THEN -size ELSE size
==============================================================================
