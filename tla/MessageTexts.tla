---------------------------- MODULE MessageTexts -----------------------------
(***************************************************************************)
(* MessageStack with the texts of the messages: what hosts send are the    *)
(* documents of module Documents, what the robot reads of them and writes  *)
(* is in module AlgoidJson.                                                *)
(***************************************************************************)
EXTENDS MessageStack, Documents

(* What the texts of the documents give: the value of Parsed.              *)
TextsRead ==
    [n \in DOMAIN Scripts |->
        [k \in DOMAIN Scripts[n].docs |-> MessageRead(Text(Scripts[n].docs[k]))]]

------------------------------------------------------------------------------
(* Properties.                                                             *)

(* What the main loop executes is what a host wrote and meant for this     *)
(* robot: whatever the order of the keys, whatever else the text holds and *)
(* however the structure got through the mailbox and the stack.  (Of the   *)
(* lists of a CONFIG message, those it names.)                             *)
AsMeant(c, m) ==
    /\ Known(m) /\ ForMe(m)
    /\ [c EXCEPT !.lists = m.lists] = Commanded(m)
    /\ \A l \in DOMAIN m.lists : c.lists[l] = m.lists[l]
CommandsAsMeant ==
    [][command' # command /\ (\A k \in sent : Regular(Docs[k])) =>
         \E k \in sent : AsMeant(command', Meaning(Docs[k]))]_vars

(* What the robot sends can be read by a host, and says what it was to say.*)
AnswersAsMeant == [][reply' # reply => Says(Sent(reply').json, reply')]_vars
==============================================================================
