----------------------------- MODULE SenderTable -----------------------------
(***************************************************************************)
(* msgEventHeader of asyncTools.c: which client sent the command with a    *)
(* given message id, so that the event that ends it can be addressed.  The *)
(* array has 50 entries, of which saving and removing scan the first 20;   *)
(* the others stay zero and are left out.                                  *)
(***************************************************************************)
EXTENDS Integers, FiniteSets, FiniteSetsExt

CONSTANTS
    NSENDER,     \* entries scanned by save and remove (20 in the code)
    Clients,     \* the clients that send commands
    Garbage      \* what is read at msgEventHeader[-1]

ASSUME NSenderAssumption == NSENDER \in Nat \ {0}
ASSUME GarbageAssumption == Garbage \notin Clients

SenderRows == 0 .. NSENDER - 1

SenderRow == [id : Int, from : Clients \cup {Garbage}]

EmptySenderTable == [i \in SenderRows |-> [id |-> 0, from |-> Garbage]]

EntriesOf(tab, id) == {i \in SenderRows : tab[i].id = id}

(* getSenderFromMsgId, and the msgFrom its callers read at that index.     *)
SenderOf(tab, id) ==
    IF EntriesOf(tab, id) = {} THEN Garbage
    ELSE tab[Min(EntriesOf(tab, id))].from

(* saveSenderOfMsgId.  Its counter i is never initialised (line 34): the   *)
(* scan starts at an arbitrary index, and saves nothing when that index is *)
(* past the last row it scans.                                             *)
SaveSender(tab, start, id, from) ==
    LET free == {i \in SenderRows : i >= start /\ tab[i].id <= 0}
    IN  IF free = {} THEN tab
        ELSE [tab EXCEPT ![Min(free)] = [id |-> id, from |-> from]]

(* An entry that is never given back.                                      *)
KeepSender(tab, id) == tab

(* removeSenderOfMsgId: the first entry of the id is freed.                *)
RemoveSender(tab, id) ==
    IF EntriesOf(tab, id) = {} THEN tab
    ELSE [tab EXCEPT ![Min(EntriesOf(tab, id))] = [id |-> -1, from |-> Garbage]]

==============================================================================
