------------------------------ MODULE I2cQueue -------------------------------
(***************************************************************************)
(* The queue of I2C commands, i2c_command_queuing of hwControl/hwManager.c.*)
(* The main loop (resetHardware, the speed control, setAsync...Action) and *)
(* TimerTask (the callbacks that stop, blink and end) put commands in it,  *)
(* hwTask runs the first and shifts the others.                            *)
(*                                                                         *)
(* No lock: a step of this module reads or writes one field of an entry.   *)
(* ADR and CMD are written, moved and read together here; the parameters   *)
(* of a call are read in one step.  What hwTask does in the periods it     *)
(* gives to the sensors leaves the queue alone and is left out.            *)
(***************************************************************************)
EXTENDS Integers, FiniteSets, Sequences, SequencesExt

CONSTANTS
    Producers,     \* the threads that queue commands
    NQUEUE,        \* entries of the queue (50 in the code)
    MaxRequests    \* bound: calls of set_i2c_command_queue in a behaviour

ASSUME NQueueAssumption == NQUEUE \in Nat \ {0}
ASSUME MaxRequestsAssumption == MaxRequests \in Nat

Entries == 0 .. NQUEUE - 1

(* Commands are numbered in the order of the calls; 0 is no command, Junk  *)
(* what lies behind the queue in memory.                                   *)
Requests == 1 .. MaxRequests
Junk == MaxRequests + 1

(* CALLBACK, and ADR with CMD; a command is whole when both are its own.   *)
Entry == [fn : 0 .. Junk, data : 0 .. Junk]
Whole(r) == [fn |-> r, data |-> r]

VARIABLES
    queue,       \* i2c_command_queuing
    prod,        \* the producers: where each is in set_i2c_command_queue
    hw,          \* hwTask: where it is in processCommandQueue
    asked,       \* number of calls of set_i2c_command_queue
    accepted,    \* history: the commands written to the queue, in order
    executed,    \* history: the entries run, in order
    overlapped   \* history: two threads have been in the queue at once

vars == <<queue, prod, hw, asked, accepted, executed, overlapped>>

IdleProducer == [pc |-> "idle", i |-> 0, req |-> 0]
IdleHw == [pc |-> "idle", i |-> 0]

Init ==
    /\ queue = [i \in Entries |-> Whole(0)]
    /\ prod = [p \in Producers |-> IdleProducer]
    /\ hw = IdleHw
    /\ asked = 0
    /\ accepted = <<>>
    /\ executed = <<>>
    /\ overlapped = FALSE

Queueing == \E p \in Producers : prod[p].pc # "idle"

------------------------------------------------------------------------------
(* set_i2c_command_queue, called by p.                                     *)

Call(p) ==
    /\ prod[p].pc = "idle"
    /\ asked < MaxRequests
    /\ asked' = asked + 1
    /\ prod' = [prod EXCEPT ![p] = [pc |-> "scan", i |-> 0, req |-> asked + 1]]
    /\ overlapped' = (overlapped \/ Queueing \/ hw.pc # "idle")
    /\ UNCHANGED <<queue, hw, accepted, executed>>

ScanPast(p) ==
    /\ prod[p].pc = "scan"
    /\ prod[p].i < NQUEUE
    /\ queue[prod[p].i].fn > 0
    /\ prod' = [prod EXCEPT ![p].i = @ + 1]
    /\ UNCHANGED <<queue, hw, asked, accepted, executed, overlapped>>

ScanEnds(p) ==
    /\ prod[p].pc = "scan"
    /\ prod[p].i < NQUEUE => queue[prod[p].i].fn = 0

(* Whether the queue is full is not asked.                                 *)
ScanStopUnchecked(p) ==
    /\ ScanEnds(p)
    /\ prod' = [prod EXCEPT ![p].pc = "fn"]
    /\ UNCHANGED <<queue, hw, asked, accepted, executed, overlapped>>

ScanStop(p) ==
    /\ ScanEnds(p)
    /\ prod[p].i < NQUEUE - 1
    /\ prod' = [prod EXCEPT ![p].pc = "fn"]
    /\ UNCHANGED <<queue, hw, asked, accepted, executed, overlapped>>

(* The last entry is never used: the command is dropped, the caller is not *)
(* told.                                                                   *)
Refuse(p) ==
    /\ ScanEnds(p)
    /\ prod[p].i >= NQUEUE - 1
    /\ prod' = [prod EXCEPT ![p] = IdleProducer]
    /\ UNCHANGED <<queue, hw, asked, accepted, executed, overlapped>>

WriteFn(p) ==
    /\ prod[p].pc = "fn"
    /\ queue' = [queue EXCEPT ![prod[p].i].fn = prod[p].req]
    /\ prod' = [prod EXCEPT ![p].pc = "data"]
    /\ UNCHANGED <<hw, asked, accepted, executed, overlapped>>

WriteData(p) ==
    /\ prod[p].pc = "data"
    /\ queue' = [queue EXCEPT ![prod[p].i].data = prod[p].req]
    /\ accepted' = Append(accepted, prod[p].req)
    /\ prod' = [prod EXCEPT ![p] = IdleProducer]
    /\ UNCHANGED <<hw, asked, executed, overlapped>>

------------------------------------------------------------------------------
(* hwTask.                                                                 *)

(* The wrong entry is asked for: a command alone is not run.               *)
ExecBySecond ==
    /\ hw.pc = "idle"
    /\ queue[0].fn # 0
    /\ queue[1].fn # 0
    /\ executed' = Append(executed, queue[0])
    /\ hw' = [pc |-> "fn", i |-> 0]
    /\ overlapped' = (overlapped \/ Queueing)
    /\ UNCHANGED <<queue, prod, asked, accepted>>

(* The first entry is run if its callback is not 0.                        *)
Exec ==
    /\ hw.pc = "idle"
    /\ queue[0].fn # 0
    /\ executed' = Append(executed, queue[0])
    /\ hw' = [pc |-> "fn", i |-> 0]
    /\ overlapped' = (overlapped \/ Queueing)
    /\ UNCHANGED <<queue, prod, asked, accepted>>

(* The entry behind i; behind the last one lies memory of something else.  *)
Behind(i) == IF i < NQUEUE - 1 THEN {queue[i + 1]} ELSE {Whole(0), Whole(Junk)}

(* The first entry is left as it was, so that it is run again.             *)
ShiftNothing ==
    /\ hw.pc = "fn"
    /\ hw' = [hw EXCEPT !.pc = "data"]
    /\ UNCHANGED <<queue, prod, asked, accepted, executed, overlapped>>

ShiftFn ==
    /\ hw.pc = "fn"
    /\ \E e \in Behind(hw.i) : queue' = [queue EXCEPT ![hw.i].fn = e.fn]
    /\ hw' = [hw EXCEPT !.pc = "data"]
    /\ UNCHANGED <<prod, asked, accepted, executed, overlapped>>

(* The entry that gets the data is the one that was just run.              *)
ShiftDataToFirst ==
    /\ hw.pc = "data"
    /\ \E e \in Behind(hw.i) : queue' = [queue EXCEPT ![0].data = e.data]
    /\ hw' = IF hw.i < NQUEUE - 1 THEN [pc |-> "fn", i |-> hw.i + 1]
             ELSE [hw EXCEPT !.pc = "clear"]
    /\ UNCHANGED <<prod, asked, accepted, executed, overlapped>>

ShiftData ==
    /\ hw.pc = "data"
    /\ \E e \in Behind(hw.i) : queue' = [queue EXCEPT ![hw.i].data = e.data]
    /\ hw' = IF hw.i < NQUEUE - 1 THEN [pc |-> "fn", i |-> hw.i + 1]
             ELSE [hw EXCEPT !.pc = "clear"]
    /\ UNCHANGED <<prod, asked, accepted, executed, overlapped>>

ClearLast ==
    /\ hw.pc = "clear"
    /\ queue' = [queue EXCEPT ![NQUEUE - 1] = Whole(0)]
    /\ hw' = IdleHw
    /\ UNCHANGED <<prod, asked, accepted, executed, overlapped>>

------------------------------------------------------------------------------
ProducerStep(p) ==
    ScanPast(p) \/ ScanStop(p) \/ Refuse(p) \/ WriteFn(p) \/ WriteData(p)
HwStep == Exec \/ ShiftFn \/ ShiftData \/ ClearLast

Next == (\E p \in Producers : Call(p) \/ ProducerStep(p)) \/ HwStep

Spec == Init /\ [][Next]_vars

(* All threads run forever; hwTask has a free period in every 50 ms.       *)
FairSpec ==
    Spec /\ WF_vars(HwStep) /\ \A p \in Producers : WF_vars(ProducerStep(p))

------------------------------------------------------------------------------
(* Properties.                                                             *)

(* The values the variables range over; nothing is read or written past    *)
(* the last entry but by the shift.                                        *)
TypeOK ==
    /\ queue \in [Entries -> Entry]
    /\ prod \in [Producers -> [pc : {"idle", "scan", "fn", "data"},
                               i : 0 .. NQUEUE, req : 0 .. MaxRequests]]
    /\ \A p \in Producers : prod[p].pc \in {"fn", "data"} => prod[p].i \in Entries
    /\ hw \in [pc : {"idle", "fn", "data", "clear"}, i : Entries]
    /\ asked \in 0 .. MaxRequests
    /\ accepted \in Seq(Requests)
    /\ executed \in Seq(Entry)
    /\ overlapped \in BOOLEAN

(* However the threads interleave in the queue, no callback is run for a   *)
(* command twice and none is run that nobody asked for (the memory behind  *)
(* the queue, which the shift reads, is never taken for a command).        *)
RunOnce ==
    /\ \A n \in DOMAIN executed : executed[n].fn \in 1 .. asked
    /\ \A m, n \in DOMAIN executed : m # n => executed[m].fn # executed[n].fn

(* The entries waiting to be run, first to last: not the one a producer is *)
(* writing, and not the one the shift has reached, which is moving.        *)
Settled(i) ==
    /\ queue[i].fn # 0
    /\ ~(hw.pc # "idle" /\ hw.i = i)
    /\ \A p \in Producers : ~(prod[p].pc = "data" /\ prod[p].i = i)
WaitingPlaces == {i \in Entries : Settled(i)}
Rank(i) == Cardinality({j \in WaitingPlaces : j <= i})
Waiting == [n \in 1 .. Cardinality(WaitingPlaces) |->
                queue[CHOOSE i \in WaitingPlaces : Rank(i) = n]]

(* As long as no two threads have been in the queue at the same time, what *)
(* was run and what waits is together what was accepted, in that order and *)
(* each with its own data.                                                 *)
InOrderAndWhole ==
    ~overlapped =>
        executed \o Waiting = [n \in DOMAIN accepted |-> Whole(accepted[n])]

(* ... and each accepted command is run.                                   *)
EveryAcceptedRuns ==
    [](~overlapped) =>
        \A r \in Requests : (r \in ToSet(accepted)) ~> (Whole(r) \in ToSet(executed))
==============================================================================
