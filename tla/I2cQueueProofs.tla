--------------------------- MODULE I2cQueueProofs ----------------------------
(***************************************************************************)
(* The queue of I2C commands, for any number of threads and entries:       *)
(* whatever the threads do to each other in it, no command is run twice;   *)
(* while they do not meet in it, the commands are run in order and whole.  *)
(***************************************************************************)
EXTENDS I2cQueue, FiniteSetTheorems, TLAPS

(* The place the shift is about to overwrite: a copy of an entry that was  *)
(* run or moved, or, at the end, what lay behind the queue.                *)
Stale(i) ==
    \/ hw.pc = "fn" /\ i = hw.i
    \/ hw.pc = "data" /\ i = hw.i + 1
    \/ hw.pc \in {"data", "clear"} /\ hw.i = NQUEUE - 1 /\ i = hw.i

Run(r) == \E n \in DOMAIN executed : executed[n].fn = r
Queued(r) == \E i \in Entries : ~Stale(i) /\ queue[i].fn = r
Writing(p) == prod[p].pc \in {"scan", "fn"}

(* Where the threads are.                                                  *)
Placed ==
    /\ \A p \in Producers : prod[p].pc # "idle" => prod[p].req \in 1 .. asked
    /\ hw.pc = "clear" => hw.i = NQUEUE - 1

(* A command is in one place: still to be written by one thread, or in one *)
(* entry that is not stale, or run.                                        *)
PendingOnce ==
    \A p \in Producers : Writing(p) =>
        /\ ~Run(prod[p].req)
        /\ ~Queued(prod[p].req)
        /\ \A q \in Producers : q # p /\ Writing(q) => prod[q].req # prod[p].req
QueuedOnce ==
    \A i \in Entries : ~Stale(i) /\ queue[i].fn # 0 =>
        /\ queue[i].fn \in 1 .. asked
        /\ ~Run(queue[i].fn)
        /\ \A j \in Entries : j # i /\ ~Stale(j) => queue[j].fn # queue[i].fn

Inv == TypeOK /\ Placed /\ PendingOnce /\ QueuedOnce /\ RunOnce

------------------------------------------------------------------------------
(* Everything is in its range, and the index an action uses is an entry of *)
(* the queue: set_i2c_command_queue and processCommandQueue.               *)
LEMMA TypeInvariant == TypeOK /\ Placed /\ [Next]_vars => TypeOK'
<1> DEFINE Rows == [pc : {"idle", "scan", "fn", "data"},
                    i : 0 .. NQUEUE, req : 0 .. MaxRequests]
           Shift == [pc : {"idle", "fn", "data", "clear"}, i : Entries]
           Aimed == \A p \in Producers : prod[p].pc \in {"fn", "data"} => prod[p].i \in Entries
<1> SUFFICES ASSUME TypeOK, Placed, [Next]_vars PROVE TypeOK'
  OBVIOUS
<1> USE NQueueAssumption, MaxRequestsAssumption
<1>0. /\ queue \in [Entries -> Entry]
      /\ prod \in [Producers -> Rows]
      /\ Aimed
      /\ hw \in Shift
      /\ asked \in 0 .. MaxRequests
      /\ overlapped \in BOOLEAN
  BY DEF TypeOK
<1>1. ASSUME NEW p \in Producers, Call(p) PROVE TypeOK'
  <2>1. prod' \in [Producers -> Rows] /\ asked' \in 0 .. MaxRequests
    BY <1>0, <1>1 DEF Call
  <2>2. Aimed'
    BY <1>0, <1>1 DEF Call
  <2>3. overlapped' \in BOOLEAN
    BY <1>1, Zenon DEF Call
  <2> QED  BY <1>1, <2>1, <2>2, <2>3 DEF Call, TypeOK
<1>2. ASSUME NEW p \in Producers, ScanPast(p) PROVE TypeOK'
  <2>1. prod' \in [Producers -> Rows]
    BY <1>0, <1>2 DEF ScanPast
  <2>2. Aimed'
    BY <1>0, <1>2 DEF ScanPast
  <2> QED  BY <1>2, <2>1, <2>2 DEF ScanPast, TypeOK
<1>3. ASSUME NEW p \in Producers, ScanStop(p) PROVE TypeOK'
  <2>1. prod' \in [Producers -> Rows]
    BY <1>0, <1>3 DEF ScanStop
  <2>2. Aimed'
    BY <1>0, <1>3 DEF ScanStop, Entries
  <2> QED  BY <1>3, <2>1, <2>2 DEF ScanStop, TypeOK
<1>4. ASSUME NEW p \in Producers, Refuse(p) PROVE TypeOK'
  <2>1. prod' \in [Producers -> Rows] /\ Aimed'
    BY <1>0, <1>4 DEF Refuse, IdleProducer
  <2> QED  BY <1>4, <2>1 DEF Refuse, TypeOK
<1>5. ASSUME NEW p \in Producers, WriteFn(p) PROVE TypeOK'
  <2>1. prod' \in [Producers -> Rows] /\ Aimed'
    BY <1>0, <1>5 DEF WriteFn
  <2>2. queue' \in [Entries -> Entry]
    BY <1>0, <1>5 DEF WriteFn, Entry, Junk
  <2> QED  BY <1>5, <2>1, <2>2 DEF WriteFn, TypeOK
<1>6. ASSUME NEW p \in Producers, WriteData(p) PROVE TypeOK'
  <2>1. prod' \in [Producers -> Rows] /\ Aimed'
    BY <1>0, <1>6 DEF WriteData, IdleProducer
  <2>2. queue' \in [Entries -> Entry]
    <3>1. prod[p].req \in 0 .. Junk /\ prod[p].i \in Entries
      BY <1>0, <1>6 DEF WriteData, Junk
    <3>2. queue' = [queue EXCEPT ![prod[p].i].data = prod[p].req]
      BY <1>6 DEF WriteData
    <3> QED  BY <1>0, <3>1, <3>2 DEF Entry
  <2>3. prod[p].req \in Requests
    BY <1>0, <1>6 DEF WriteData, Placed, Requests
  <2>4. accepted' \in Seq(Requests)
    BY <1>6, <2>3 DEF WriteData, TypeOK
  <2> QED  BY <1>6, <2>1, <2>2, <2>4 DEF WriteData, TypeOK
<1>7. CASE Exec
  <2>1. overlapped' \in BOOLEAN
    BY <1>7, Zenon DEF Exec
  <2>2. 0 \in Entries
    BY DEF Entries
  <2>3. executed' \in Seq(Entry)
    BY <1>0, <1>7, <2>2 DEF Exec, TypeOK
  <2>4. hw' \in Shift
    BY <1>7, <2>2 DEF Exec
  <2> QED  BY <1>7, <2>1, <2>3, <2>4 DEF Exec, TypeOK
<1>8. ASSUME NEW i \in Entries PROVE Behind(i) \subseteq Entry
  BY <1>0 DEF Behind, Entry, Entries, Whole, Junk
<1>9. CASE ShiftFn
  <2>1. hw' \in Shift
    BY <1>0, <1>9 DEF ShiftFn
  <2>2. queue' \in [Entries -> Entry]
    BY <1>0, <1>8, <1>9 DEF ShiftFn, Entry
  <2> QED  BY <1>9, <2>1, <2>2 DEF ShiftFn, TypeOK
<1>10. CASE ShiftData
  <2>1. hw' \in Shift
    <3>1. hw.i \in Entries
      BY <1>0
    <3>2. CASE hw.i < NQUEUE - 1
      <4>1. hw.i + 1 \in Entries
        BY <3>1, <3>2 DEF Entries
      <4>2. hw' = [pc |-> "fn", i |-> hw.i + 1]
        BY <1>10, <3>2 DEF ShiftData
      <4> QED  BY <4>1, <4>2
    <3>3. CASE ~(hw.i < NQUEUE - 1)
      <4>1. hw' = [hw EXCEPT !.pc = "clear"]
        BY <1>10, <3>3 DEF ShiftData
      <4> QED  BY <1>0, <4>1
    <3> QED  BY <3>2, <3>3
  <2>2. queue' \in [Entries -> Entry]
    BY <1>0, <1>8, <1>10 DEF ShiftData, Entry
  <2> QED  BY <1>10, <2>1, <2>2 DEF ShiftData, TypeOK
<1>11. CASE ClearLast
  <2>1. hw' \in Shift
    BY <1>11 DEF ClearLast, IdleHw, Entries
  <2>2. queue' \in [Entries -> Entry]
    <3>1. Whole(0) \in Entry
      BY DEF Entry, Whole, Junk
    <3> QED  BY <1>0, <1>11, <3>1 DEF ClearLast
  <2> QED  BY <1>11, <2>1, <2>2 DEF ClearLast, TypeOK
<1>12. CASE UNCHANGED vars
  BY <1>12 DEF vars, TypeOK
<1> QED
  BY <1>1, <1>2, <1>3, <1>4, <1>5, <1>6, <1>7, <1>9, <1>10, <1>11, <1>12
  DEF Next, ProducerStep, HwStep

(* Where the threads are in their loops.                                   *)
LEMMA PlacedInvariant == TypeOK /\ Placed /\ [Next]_vars => Placed'
<1> SUFFICES ASSUME TypeOK, Placed, [Next]_vars PROVE Placed'
  OBVIOUS
<1> USE NQueueAssumption, MaxRequestsAssumption
<1> USE DEF TypeOK, Placed, Entries, IdleProducer, IdleHw
<1>1. ASSUME NEW p \in Producers, Call(p) PROVE Placed'
  BY <1>1 DEF Call
<1>2. ASSUME NEW p \in Producers, ProducerStep(p) PROVE Placed'
  <2>1. CASE ScanPast(p)
    BY <2>1 DEF ScanPast
  <2>2. CASE ScanStop(p)
    <3>1. prod' = [prod EXCEPT ![p].pc = "fn"] /\ asked' = asked /\ hw' = hw
      BY <2>2 DEF ScanStop
    <3>2. prod[p].pc = "scan"
      BY <2>2 DEF ScanStop, ScanEnds
    <3> QED  BY <3>1, <3>2
  <2>3. CASE Refuse(p)
    BY <2>3 DEF Refuse
  <2>4. CASE WriteFn(p)
    BY <2>4 DEF WriteFn
  <2>5. CASE WriteData(p)
    BY <2>5 DEF WriteData
  <2> QED  BY <1>2, <2>1, <2>2, <2>3, <2>4, <2>5 DEF ProducerStep
<1>3. CASE HwStep
  BY <1>3 DEF HwStep, Exec, ShiftFn, ShiftData, ClearLast
<1>4. CASE UNCHANGED vars
  BY <1>4 DEF vars
<1> QED  BY <1>1, <1>2, <1>3, <1>4 DEF Next

------------------------------------------------------------------------------
(* A step that runs nothing, puts no new command in the queue and leaves   *)
(* none in two entries: m names, for each entry that is not stale after    *)
(* it, the entry its command came from.                                    *)
Kept(m) ==
    /\ \A j \in Entries : ~Stale(j)' /\ queue'[j].fn # 0 =>
        /\ m[j] \in Entries
        /\ ~Stale(m[j])
        /\ queue'[j].fn = queue[m[j]].fn
    /\ \A j, k \in Entries : j # k /\ ~Stale(j)' /\ ~Stale(k)' => m[j] # m[k]

(* Moving entries to other places of the queue keeps what is owed and done.*)
LEMMA Relocation ==
    ASSUME Inv, NEW m, Kept(m),
           executed' = executed, asked' = asked,
           \A p \in Producers : Writing(p)' => Writing(p) /\ prod'[p].req = prod[p].req
    PROVE  PendingOnce' /\ QueuedOnce' /\ RunOnce'
<1>1. \A r : Run(r)' <=> Run(r)
  BY DEF Run
<1>2. \A r : r # 0 /\ Queued(r)' => Queued(r)
  BY DEF Kept, Queued
<1>3. PendingOnce'
  <2>1. \A p \in Producers : Writing(p) => prod[p].req # 0
    BY DEF Inv, TypeOK, Placed, Writing
  <2> QED  BY <1>1, <1>2, <2>1 DEF Inv, PendingOnce
<1>4. QueuedOnce'
  BY <1>1 DEF Inv, QueuedOnce, Kept
<1>5. RunOnce'
  BY DEF Inv, RunOnce
<1> QED  BY <1>3, <1>4, <1>5

(* set_i2c_command_queue writes CALLBACK: the command leaves the thread    *)
(* and is in one entry; what that entry held, if anything, is lost.        *)
LEMMA WriteFnKeeps ==
    ASSUME Inv, NEW p \in Producers, WriteFn(p)
    PROVE  PendingOnce' /\ QueuedOnce' /\ RunOnce'
<1> DEFINE at == prod[p].i
           req == prod[p].req
<1>1. /\ executed' = executed /\ asked' = asked /\ hw' = hw
      /\ at \in Entries /\ Writing(p) /\ req \in 1 .. asked /\ req # 0
  BY DEF WriteFn, Inv, TypeOK, Placed, Writing
<1>2. \A j \in Entries : queue'[j].fn = IF j = at THEN req ELSE queue[j].fn
  BY <1>1 DEF WriteFn, Inv, TypeOK
<1>3. \A j : Stale(j)' <=> Stale(j)
  BY <1>1 DEF Stale
<1>4. \A r : Run(r)' <=> Run(r)
  BY <1>1 DEF Run
<1>5. \A q \in Producers : Writing(q)' => q # p /\ Writing(q) /\ prod'[q] = prod[q]
  BY DEF WriteFn, Inv, TypeOK, Writing
<1>6. ~Run(req) /\ ~Queued(req)
  BY <1>1 DEF Inv, PendingOnce
<1>7. PendingOnce'
  <2>1. \A r : r # req /\ Queued(r)' => Queued(r)
    BY <1>2, <1>3 DEF Queued
  <2>2. \A q \in Producers : Writing(q)' => prod[q].req # req
    BY <1>1, <1>5 DEF Inv, PendingOnce
  <2> QED  BY <1>4, <1>5, <2>1, <2>2 DEF Inv, PendingOnce
<1>8. QueuedOnce'
  BY <1>1, <1>2, <1>3, <1>4, <1>6 DEF Inv, QueuedOnce, Queued
<1>9. RunOnce'
  BY <1>1 DEF Inv, RunOnce
<1> QED  BY <1>7, <1>8, <1>9

(* A call of set_i2c_command_queue: its command is new.                    *)
LEMMA CallKeeps ==
    ASSUME Inv, NEW p \in Producers, Call(p)
    PROVE  PendingOnce' /\ QueuedOnce' /\ RunOnce'
<1> DEFINE req == asked + 1
<1>1. /\ executed' = executed /\ queue' = queue /\ hw' = hw
      /\ asked \in Nat /\ asked' = req
  BY MaxRequestsAssumption DEF Call, Inv, TypeOK
<1>2. \A q \in Producers : q # p => prod'[q] = prod[q]
  BY DEF Call, Inv, TypeOK
<1>3. prod'[p].req = req
  BY DEF Call, Inv, TypeOK
<1>4. \A j : Stale(j)' <=> Stale(j)
  BY <1>1 DEF Stale
<1>5. \A r : (Run(r)' <=> Run(r)) /\ (Queued(r)' <=> Queued(r))
  BY <1>1, <1>4 DEF Run, Queued
<1>6. ~Run(req)
  BY <1>1 DEF Inv, RunOnce, Run
<1>7. ~Queued(req)
  BY <1>1 DEF Inv, QueuedOnce, Queued
<1>8. \A q \in Producers : Writing(q) => prod[q].req # req
  BY <1>1 DEF Inv, Placed, Writing
<1>9. PendingOnce'
  BY <1>2, <1>3, <1>5, <1>6, <1>7, <1>8 DEF Inv, PendingOnce, Writing
<1>10. QueuedOnce'
  BY <1>1, <1>4, <1>5 DEF Inv, QueuedOnce
<1>11. RunOnce'
  BY <1>1 DEF Inv, RunOnce
<1> QED  BY <1>9, <1>10, <1>11

(* processCommandQueue runs the first entry: none is stale then, and its   *)
(* command is in no other entry and with no thread.                        *)
LEMMA ExecKeeps ==
    ASSUME Inv, Exec
    PROVE  PendingOnce' /\ QueuedOnce' /\ RunOnce'
<1> DEFINE r0 == queue[0].fn
<1>1. /\ queue' = queue /\ prod' = prod /\ asked' = asked
      /\ hw.pc = "idle" /\ hw'.pc = "fn" /\ hw'.i = 0 /\ r0 # 0 /\ 0 \in Entries
      /\ executed' = Append(executed, queue[0]) /\ executed \in Seq(Entry)
  BY NQueueAssumption DEF Exec, Entries, Inv, TypeOK
<1>2. \A j : ~Stale(j) /\ (Stale(j)' <=> j = 0)
  BY <1>1 DEF Stale
<1>3. /\ DOMAIN executed' = 1 .. Len(executed) + 1
      /\ DOMAIN executed = 1 .. Len(executed) /\ Len(executed) \in Nat
      /\ \A n \in DOMAIN executed : executed'[n] = executed[n]
      /\ executed'[Len(executed) + 1].fn = r0
  BY <1>1
<1>4. \A r : Run(r)' <=> Run(r) \/ r = r0
  BY <1>3 DEF Run
<1>5. r0 \in 1 .. asked /\ ~Run(r0)
      /\ \A j \in Entries : j # 0 => queue[j].fn # r0
  BY <1>1, <1>2 DEF Inv, QueuedOnce
<1>6. PendingOnce'
  <2>1. \A q \in Producers : Writing(q) => prod[q].req # r0
    BY <1>1, <1>2 DEF Inv, PendingOnce, Queued
  <2>2. \A r : Queued(r)' => Queued(r)
    BY <1>1, <1>2 DEF Queued
  <2> QED  BY <1>1, <1>4, <2>1, <2>2 DEF Inv, PendingOnce, Writing
<1>7. QueuedOnce'
  BY <1>1, <1>2, <1>4, <1>5 DEF Inv, QueuedOnce
<1>8. RunOnce'
  BY <1>1, <1>3, <1>5 DEF Inv, RunOnce, Run
<1> QED  BY <1>6, <1>7, <1>8

(* The shift moves CALLBACK from the entry behind: that one is stale now,  *)
(* or, at the last entry, what lay behind the queue is.                    *)
LEMMA ShiftFnKeeps ==
    ASSUME Inv, ShiftFn
    PROVE  PendingOnce' /\ QueuedOnce' /\ RunOnce'
<1> DEFINE m == [j \in Entries |-> IF j = hw.i /\ hw.i < NQUEUE - 1 THEN j + 1 ELSE j]
<1>1. /\ hw.pc = "fn" /\ hw'.pc = "data" /\ hw'.i = hw.i /\ hw.i \in Entries
      /\ prod' = prod /\ executed' = executed /\ asked' = asked
  BY DEF ShiftFn, Inv, TypeOK
<1>2. \A j \in Entries : Stale(j) <=> j = hw.i
  BY <1>1 DEF Stale
<1>3. \A j \in Entries :
        Stale(j)' <=> j = IF hw.i < NQUEUE - 1 THEN hw.i + 1 ELSE hw.i
  BY <1>1, NQueueAssumption DEF Stale, Entries
<1>4. \A j \in Entries : j # hw.i => queue'[j].fn = queue[j].fn
  BY <1>1 DEF ShiftFn, Inv, TypeOK
<1>5. hw.i < NQUEUE - 1 => queue'[hw.i].fn = queue[hw.i + 1].fn
  BY <1>1 DEF ShiftFn, Behind, Inv, TypeOK
<1>6. Kept(m)
  BY <1>1, <1>2, <1>3, <1>4, <1>5, NQueueAssumption DEF Kept, Entries
<1> QED  BY <1>1, <1>6, Relocation DEF Writing

(* The rest of the shift: no CALLBACK but that of the last entry changes,  *)
(* which is set to 0.                                                      *)
LEMMA ShiftRestKeeps ==
    ASSUME Inv, ShiftData \/ ClearLast
    PROVE  PendingOnce' /\ QueuedOnce' /\ RunOnce'
<1> DEFINE m == [j \in Entries |-> j]
<1>1. prod' = prod /\ executed' = executed /\ asked' = asked
  BY DEF ShiftData, ClearLast
<1>2. CASE ShiftData
  <2>1. \A j \in Entries : queue'[j].fn = queue[j].fn
    BY <1>2 DEF ShiftData, Inv, TypeOK
  <2>2. \A j \in Entries : Stale(j)' <=> Stale(j)
    BY <1>2, NQueueAssumption DEF ShiftData, Stale, Inv, TypeOK, Entries
  <2>3. Kept(m)
    BY <2>1, <2>2 DEF Kept
  <2> QED  BY <1>1, <2>3, Relocation DEF Writing
<1>3. CASE ClearLast
  <2>1. \A j \in Entries :
          queue'[j].fn = IF j = NQUEUE - 1 THEN 0 ELSE queue[j].fn
    BY <1>3 DEF ClearLast, Whole, Inv, TypeOK
  <2>2. \A j \in Entries : j # NQUEUE - 1 => ~Stale(j)
    BY <1>3 DEF ClearLast, Stale, Inv, Placed
  <2>3. Kept(m)
    BY <2>1, <2>2 DEF Kept
  <2> QED  BY <1>1, <2>3, Relocation DEF Writing
<1> QED  BY <1>2, <1>3

(* The steps of set_i2c_command_queue that change no CALLBACK.             *)
LEMMA ScanKeeps ==
    ASSUME Inv, NEW p \in Producers,
           ScanPast(p) \/ ScanStop(p) \/ Refuse(p) \/ WriteData(p)
    PROVE  PendingOnce' /\ QueuedOnce' /\ RunOnce'
<1> DEFINE m == [j \in Entries |-> j]
<1>1. hw' = hw /\ executed' = executed /\ asked' = asked
  BY DEF ScanPast, ScanStop, Refuse, WriteData
<1>2. \A j \in Entries : queue'[j].fn = queue[j].fn
  <2>1. CASE WriteData(p)
    BY <2>1 DEF WriteData, Inv, TypeOK
  <2>2. CASE ScanPast(p) \/ ScanStop(p) \/ Refuse(p)
    BY <2>2 DEF ScanPast, ScanStop, Refuse
  <2> QED  BY <2>1, <2>2
<1>3. Kept(m)
  BY <1>1, <1>2 DEF Kept, Stale
<1>4. \A q \in Producers : Writing(q)' => Writing(q) /\ prod'[q].req = prod[q].req
  <2>1. CASE ScanPast(p)
    BY <2>1 DEF ScanPast, Writing, Inv, TypeOK
  <2>2. CASE ScanStop(p)
    BY <2>2 DEF ScanStop, ScanEnds, Writing, Inv, TypeOK
  <2>3. CASE Refuse(p)
    BY <2>3 DEF Refuse, IdleProducer, Writing, Inv, TypeOK
  <2>4. CASE WriteData(p)
    BY <2>4 DEF WriteData, IdleProducer, Writing, Inv, TypeOK
  <2> QED  BY <2>1, <2>2, <2>3, <2>4
<1> QED  BY <1>1, <1>3, <1>4, Relocation

(* The queue starts empty, with nobody in it.                              *)
LEMMA InvInit == Init => Inv
<1> SUFFICES ASSUME Init PROVE Inv
  OBVIOUS
<1> USE NQueueAssumption, MaxRequestsAssumption DEF Init, IdleProducer, IdleHw
<1>1. TypeOK
  BY DEF TypeOK, Entries, Entry, Whole, Junk
<1>2. Placed /\ PendingOnce /\ RunOnce
  BY DEF Placed, PendingOnce, Writing, RunOnce
<1>3. QueuedOnce
  BY DEF QueuedOnce, Whole
<1> QED  BY <1>1, <1>2, <1>3 DEF Inv

(* Every step of a caller or of hwTask keeps the invariant.                *)
LEMMA InvStep == Inv /\ [Next]_vars => Inv'
<1> SUFFICES ASSUME Inv, [Next]_vars PROVE Inv'
  OBVIOUS
<1>1. TypeOK' /\ Placed'
  BY TypeInvariant, PlacedInvariant DEF Inv
<1>2. PendingOnce' /\ QueuedOnce' /\ RunOnce'
  <2>1. ASSUME NEW p \in Producers, Call(p) \/ ProducerStep(p)
        PROVE  PendingOnce' /\ QueuedOnce' /\ RunOnce'
    BY <2>1, CallKeeps, WriteFnKeeps, ScanKeeps DEF ProducerStep
  <2>2. CASE HwStep
    BY <2>2, ExecKeeps, ShiftFnKeeps, ShiftRestKeeps DEF HwStep
  <2>3. CASE UNCHANGED vars
    BY <2>3 DEF vars, Inv, PendingOnce, QueuedOnce, RunOnce, Writing, Run, Queued, Stale
  <2> QED  BY <2>1, <2>2, <2>3 DEF Next
<1> QED  BY <1>1, <1>2 DEF Inv

(* The queue, its threads and the histories stay in their ranges: no       *)
(* thread writes an entry outside i2c_command_queuing.                     *)
THEOREM TypeCorrect == Spec => []TypeOK
<1>1. Inv => TypeOK
  BY DEF Inv
<1> QED  BY InvInit, InvStep, <1>1, PTL DEF Spec

(* For any number of threads and entries, and however they interleave in   *)
(* the queue without a lock, hwTask runs no command twice and none that    *)
(* was not asked for.                                                      *)
THEOREM RunOnceAlways == Spec => []RunOnce
<1>1. Inv => RunOnce
  BY DEF Inv
<1> QED  BY InvInit, InvStep, <1>1, PTL DEF Spec
------------------------------------------------------------------------------
(* The order of the queue, as long as no two threads have been in it at    *)
(* once.  Pending commands are accepted and not yet run; the n-th of them  *)
(* is what entry n - 1 is for.                                             *)
Pending == Len(accepted) - Len(executed)
Nth(n) == Whole(accepted[Len(executed) + n])

Busy(p) == prod[p].pc # "idle"
Alone ==
    /\ \A p, q \in Producers : Busy(p) /\ Busy(q) => p = q
    /\ hw.pc # "idle" => \A p \in Producers : ~Busy(p)

Ran ==
    /\ Pending >= 0
    /\ \A n \in 1 .. Len(executed) : executed[n] = Whole(accepted[n])

(* The last entry is never filled, and one is empty during the shift.      *)
Fits == Pending < IF hw.pc = "idle" THEN NQUEUE ELSE NQUEUE - 1

(* A producer stops at the first free entry.                               *)
Scanned ==
    \A p \in Producers :
        /\ prod[p].pc = "scan" => prod[p].i <= Pending
        /\ prod[p].pc \in {"fn", "data"} =>
               prod[p].i = Pending /\ Pending < NQUEUE - 1
        /\ prod[p].pc = "data" => queue[Pending].fn = prod[p].req

(* Entries in front of the shift, behind it, and the one between its two   *)
(* steps.                                                                  *)
InPlace(i) ==
    IF i < Pending THEN queue[i] = Nth(i + 1)
    ELSE (\A p \in Producers : prod[p].pc = "data" => prod[p].i # i)
             => queue[i].fn = 0
ToMove(i) == IF i <= Pending THEN queue[i] = Nth(i) ELSE queue[i].fn = 0
Moving(i) == queue[i].fn = IF i < Pending THEN Nth(i + 1).fn ELSE 0
Lined ==
    \A i \in Entries :
        /\ hw.pc = "idle" \/ i < hw.i => InPlace(i)
        /\ hw.pc # "idle" /\ hw.i < i => ToMove(i)
        /\ hw.pc = "data" /\ i = hw.i /\ i < NQUEUE - 1 => Moving(i)

Lineup == Alone /\ Ran /\ Fits /\ Scanned /\ Lined
Order == ~overlapped => Lineup

(* The lengths of the histories, for the arithmetic of the steps.          *)
LEMMA Lengths ==
    ASSUME TypeOK
    PROVE  /\ Len(accepted) \in Nat /\ DOMAIN accepted = 1 .. Len(accepted)
           /\ \A n \in 1 .. Len(accepted) : accepted[n] \in Requests
           /\ Len(executed) \in Nat /\ DOMAIN executed = 1 .. Len(executed)
           /\ Pending \in Int
  BY DEF TypeOK, Pending

(* A call of set_i2c_command_queue that finds the queue to itself, and the *)
(* scan for the first entry without a callback.                            *)
LEMMA OrderScan ==
    ASSUME TypeOK, Placed, Lineup, NEW p \in Producers,
           \/ Call(p) /\ ~overlapped'
           \/ ScanPast(p) \/ ScanStop(p) \/ Refuse(p)
    PROVE  Lineup'
<1> USE NQueueAssumption, MaxRequestsAssumption
<1>1. /\ queue' = queue /\ hw' = hw /\ accepted' = accepted /\ executed' = executed
      /\ Pending' = Pending
      /\ \A n \in Int : Nth(n)' = Nth(n)
  BY DEF Call, ScanPast, ScanStop, Refuse, Pending, Nth
<1>2. hw.pc = "idle" /\ \A q \in Producers : q # p => ~Busy(q)
  <2>1. CASE Call(p) /\ ~overlapped'
    BY <2>1 DEF Call, Queueing, Busy
  <2>2. CASE ScanPast(p) \/ ScanStop(p) \/ Refuse(p)
    BY <2>2 DEF ScanPast, ScanStop, Refuse, ScanEnds, Busy, Lineup, Alone
  <2> QED  BY <2>1, <2>2
<1>3. \A q \in Producers : q # p => prod'[q] = prod[q]
  BY DEF Call, ScanPast, ScanStop, Refuse, TypeOK
<1>4. prod[p].pc # "data" /\ prod'[p].pc # "data"
  BY DEF Call, ScanPast, ScanStop, Refuse, ScanEnds, IdleProducer, TypeOK
<1>5. Alone'
  BY <1>1, <1>2, <1>3 DEF Alone, Busy
<1>6. Ran' /\ Fits'
  BY <1>1 DEF Lineup, Ran, Fits
<1>7. Pending \in Int /\ Pending >= 0
  BY Lengths DEF Lineup, Ran
<1>8. \A i \in Entries : i < Pending => queue[i].fn > 0
  <2> TAKE i \in Entries
  <2> HAVE i < Pending
  <2>1. queue[i] = Whole(accepted[Len(executed) + (i + 1)])
    BY <1>2 DEF Lineup, Lined, InPlace, Nth
  <2>2. Len(executed) + (i + 1) \in 1 .. Len(accepted)
    BY Lengths DEF Pending, Entries
  <2> QED  BY <2>1, <2>2, Lengths DEF Whole, Requests
<1>9. Scanned'
  <2>1. CASE Call(p)
    <3>1. prod'[p].pc = "scan" /\ prod'[p].i = 0
      BY <2>1 DEF Call, TypeOK
    <3> QED  BY <1>1, <1>2, <1>3, <1>7, <3>1 DEF Scanned, Busy
  <2>2. CASE ScanPast(p)
    <3>1. /\ prod[p].pc = "scan" /\ prod'[p].pc = "scan" /\ prod'[p].i = prod[p].i + 1
          /\ prod[p].i \in Entries /\ queue[prod[p].i].fn > 0
      BY <2>2 DEF ScanPast, TypeOK, Entries
    <3>2. prod[p].i <= Pending
      BY <3>1 DEF Lineup, Scanned
    <3>3. prod[p].i # Pending
      <4>1. SUFFICES ASSUME prod[p].i = Pending PROVE FALSE
        OBVIOUS
      <4>2. \A q \in Producers : prod[q].pc # "data"
        BY <1>2, <1>4 DEF Busy
      <4>3. InPlace(prod[p].i)
        BY <1>2, <3>1 DEF Lineup, Lined
      <4>4. queue[prod[p].i].fn = 0
        BY <4>1, <4>2, <4>3, <1>7 DEF InPlace
      <4> QED  BY <3>1, <4>4
    <3>4. prod'[p].i <= Pending
      BY <3>1, <3>2, <3>3, <1>7 DEF Entries
    <3> QED  BY <1>1, <1>2, <1>3, <3>1, <3>4 DEF Scanned, Busy
  <2>3. CASE ScanStop(p)
    <3>1. /\ prod[p].pc = "scan" /\ prod'[p].pc = "fn" /\ prod'[p].i = prod[p].i
          /\ prod[p].i \in Entries /\ queue[prod[p].i].fn = 0 /\ prod[p].i < NQUEUE - 1
      BY <2>3 DEF ScanStop, ScanEnds, TypeOK, Entries
    <3>2. prod[p].i <= Pending
      BY <3>1 DEF Lineup, Scanned
    <3>3. prod[p].i = Pending
      BY <1>7, <1>8, <3>1, <3>2 DEF Entries
    <3> QED  BY <1>1, <1>2, <1>3, <3>1, <3>3 DEF Scanned, Busy
  <2>4. CASE Refuse(p)
    <3>1. prod'[p].pc = "idle"
      BY <2>4 DEF Refuse, IdleProducer, TypeOK
    <3> QED  BY <1>1, <1>2, <1>3, <3>1 DEF Scanned, Busy
  <2> QED  BY <2>1, <2>2, <2>3, <2>4
<1>10. Lined'
  <2>1. \A i \in Entries : InPlace(i)
    BY <1>2 DEF Lineup, Lined
  <2>2. \A q \in Producers : prod[q].pc # "data" /\ prod'[q].pc # "data"
    BY <1>2, <1>3, <1>4 DEF Busy
  <2>3. \A i \in Entries : InPlace(i)'
    BY <1>1, <2>1, <2>2 DEF InPlace, Entries
  <2> QED  BY <1>1, <1>2, <2>3 DEF Lined
<1> QED  BY <1>5, <1>6, <1>9, <1>10 DEF Lineup

(* A producer alone in the queue: nothing moves, the others are idle.      *)
LEMMA WriterAlone ==
    ASSUME TypeOK, Lineup, NEW p \in Producers, prod[p].pc \in {"fn", "data"}
    PROVE  /\ hw.pc = "idle" /\ \A q \in Producers : q # p => ~Busy(q)
           /\ Pending \in Entries /\ Pending < NQUEUE - 1 /\ prod[p].i = Pending
           /\ \A i \in Entries : InPlace(i)
<1>1. hw.pc = "idle" /\ \A q \in Producers : q # p => ~Busy(q)
  BY DEF Lineup, Alone, Busy
<1>2. Pending \in Entries /\ Pending < NQUEUE - 1 /\ prod[p].i = Pending
  BY Lengths, NQueueAssumption DEF Lineup, Scanned, Ran, Entries
<1> QED  BY <1>1, <1>2 DEF Lineup, Lined

(* The producer writes CALLBACK to the first free entry ...                *)
LEMMA OrderWriteFn ==
    ASSUME TypeOK, Lineup, NEW p \in Producers, WriteFn(p)
    PROVE  Lineup'
<1> USE NQueueAssumption
<1>1. /\ prod[p].pc = "fn" /\ prod'[p].pc = "data" /\ prod'[p].i = prod[p].i
      /\ prod'[p].req = prod[p].req
      /\ \A q \in Producers : q # p => prod'[q] = prod[q]
      /\ hw' = hw /\ accepted' = accepted /\ executed' = executed
  BY DEF WriteFn, TypeOK
<1>2. Pending' = Pending /\ \A n \in Int : Nth(n)' = Nth(n)
  BY <1>1 DEF Pending, Nth
<1>3. /\ hw.pc = "idle" /\ \A q \in Producers : q # p => ~Busy(q)
      /\ Pending \in Entries /\ Pending < NQUEUE - 1 /\ prod[p].i = Pending
      /\ \A i \in Entries : InPlace(i)
  BY <1>1, WriterAlone
<1>4. /\ queue'[Pending].fn = prod[p].req
      /\ \A i \in Entries : i # Pending => queue'[i] = queue[i]
  BY <1>3 DEF WriteFn, TypeOK
<1>5. Alone'
  BY <1>1, <1>3 DEF Alone, Busy
<1>6. Ran' /\ Fits'
  BY <1>1, <1>2 DEF Lineup, Ran, Fits
<1>7. Scanned'
  BY <1>1, <1>2, <1>3, <1>4 DEF Scanned, Busy
<1>8. \A i \in Entries : InPlace(i)'
  <2> TAKE i \in Entries
  <2>1. CASE i = Pending
    BY <1>1, <1>2, <1>3, <2>1 DEF InPlace, Entries
  <2>2. CASE i # Pending
    <3>1. \A q \in Producers : prod[q].pc = "data" => prod[q].i # i
      BY <1>1, <1>3 DEF Busy
    <3> QED  BY <1>2, <1>3, <1>4, <2>2, <3>1 DEF InPlace, Entries
  <2> QED  BY <2>1, <2>2
<1>9. Lined'
  BY <1>1, <1>3, <1>8 DEF Lined
<1> QED  BY <1>5, <1>6, <1>7, <1>9 DEF Lineup

(* ... and then ADR and CMD: the command is accepted, behind the others.   *)
LEMMA OrderWriteData ==
    ASSUME TypeOK, Placed, Lineup, NEW p \in Producers, WriteData(p)
    PROVE  Lineup'
<1> DEFINE req == prod[p].req
<1> USE NQueueAssumption
<1>1. /\ prod[p].pc = "data" /\ prod'[p].pc = "idle" /\ req \in Requests
      /\ \A q \in Producers : q # p => prod'[q] = prod[q]
      /\ hw' = hw /\ executed' = executed /\ accepted' = Append(accepted, req)
  BY MaxRequestsAssumption DEF WriteData, IdleProducer, TypeOK, Placed, Requests
<1>2. /\ hw.pc = "idle" /\ \A q \in Producers : q # p => ~Busy(q)
      /\ Pending \in Entries /\ Pending < NQUEUE - 1 /\ prod[p].i = Pending
      /\ \A i \in Entries : InPlace(i)
  BY <1>1, WriterAlone
<1>3. /\ accepted \in Seq(Requests) /\ Len(accepted) \in Nat /\ Len(executed) \in Nat
      /\ Len(accepted) = Len(executed) + Pending
  BY Lengths DEF TypeOK, Pending
<1>4. /\ Len(accepted') = Len(accepted) + 1
      /\ \A n \in 1 .. Len(accepted) : accepted'[n] = accepted[n]
      /\ accepted'[Len(accepted) + 1] = req
  BY <1>1, <1>3
<1>5. Pending' = Pending + 1
  BY <1>1, <1>3, <1>4 DEF Pending
<1>6. /\ \A n \in 1 .. Pending : Nth(n)' = Nth(n)
      /\ \A n \in Int : n = Pending + 1 => Nth(n)' = Whole(req)
  <2>1. \A n \in 1 .. Pending : Len(executed) + n \in 1 .. Len(accepted)
    BY <1>2, <1>3 DEF Entries
  <2>2. Len(executed) + (Pending + 1) = Len(accepted) + 1
    BY <1>2, <1>3 DEF Entries
  <2>3. \A n \in 1 .. Pending : Nth(n)' = Nth(n)
    BY <1>1, <1>4, <2>1 DEF Nth, Whole
  <2>4. \A n \in Int : n = Pending + 1 => Nth(n)' = Whole(req)
    BY <1>1, <1>4, <2>2 DEF Nth, Whole
  <2> QED  BY <2>3, <2>4
<1>7. /\ queue'[Pending].fn = queue[Pending].fn /\ queue'[Pending].data = req
      /\ queue'[Pending] \in Entry
      /\ \A i \in Entries : i # Pending => queue'[i] = queue[i]
  <2>1. /\ queue' = [queue EXCEPT ![Pending].data = req]
        /\ queue \in [Entries -> Entry] /\ Pending \in Entries /\ req \in 0 .. Junk
    BY <1>1, <1>2, MaxRequestsAssumption DEF WriteData, TypeOK, Requests, Junk
  <2> HIDE DEF req
  <2> QED  BY <2>1 DEF Entry
<1>8. Alone'
  BY <1>1, <1>2 DEF Alone, Busy
<1>9. Ran'
  BY <1>1, <1>2, <1>3, <1>4, <1>5 DEF Lineup, Ran, Entries
<1>10. Fits'
  BY <1>1, <1>2, <1>5 DEF Fits, Entries
<1>11. Scanned'
  BY <1>1, <1>2 DEF Scanned, Busy
<1>12. \A i \in Entries : i < Pending + 1 => queue'[i] = Nth(i + 1)'
  <2> TAKE i \in Entries
  <2>1. CASE i < Pending
    <3>1. i + 1 \in 1 .. Pending
      BY <1>2, <2>1 DEF Entries
    <3>2. queue[i] = Nth(i + 1) /\ queue'[i] = queue[i]
      BY <1>2, <1>7, <2>1 DEF InPlace, Entries
    <3>3. Nth(i + 1)' = Nth(i + 1)
      BY <1>6, <3>1
    <3> QED  BY <3>2, <3>3
  <2>2. CASE i = Pending
    <3>1. queue[Pending].fn = req
      BY <1>1 DEF Lineup, Scanned
    <3>2. queue'[Pending] = Whole(req)
      BY <1>7, <3>1 DEF Entry, Whole
    <3>3. Nth(i + 1)' = Whole(req)
      BY <1>2, <1>6, <2>2 DEF Entries
    <3> QED  BY <2>2, <3>2, <3>3
  <2> QED  BY <1>2, <2>1, <2>2 DEF Entries
<1>13. \A i \in Entries : i >= Pending + 1 => queue'[i].fn = 0
  <2> TAKE i \in Entries
  <2> HAVE i >= Pending + 1
  <2>1. \A q \in Producers : prod[q].pc = "data" => prod[q].i # i
    BY <1>2 DEF Busy, Entries
  <2> QED  BY <1>2, <1>7, <2>1 DEF InPlace, Entries
<1>14. \A i \in Entries : InPlace(i)'
  BY <1>2, <1>5, <1>12, <1>13 DEF InPlace, Entries
<1>15. Lined'
  BY <1>1, <1>2, <1>14 DEF Lined
<1> QED  BY <1>8, <1>9, <1>10, <1>11, <1>15 DEF Lineup

(* hwTask alone in the queue, running the first entry: it is the first of  *)
(* the pending commands, and the others now wait one place too far behind. *)
LEMMA OrderExec ==
    ASSUME TypeOK, Lineup, Exec, ~overlapped'
    PROVE  Lineup'
<1> USE NQueueAssumption
<1>1. /\ hw.pc = "idle" /\ hw'.pc = "fn" /\ hw'.i = 0 /\ queue[0].fn # 0
      /\ queue' = queue /\ prod' = prod /\ accepted' = accepted
      /\ executed' = Append(executed, queue[0]) /\ 0 \in Entries
      /\ \A p \in Producers : ~Busy(p)
  <2>1. \A p \in Producers : ~Busy(p)
    BY Zenon DEF Exec, Queueing, Busy
  <2> QED  BY <2>1 DEF Exec, Entries
<1>2. /\ Len(accepted) \in Nat /\ Len(executed) \in Nat /\ executed \in Seq(Entry)
      /\ Len(accepted) = Len(executed) + Pending /\ Pending \in Int /\ Pending >= 0
  BY Lengths DEF TypeOK, Pending, Lineup, Ran
<1>3. /\ Len(executed') = Len(executed) + 1
      /\ \A n \in 1 .. Len(executed) : executed'[n] = executed[n]
      /\ executed'[Len(executed) + 1] = queue[0]
  BY <1>1, <1>2
<1>4. Pending' = Pending - 1
  BY <1>1, <1>2, <1>3 DEF Pending
<1>5. \A n \in Int : Nth(n)' = Nth(n + 1)
  BY <1>1, <1>2, <1>3 DEF Nth
<1>6. \A i \in Entries : IF i < Pending THEN queue[i] = Nth(i + 1) ELSE queue[i].fn = 0
  BY <1>1 DEF Lineup, Lined, InPlace, Busy
<1>7. Pending > 0 /\ queue[0] = Nth(1)
  BY <1>1, <1>2, <1>6
<1>8. Alone'
  BY <1>1 DEF Alone, Busy
<1>9. Ran'
  <2>1. Pending' >= 0
    BY <1>2, <1>4, <1>7
  <2>2. \A n \in 1 .. Len(executed) + 1 : executed'[n] = Whole(accepted[n])
    BY <1>2, <1>3, <1>7 DEF Lineup, Ran, Nth
  <2> QED  BY <1>1, <1>3, <2>1, <2>2 DEF Ran
<1>10. Fits'
  BY <1>1, <1>2, <1>4 DEF Lineup, Fits
<1>11. Scanned'
  BY <1>1 DEF Scanned, Busy
<1>12. \A i \in Entries : 0 < i => ToMove(i)'
  <2> TAKE i \in Entries
  <2> HAVE 0 < i
  <2>1. i \in Int /\ Nth(i)' = Nth(i + 1)
    BY <1>5 DEF Entries
  <2>2. CASE i <= Pending - 1
    <3>1. i < Pending
      BY <1>2, <2>1, <2>2
    <3> QED  BY <1>1, <1>4, <1>6, <2>1, <2>2, <3>1 DEF ToMove
  <2>3. CASE ~(i <= Pending - 1)
    <3>1. ~(i < Pending)
      BY <1>2, <2>1, <2>3
    <3> QED  BY <1>1, <1>4, <1>6, <2>3, <3>1 DEF ToMove
  <2> QED  BY <2>2, <2>3
<1>13. Lined'
  BY <1>1, <1>12 DEF Lined, Entries
<1> QED  BY <1>8, <1>9, <1>10, <1>11, <1>13 DEF Lineup

(* The shift moves the next entry forward, its CALLBACK and then ADR and   *)
(* CMD; the entry of the foreign memory is cleared before hwTask leaves.   *)
LEMMA OrderShift ==
    ASSUME TypeOK, Placed, Lineup, ShiftFn \/ ShiftData \/ ClearLast
    PROVE  Lineup'
<1> USE NQueueAssumption
<1>1. /\ prod' = prod /\ accepted' = accepted /\ executed' = executed
      /\ Pending' = Pending
      /\ \A n \in Int : Nth(n)' = Nth(n)
  BY DEF ShiftFn, ShiftData, ClearLast, Pending, Nth
<1>2. hw.pc # "idle" /\ hw.i \in Entries /\ \A p \in Producers : ~Busy(p)
  BY DEF ShiftFn, ShiftData, ClearLast, TypeOK, Lineup, Alone
<1>3. Pending \in Int /\ Pending >= 0 /\ Pending < NQUEUE - 1
  BY <1>2, Lengths DEF Lineup, Ran, Fits
<1>4. Alone' /\ Ran' /\ Scanned'
  <2>1. Alone' /\ Scanned'
    BY <1>1, <1>2 DEF Alone, Scanned, Busy
  <2> QED  BY <1>1, <2>1 DEF Lineup, Ran
<1>5. Fits'
  BY <1>1, <1>3 DEF Fits
<1>6. \A p \in Producers : prod[p].pc # "data"
  BY <1>2 DEF Busy
<1>7. \A i \in Entries :
        /\ i < hw.i => IF i < Pending THEN queue[i] = Nth(i + 1) ELSE queue[i].fn = 0
        /\ hw.i < i => IF i <= Pending THEN queue[i] = Nth(i) ELSE queue[i].fn = 0
  BY <1>2, <1>6 DEF Lineup, Lined, InPlace, ToMove
<1>8. ASSUME NEW i \in Entries,
             queue'[i] = queue[i],
             i < hw.i
      PROVE  InPlace(i)'
  BY <1>1, <1>7, <1>8 DEF InPlace, Entries
<1>9. ASSUME NEW i \in Entries,
             queue'[i] = queue[i],
             hw.i < i
      PROVE  ToMove(i)'
  BY <1>1, <1>7, <1>9 DEF ToMove, Entries
<1>10. Lined'
  <2>1. CASE ShiftFn
    <3>1. /\ hw.pc = "fn" /\ hw'.pc = "data" /\ hw'.i = hw.i
          /\ \A i \in Entries : i # hw.i => queue'[i] = queue[i]
      BY <2>1 DEF ShiftFn, TypeOK
    <3>2. hw.i < NQUEUE - 1 => queue'[hw.i].fn = queue[hw.i + 1].fn
      BY <2>1, <1>2 DEF ShiftFn, Behind, TypeOK
    <3>3. hw.i < NQUEUE - 1 => Moving(hw.i)'
      <4> HAVE hw.i < NQUEUE - 1
      <4>1. hw.i + 1 \in Entries /\ hw.i < hw.i + 1
        BY <1>2 DEF Entries
      <4>2. queue'[hw.i].fn = IF hw.i < Pending THEN Nth(hw.i + 1).fn ELSE 0
        BY <1>2, <1>3, <1>7, <3>2, <4>1 DEF Entries
      <4>3. PICK i \in Entries : i = hw.i
        BY <1>2
      <4>4. Moving(i)'
        BY <1>1, <4>2, <4>3 DEF Moving, Entries
      <4> QED  BY <3>1, <4>3, <4>4 DEF Moving
    <3>4. \A i \in Entries : i < hw'.i => InPlace(i)'
      BY <1>8, <3>1, <1>2 DEF Entries
    <3>5. \A i \in Entries : hw'.i < i => ToMove(i)'
      BY <1>9, <3>1, <1>2 DEF Entries
    <3>6. \A i \in Entries : i = hw'.i /\ i < NQUEUE - 1 => Moving(i)'
      BY <3>1, <3>3 DEF Moving
    <3> QED  BY <3>1, <3>4, <3>5, <3>6 DEF Lined
  <2>2. CASE ShiftData
    <3>1. /\ hw.pc = "data" /\ hw'.pc \in {"fn", "clear"}
          /\ hw'.i = IF hw.i < NQUEUE - 1 THEN hw.i + 1 ELSE hw.i
          /\ \A i \in Entries : i # hw.i => queue'[i] = queue[i]
      BY <2>2 DEF ShiftData, TypeOK
    <3>2. hw.i < NQUEUE - 1 =>
            /\ queue'[hw.i].fn = queue[hw.i].fn
            /\ queue'[hw.i].data = queue[hw.i + 1].data
            /\ queue'[hw.i] \in Entry
      <4> HAVE hw.i < NQUEUE - 1
      <4>1. /\ queue' = [queue EXCEPT ![hw.i].data = queue[hw.i + 1].data]
            /\ hw.i + 1 \in Entries /\ queue \in [Entries -> Entry]
        <5>1. Behind(hw.i) = {queue[hw.i + 1]}
          BY DEF Behind
        <5>2. queue' = [queue EXCEPT ![hw.i].data = queue[hw.i + 1].data]
          BY <2>2, <5>1 DEF ShiftData
        <5> QED  BY <1>2, <5>2 DEF TypeOK, Entries
      <4>2. /\ queue'[hw.i].fn = queue[hw.i].fn
            /\ queue'[hw.i].data = queue[hw.i + 1].data
        BY <1>2, <4>1 DEF Entry
      <4>3. queue'[hw.i] \in Entry
        BY <1>2, <4>1 DEF Entry
      <4> QED  BY <4>2, <4>3
    <3>3. \A i \in Entries : i = hw.i /\ i < NQUEUE - 1 => InPlace(i)'
      <4> TAKE i \in Entries
      <4> HAVE i = hw.i /\ i < NQUEUE - 1
      <4>1. queue[i].fn = IF i < Pending THEN Nth(i + 1).fn ELSE 0
        BY <3>1 DEF Lineup, Lined, Moving
      <4>2. i + 1 \in Entries /\ hw.i < i + 1
        BY DEF Entries
      <4>3. i < Pending => queue[i + 1].data = Nth(i + 1).data
        BY <1>3, <1>7, <4>2 DEF Entries
      <4>4. i < Pending => queue'[i] = Nth(i + 1)
        BY <3>2, <4>1, <4>3 DEF Entry, Nth, Whole
      <4>5. i < Pending => InPlace(i)'
        BY <1>1, <4>4 DEF InPlace, Entries
      <4>6. ~(i < Pending) => queue'[i].fn = 0
        BY <3>2, <4>1
      <4>7. ~(i < Pending) => InPlace(i)'
        BY <1>1, <4>6 DEF InPlace
      <4> QED  BY <4>5, <4>7
    <3>4. \A i \in Entries : i < hw'.i => InPlace(i)'
      BY <1>2, <1>8, <3>1, <3>3 DEF Entries
    <3>5. \A i \in Entries : hw'.i < i => ToMove(i)'
      BY <1>2, <1>9, <3>1 DEF Entries
    <3> QED  BY <3>1, <3>4, <3>5 DEF Lined
  <2>3. CASE ClearLast
    <3>1. /\ hw.i = NQUEUE - 1 /\ hw'.pc = "idle"
          /\ \A i \in Entries : i # NQUEUE - 1 => queue'[i] = queue[i]
          /\ queue'[NQUEUE - 1].fn = 0
      BY <2>3, <1>2 DEF ClearLast, IdleHw, Placed, Whole, TypeOK
    <3>2. \A i \in Entries : i # NQUEUE - 1 => InPlace(i)'
      BY <1>8, <3>1 DEF Entries
    <3>3. \A i \in Entries : i = NQUEUE - 1 => InPlace(i)'
      BY <1>1, <1>3, <3>1 DEF InPlace
    <3> QED  BY <3>1, <3>2, <3>3 DEF Lined
  <2> QED  BY <2>1, <2>2, <2>3
<1> QED  BY <1>4, <1>5, <1>10 DEF Lineup

(* The queue starts in order.                                              *)
LEMMA OrderInit == Init => Order
<1> SUFFICES ASSUME Init PROVE Lineup
  BY DEF Order
<1>1. Len(accepted) = 0 /\ Len(executed) = 0 /\ Pending = 0
  BY DEF Init, Pending
<1>2. hw.pc = "idle" /\ \A p \in Producers : prod[p].pc = "idle"
  BY DEF Init, IdleHw, IdleProducer
<1>3. \A i \in Entries : i >= 0 /\ queue[i].fn = 0
  BY NQueueAssumption DEF Init, Whole, Entries
<1>4. Alone /\ Scanned
  BY <1>2 DEF Alone, Scanned, Busy
<1>5. Ran /\ Fits
  BY <1>1, <1>2, NQueueAssumption DEF Ran, Fits
<1>6. Lined
  BY <1>1, <1>2, <1>3 DEF Lined, InPlace, Entries
<1> QED  BY <1>4, <1>5, <1>6 DEF Lineup

(* Two threads once in the queue together are remembered; until then each  *)
(* step keeps the order.                                                   *)
LEMMA OrderStep == Inv /\ Order /\ [Next]_vars => Order'
<1> SUFFICES ASSUME Inv, Order, [Next]_vars, ~overlapped' PROVE Lineup'
  BY DEF Order
<1>1. ~overlapped
  BY DEF Next, ProducerStep, HwStep, vars, Call, ScanPast, ScanStop, Refuse, WriteFn,
         WriteData, Exec, ShiftFn, ShiftData, ClearLast
<1>2. TypeOK /\ Placed /\ Lineup
  BY <1>1 DEF Inv, Order
<1>3. ASSUME NEW p \in Producers, Call(p) \/ ProducerStep(p) PROVE Lineup'
  BY <1>2, <1>3, OrderScan, OrderWriteFn, OrderWriteData DEF ProducerStep
<1>4. CASE HwStep
  BY <1>2, <1>4, OrderExec, OrderShift DEF HwStep
<1>5. CASE UNCHANGED vars
  BY <1>2, <1>5 DEF vars, Lineup, Alone, Ran, Fits, Scanned, Lined, InPlace, ToMove,
         Moving, Pending, Nth, Busy
<1> QED  BY <1>3, <1>4, <1>5 DEF Next

------------------------------------------------------------------------------
(* The entries that wait, read in the order of the queue.                  *)

(* A run of entries from the first on, with or without a gap in it.        *)
LEMMA CountGap ==
    ASSUME NEW n \in Int, n >= -1, NEW g \in Int
    PROVE  Cardinality((0 .. n) \ {g}) = IF g \in 0 .. n THEN n ELSE n + 1
<1>1. IsFiniteSet(0 .. n) /\ Cardinality(0 .. n) = n + 1
  BY FS_Interval
<1>2. CASE g \in 0 .. n
  <2>1. Cardinality((0 .. n) \ {g}) = Cardinality(0 .. n) - 1
    BY <1>1, <1>2, FS_RemoveElement
  <2> QED  BY <1>1, <1>2, <2>1
<1>3. CASE g \notin 0 .. n
  <2>1. (0 .. n) \ {g} = 0 .. n
    BY <1>3
  <2> QED  BY <1>1, <1>3, <2>1
<1> QED  BY <1>2, <1>3

(* The place the shift leaves out, if it has not passed the last command.  *)
Gap == IF hw.pc # "idle" /\ hw.i <= Pending THEN hw.i ELSE -1
LastWaiting == IF Gap = -1 THEN Pending - 1 ELSE Pending

(* Waiting are the entries up to the last command but the gap; the n-th of *)
(* them holds the n-th pending command.                                    *)
LEMMA WaitingAre ==
    ASSUME TypeOK, Lineup
    PROVE  /\ WaitingPlaces = (0 .. LastWaiting) \ {Gap}
           /\ \A i \in WaitingPlaces : queue[i] = Nth(IF Gap # -1 /\ Gap < i THEN i ELSE i + 1)
<1> USE NQueueAssumption
<1>1. /\ Pending \in Int /\ Pending >= 0 /\ Pending < NQUEUE
      /\ hw.pc # "idle" => Pending < NQUEUE - 1
      /\ hw.i \in Entries
  BY Lengths DEF Lineup, Ran, Fits, TypeOK
<1>2. \A n \in 1 .. Pending : Nth(n).fn # 0
  <2> TAKE n \in 1 .. Pending
  <2>1. Len(executed) + n \in 1 .. Len(accepted)
    BY Lengths DEF Pending
  <2> QED  BY <2>1, Lengths DEF Nth, Whole, Requests
<1>3. CASE hw.pc = "idle"
  <2>1. Gap = -1 /\ LastWaiting = Pending - 1
    BY <1>3 DEF Gap, LastWaiting
  <2>2. \A i \in Entries : i < Pending => queue[i] = Nth(i + 1) /\ queue[i].fn # 0
    BY <1>1, <1>2, <1>3 DEF Lineup, Lined, InPlace, Entries
  <2>3. \A i \in Entries : Settled(i) <=> i < Pending
    <3> TAKE i \in Entries
    <3>1. CASE i < Pending
      <4>1. \A p \in Producers : ~(prod[p].pc = "data" /\ prod[p].i = i)
        BY <1>1, <3>1 DEF Lineup, Scanned
      <4> QED  BY <1>3, <2>2, <3>1, <4>1 DEF Settled
    <3>2. CASE ~(i < Pending)
      <4>1. InPlace(i)
        BY <1>3 DEF Lineup, Lined
      <4>2. (\A p \in Producers : prod[p].pc = "data" => prod[p].i # i) => queue[i].fn = 0
        BY <3>2, <4>1 DEF InPlace
      <4>3. ~Settled(i)
        BY <4>2 DEF Settled
      <4> QED  BY <3>2, <4>3
    <3> QED  BY <3>1, <3>2
  <2>4. WaitingPlaces = (0 .. LastWaiting) \ {Gap}
    BY <1>1, <2>1, <2>3 DEF WaitingPlaces, Entries
  <2> QED  BY <2>1, <2>2, <2>3, <2>4 DEF WaitingPlaces
<1>4. CASE hw.pc # "idle"
  <2>1. \A p \in Producers : prod[p].pc # "data"
    BY <1>4 DEF Lineup, Alone, Busy
  <2>2. \A i \in Entries :
          /\ i < hw.i => IF i < Pending THEN queue[i] = Nth(i + 1) ELSE queue[i].fn = 0
          /\ hw.i < i => IF i <= Pending THEN queue[i] = Nth(i) ELSE queue[i].fn = 0
    BY <1>4, <2>1 DEF Lineup, Lined, InPlace, ToMove
  <2>3. \A i \in Entries : Settled(i) <=> queue[i].fn # 0 /\ i # hw.i
    BY <1>4, <2>1 DEF Settled
  <2>4. CASE hw.i <= Pending
    <3>1. Gap = hw.i /\ LastWaiting = Pending
      BY <1>1, <1>4, <2>4 DEF Gap, LastWaiting, Entries
    <3>2. \A i \in Entries : Settled(i) <=> i <= Pending /\ i # hw.i
      BY <1>1, <1>2, <2>2, <2>3, <2>4 DEF Entries
    <3>3. WaitingPlaces = (0 .. LastWaiting) \ {Gap}
      BY <1>1, <1>4, <3>1, <3>2 DEF WaitingPlaces, Entries
    <3> QED  BY <1>1, <2>2, <2>4, <3>1, <3>2, <3>3 DEF WaitingPlaces, Entries
  <2>5. CASE ~(hw.i <= Pending)
    <3>1. Gap = -1 /\ LastWaiting = Pending - 1
      BY <2>5 DEF Gap, LastWaiting
    <3>2. \A i \in Entries : Settled(i) <=> i < Pending
      BY <1>1, <1>2, <2>2, <2>3, <2>5 DEF Entries
    <3>3. WaitingPlaces = (0 .. LastWaiting) \ {Gap}
      BY <1>1, <3>1, <3>2 DEF WaitingPlaces, Entries
    <3> QED  BY <1>1, <2>2, <2>5, <3>1, <3>2, <3>3 DEF WaitingPlaces, Entries
  <2> QED  BY <2>4, <2>5
<1> QED  BY <1>3, <1>4

(* Waiting is the sequence of the pending commands, each whole.            *)
LEMMA WaitingIsPending ==
    ASSUME TypeOK, Lineup
    PROVE  Waiting = [n \in 1 .. Pending |-> Nth(n)]
<1> USE NQueueAssumption
<1>1. /\ Pending \in Int /\ Pending >= 0 /\ hw.i \in Entries
  BY Lengths DEF Lineup, Ran, TypeOK
<1>2. /\ Gap \in Int /\ LastWaiting \in Int /\ LastWaiting >= -1
      /\ Gap = -1 => LastWaiting = Pending - 1
      /\ Gap # -1 => LastWaiting = Pending /\ Gap \in 0 .. Pending
  BY <1>1 DEF Gap, LastWaiting, Entries
<1>3. /\ WaitingPlaces = (0 .. LastWaiting) \ {Gap}
      /\ \A i \in WaitingPlaces : queue[i] = Nth(IF Gap # -1 /\ Gap < i THEN i ELSE i + 1)
  BY WaitingAre
<1>4. Cardinality(WaitingPlaces) = Pending
  BY <1>1, <1>2, <1>3, CountGap
<1>5. \A i \in WaitingPlaces : Rank(i) = IF Gap # -1 /\ Gap < i THEN i ELSE i + 1
  <2> TAKE i \in WaitingPlaces
  <2>1. i \in Int /\ i >= 0 /\ i <= LastWaiting /\ i # Gap
    BY <1>2, <1>3
  <2>2. {j \in WaitingPlaces : j <= i} = (0 .. i) \ {Gap}
    BY <1>2, <1>3, <2>1
  <2>3. Rank(i) = IF Gap \in 0 .. i THEN i ELSE i + 1
    BY <1>2, <2>1, <2>2, CountGap DEF Rank
  <2> QED  BY <1>2, <2>1, <2>3
<1>6. \A n \in 1 .. Pending : \E i \in WaitingPlaces : Rank(i) = n
  <2> TAKE n \in 1 .. Pending
  <2>1. CASE Gap # -1 /\ Gap < n
    <3>1. n \in WaitingPlaces
      BY <1>1, <1>2, <1>3, <2>1
    <3> QED  BY <1>5, <2>1, <3>1
  <2>2. CASE ~(Gap # -1 /\ Gap < n)
    <3>1. n - 1 \in WaitingPlaces
      BY <1>1, <1>2, <1>3, <2>2
    <3> QED  BY <1>1, <1>2, <1>5, <2>2, <3>1
  <2> QED  BY <2>1, <2>2
<1>7. \A i \in WaitingPlaces : queue[i] = Nth(Rank(i))
  BY <1>3, <1>5
<1>8. \A n \in 1 .. Pending :
        queue[CHOOSE i \in WaitingPlaces : Rank(i) = n] = Nth(n)
  BY <1>6, <1>7
<1> QED  BY <1>4, <1>8 DEF Waiting

LEMMA OrderImplies == TypeOK /\ Order => InOrderAndWhole
<1> SUFFICES ASSUME TypeOK, Lineup
             PROVE  executed \o Waiting = [n \in DOMAIN accepted |-> Whole(accepted[n])]
  BY DEF Order, InOrderAndWhole
<1>1. /\ Len(accepted) \in Nat /\ DOMAIN accepted = 1 .. Len(accepted)
      /\ Len(executed) \in Nat /\ executed \in Seq(Entry)
      /\ Len(accepted) = Len(executed) + Pending /\ Pending \in Nat
  BY Lengths DEF TypeOK, Lineup, Ran, Pending
<1>2. Waiting = [n \in 1 .. Pending |-> Nth(n)]
  BY WaitingIsPending
<1>3. Len(Waiting) = Pending
  BY <1>1, <1>2
<1>4. executed \o Waiting =
        [n \in 1 .. Len(executed) + Pending |->
            IF n <= Len(executed) THEN executed[n] ELSE Waiting[n - Len(executed)]]
  BY <1>1, <1>2, <1>3
<1>5. \A n \in 1 .. Len(accepted) :
        (IF n <= Len(executed) THEN executed[n] ELSE Waiting[n - Len(executed)])
            = Whole(accepted[n])
  <2> TAKE n \in 1 .. Len(accepted)
  <2>1. CASE n <= Len(executed)
    BY <1>1, <2>1 DEF Lineup, Ran
  <2>2. CASE ~(n <= Len(executed))
    <3>1. n - Len(executed) \in 1 .. Pending
      BY <1>1, <2>2
    <3>2. Len(executed) + (n - Len(executed)) = n
      BY <1>1
    <3> QED  BY <1>2, <2>2, <3>1, <3>2 DEF Nth
  <2> QED  BY <2>1, <2>2
<1> QED  BY <1>1, <1>4, <1>5

(* For any number of threads and entries: as long as no two threads have   *)
(* been in i2c_command_queuing at the same time, hwTask runs the commands  *)
(* that set_i2c_command_queue accepted in the order they were accepted,    *)
(* each with its own address and data, and those not yet run are in the    *)
(* queue in that order.                                                    *)
THEOREM InOrderAlways == Spec => []InOrderAndWhole
<1>1. Inv /\ Order => InOrderAndWhole
  BY OrderImplies DEF Inv
<1> QED  BY InvInit, InvStep, OrderInit, OrderStep, <1>1, PTL DEF Spec
==============================================================================
