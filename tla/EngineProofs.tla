---------------------------- MODULE EngineProofs ----------------------------
(* Proofs about Engine: its types, the exclusive claim, sealing once, the   *)
(* session life cycle it implements, the worker pool, and that an entry     *)
(* into a step is dispatched once and held until its session moves on.      *)
EXTENDS Engine, FiniteSetTheorems, SequenceTheorems, TLAPS

(* A live session is alone on its task, and the scanner does not let go of *)
(* a task it found free until it claims it: nobody else creates sessions.  *)
ClaimInv ==
    /\ OneLiveSession
    /\ scan.pc \in {"fresh", "create", "parkView", "parkWrite"} => ~HasLive(scan.task)

(* How far a runtime got and what its settler has still to write agree     *)
(* with its meta: what is not yet sealed is live.                          *)
RuntimeInv ==
    \A s \in Session :
        /\ fin[s] \in Settling => Live(s)
        /\ fin[s] = "commit" => outcome[s] = "done"
        /\ fin[s] \in {"view", "park"} => outcome[s] # "done"
        /\ fin[s] \in Settling /\ outcome[s] = "done" => meta[s] = "running"
        /\ run[s] \in {"queued", "claim"} /\ fin[s] = "no" => meta[s] = "queued"
        /\ run[s] = "on" /\ fin[s] = "no" => meta[s] = "running"
        /\ run[s] \in {"await", "back", "out"} => fin[s] # "no"
        /\ (abort[s] = "hook" \/ transit[s] # NoStep) /\ fin[s] = "no" => run[s] = "on"
        /\ run[s] = "none" => fin[s] = "no" /\ abort[s] = "no" /\ transit[s] = NoStep
        /\ meta[s] = "none" => run[s] = "none"

(* The queue holds waiting runtimes, each once. *)
QueueInv ==
    /\ \A i \in 1..Len(queue) : run[queue[i]] = "queued"
    /\ \A i, j \in 1..Len(queue) : queue[i] = queue[j] => i = j

(* A session recovery has still to reap has no runtime, and nothing runs   *)
(* while the process is down.                                              *)
RestInv ==
    /\ \A s \in rec.todo : Live(s) /\ run[s] = "none"
    /\ ~up => /\ scan.pc = "idle" /\ rec.pc = "no"
              /\ \A s \in Session : run[s] = "none"

Inv == TypeOK /\ ClaimInv /\ RuntimeInv /\ QueueInv /\ RestInv

LEMMA PumpShape ==
    ASSUME queue \in Seq(Session), NEW busy \in Int,
           NEW base \in [Session -> RunPc], Pump(busy, base)
    PROVE  /\ queue' \in Seq(Session)
           /\ active' \in Int
           /\ run' \in [Session -> RunPc]
           /\ \E n \in 0..Len(queue) :
                  /\ Len(queue') = Len(queue) - n
                  /\ \A i \in 1..Len(queue') : queue'[i] = queue[n + i]
                  /\ \A s \in Session :
                         run'[s] = IF s \notin {queue[j] : j \in 1..n} THEN base[s]
                                   ELSE IF Settled(s) THEN "out" ELSE "claim"
<1> DEFINE S == {i \in 1..Len(queue) :
                     ~stopped /\ ~PoolFull(busy + Cardinality(Unsettled(i - 1)))}
           n == Cardinality(S)
<1>1. Len(queue) \in Nat
  BY LenProperties
<1>2. IsFiniteSet(1..Len(queue)) /\ Cardinality(1..Len(queue)) = Len(queue)
  BY <1>1, FS_Interval
<1>3. n \in 0..Len(queue)
  <2>1. S \subseteq 1..Len(queue)
    OBVIOUS
  <2>2. IsFiniteSet(S) /\ n <= Len(queue)
    BY <1>2, <2>1, FS_Subset
  <2>3. n \in Nat
    BY <2>2, FS_CardinalityType
  <2> QED
    BY <2>2, <2>3, <1>1
<1> HIDE DEF S, n
<1>4. n = TakenBy(busy)
  BY DEF TakenBy, S, n
<1>5. /\ queue' = SubSeq(queue, n + 1, Len(queue))
      /\ active' = busy + Cardinality(Unsettled(n))
      /\ run' = [s \in Session |->
                    IF s \notin {queue[j] : j \in 1..n} THEN base[s]
                    ELSE IF Settled(s) THEN "out" ELSE "claim"]
  BY <1>4 DEF Pump, DropTaken
<1>6. \A i \in (n + 1)..Len(queue) : queue[i] \in Session
  BY <1>1, <1>3, ElementOfSeq
<1>7. /\ queue' \in Seq(Session)
      /\ Len(queue') = IF n + 1 <= Len(queue) THEN Len(queue) - (n + 1) + 1 ELSE 0
      /\ \A i \in 1..(Len(queue) - (n + 1) + 1) : queue'[i] = queue[(n + 1) + i - 1]
  <2>1. n + 1 \in Int /\ Len(queue) \in Int
    BY <1>1, <1>3
  <2> QED
    BY <2>1, <1>5, <1>6, SubSeqProperties
<1>8. Len(queue') = Len(queue) - n
  BY <1>1, <1>3, <1>7
<1>9. \A i \in 1..Len(queue') : queue'[i] = queue[n + i]
  BY <1>1, <1>3, <1>7, <1>8
<1>10. active' \in Int
  <2>1. IsFiniteSet(1..n)
    BY <1>3, FS_Interval
  <2>2. IsFiniteSet(Unsettled(n))
    BY <2>1, FS_Subset DEF Unsettled
  <2> QED
    BY <2>2, <1>5, FS_CardinalityType
<1>11. run' \in [Session -> RunPc]
  BY <1>5 DEF RunPc
<1> QED
  BY <1>3, <1>5, <1>7, <1>8, <1>9, <1>10, <1>11

(* A part of the invariant survives a step that leaves its variables alone. *)
LEMMA Frame ==
    /\ TasksOK /\ UNCHANGED <<status, step, visits>> => TasksOK'
    /\ SessionsOK /\ UNCHANGED <<meta, owner, at, claim>> => SessionsOK'
    /\ ProcessOK /\ UNCHANGED <<up, stopped, known, crashes, faults, reloads>> => ProcessOK'
    /\ PoolOK /\ UNCHANGED <<queue, active>> => PoolOK'
    /\ ScanOK /\ UNCHANGED <<scan>> => ScanOK'
    /\ RecoveryOK /\ UNCHANGED <<rec>> => RecoveryOK'
    /\ RuntimesOK /\ UNCHANGED <<run, wf, transit, abort, fin, outcome, target>> => RuntimesOK'
    /\ RequestsOK /\ UNCHANGED <<req>> => RequestsOK'
    /\ ClaimInv /\ UNCHANGED <<meta, owner, scan>> => ClaimInv'
    /\ RuntimeInv /\ UNCHANGED <<meta, run, transit, abort, fin, outcome>> => RuntimeInv'
    /\ QueueInv /\ UNCHANGED <<queue, run>> => QueueInv'
    /\ RestInv /\ UNCHANGED <<meta, run, rec, up, scan>> => RestInv'
<1>1. TasksOK /\ UNCHANGED <<status, step, visits>> => TasksOK'
  BY DEF TasksOK, TaskStatus, EndStatus
<1>2. SessionsOK /\ UNCHANGED <<meta, owner, at, claim>> => SessionsOK'
  BY DEF SessionsOK, LiveStatus, Terminal
<1>3. ProcessOK /\ UNCHANGED <<up, stopped, known, crashes, faults, reloads>> => ProcessOK'
  BY DEF ProcessOK
<1>4. PoolOK /\ UNCHANGED <<queue, active>> => PoolOK'
  BY DEF PoolOK
<1>5. ScanOK /\ UNCHANGED <<scan>> => ScanOK'
  BY DEF ScanOK, ScanPc
<1>6. RecoveryOK /\ UNCHANGED <<rec>> => RecoveryOK'
  BY DEF RecoveryOK, RecoveryPc
<1>7. RuntimesOK /\ UNCHANGED <<run, wf, transit, abort, fin, outcome, target>> => RuntimesOK'
  BY DEF RuntimesOK, RunPc, Settling, Terminal
<1>8. RequestsOK /\ UNCHANGED <<req>> => RequestsOK'
  BY DEF RequestsOK, RequestPc, TaskStatus
<1>9. ClaimInv /\ UNCHANGED <<meta, owner, scan>> => ClaimInv'
  BY DEF ClaimInv, OneLiveSession, HasLive, Live, LiveStatus
<1>10. RuntimeInv /\ UNCHANGED <<meta, run, transit, abort, fin, outcome>> => RuntimeInv'
  BY DEF RuntimeInv, Live, LiveStatus, Settling
<1>11. QueueInv /\ UNCHANGED <<queue, run>> => QueueInv'
  BY DEF QueueInv
<1>12. RestInv /\ UNCHANGED <<meta, run, rec, up, scan>> => RestInv'
  BY DEF RestInv, Live, LiveStatus
<1> QED
  BY <1>1, <1>2, <1>3, <1>4, <1>5, <1>6, <1>7, <1>8, <1>9, <1>10, <1>11, <1>12

(* What pump does to runtimes at base when no waiting runtime is in base    *)
(* anywhere but in the queue: it only moves waiting runtimes, and leaves    *)
(* the queue as good as it was.                                             *)
PumpEffect(base) ==
    /\ queue' \in Seq(Session) /\ active' \in Int
    /\ run' \in [Session -> RunPc]
    /\ \A s \in Session :
           \/ run'[s] = base[s]
           \/ /\ base[s] = "queued"
              /\ run'[s] = IF Settled(s) THEN "out" ELSE "claim"
    /\ \A i \in 1..Len(queue') : run'[queue'[i]] = "queued"
    /\ \A i, j \in 1..Len(queue') : queue'[i] = queue'[j] => i = j

LEMMA PumpStep ==
    ASSUME queue \in Seq(Session), NEW busy \in Int,
           NEW base \in [Session -> RunPc], Pump(busy, base),
           \A i \in 1..Len(queue) : base[queue[i]] = "queued",
           \A i, j \in 1..Len(queue) : queue[i] = queue[j] => i = j
    PROVE  PumpEffect(base)
<1>1. PICK n \in 0..Len(queue) :
          /\ Len(queue') = Len(queue) - n
          /\ \A i \in 1..Len(queue') : queue'[i] = queue[n + i]
          /\ \A s \in Session :
                 run'[s] = IF s \notin {queue[j] : j \in 1..n} THEN base[s]
                           ELSE IF Settled(s) THEN "out" ELSE "claim"
  BY PumpShape
<1>2. queue' \in Seq(Session) /\ active' \in Int /\ run' \in [Session -> RunPc]
  BY PumpShape
<1>3. Len(queue) \in Nat /\ Len(queue') \in Nat
  BY <1>2, LenProperties
<1>4. \A s \in Session : \/ run'[s] = base[s]
                         \/ /\ base[s] = "queued"
                            /\ run'[s] = IF Settled(s) THEN "out" ELSE "claim"
  <2> SUFFICES ASSUME NEW s \in Session, s \in {queue[j] : j \in 1..n}
               PROVE  base[s] = "queued"
    BY <1>1
  <2> QED
    BY <1>1, <1>3
<1>5. ASSUME NEW i \in 1..Len(queue')
      PROVE  /\ n + i \in 1..Len(queue) /\ queue'[i] = queue[n + i]
             /\ queue[n + i] \in Session
             /\ queue[n + i] \notin {queue[j] : j \in 1..n}
  <2>1. n + i \in 1..Len(queue) /\ queue'[i] = queue[n + i]
    BY <1>1, <1>3
  <2>2. ASSUME NEW j \in 1..n PROVE queue[n + i] # queue[j]
    BY <1>1, <1>3, <2>1
  <2> QED
    BY <2>1, <2>2, <1>3, ElementOfSeq
<1>6. \A i \in 1..Len(queue') : run'[queue'[i]] = "queued"
  BY <1>1, <1>5
<1>7. \A i, j \in 1..Len(queue') : queue'[i] = queue'[j] => i = j
  BY <1>1, <1>3, <1>5
<1> QED
  BY <1>2, <1>4, <1>6, <1>7 DEF PumpEffect

LEMMA InvStep ==
    Inv /\ [Next]_vars => Inv'
<1> SUFFICES ASSUME TasksOK, SessionsOK, ProcessOK, PoolOK, ScanOK, RecoveryOK,
                    RuntimesOK, RequestsOK, ClaimInv, RuntimeInv, QueueInv,
                    RestInv, [Next]_vars
             PROVE  Inv'
  BY DEF Inv, TypeOK
<1> USE DEF taskVars, metaVars, poolVars, rtVars, TaskOrNone, StepOrNone,
            LiveStatus
<1>1. ASSUME ScanList PROVE Inv'
  <2>1. TasksOK' /\ SessionsOK' /\ PoolOK' /\ RecoveryOK' /\ RuntimesOK' /\
       RequestsOK' /\ RuntimeInv' /\ QueueInv'
    BY <1>1, Frame DEF ScanList
  <2>2. ProcessOK'
    BY <1>1 DEF ScanList, Fault, ProcessOK
  <2>3. ScanOK'
    BY <1>1 DEF ScanList, Fault, ScanOK, ScanPc
  <2>4. ClaimInv'
    BY <1>1 DEF ScanList, Fault, ClaimInv, OneLiveSession, HasLive, Live,
                LiveStatus, ScanOK, ScanPc
  <2>5. RestInv'
    BY <1>1 DEF ScanList, Fault, RestInv, Live, LiveStatus
  <2> QED
    BY <2>1, <2>2, <2>3, <2>4, <2>5 DEF Inv, TypeOK
<1>2. ASSUME NEW t \in Task, ScanRow(t) PROVE Inv'
  <2>1. TasksOK' /\ SessionsOK' /\ ProcessOK' /\ PoolOK' /\ RecoveryOK' /\
       RuntimesOK' /\ RequestsOK' /\ RuntimeInv' /\ QueueInv'
    BY <1>2, Frame DEF ScanRow
  <2>2. ScanOK'
    BY <1>2 DEF ScanRow, ScanOK, ScanPc
  <2>3. ClaimInv'
    BY <1>2 DEF ScanRow, ClaimInv, OneLiveSession, HasLive, Live, LiveStatus
  <2>4. RestInv'
    BY <1>2 DEF ScanRow, RestInv, Live, LiveStatus
  <2> QED
    BY <2>1, <2>2, <2>3, <2>4 DEF Inv, TypeOK
<1>3. ASSUME DispatchRow PROVE Inv'
  <2>1. TasksOK' /\ SessionsOK' /\ ProcessOK' /\ PoolOK' /\ RecoveryOK' /\
       RuntimesOK' /\ RequestsOK' /\ RuntimeInv' /\ QueueInv'
    BY <1>3, Frame DEF DispatchRow
  <2>2. ScanOK'
    BY <1>3 DEF DispatchRow, NextRow, ScanOK, ScanPc, TasksOK, TaskStatus,
                EndStatus
  <2>3. ClaimInv'
    BY <1>3 DEF DispatchRow, NextRow, ClaimInv, OneLiveSession, HasLive, Live,
                LiveStatus, ScanOK, ScanPc
  <2>4. RestInv'
    BY <1>3 DEF DispatchRow, NextRow, RestInv, Live, LiveStatus
  <2> QED
    BY <2>1, <2>2, <2>3, <2>4 DEF Inv, TypeOK
<1>4. ASSUME NEW s \in Session, DispatchCreate(s) PROVE Inv'
  <2>1. TasksOK' /\ ProcessOK' /\ RecoveryOK' /\ RequestsOK'
    BY <1>4, Frame DEF DispatchCreate
  <2>2. SessionsOK'
    BY <1>4 DEF DispatchCreate, NextRow, SessionsOK, LiveStatus, Terminal,
                ScanOK, ScanPc, TasksOK, TaskStatus, EndStatus
  <2>3. PoolOK'
    BY <1>4 DEF DispatchCreate, NextRow, PoolOK
  <2>4. ScanOK'
    BY <1>4 DEF DispatchCreate, NextRow, ScanOK, ScanPc
  <2>5. RuntimesOK'
    BY <1>4 DEF DispatchCreate, NextRow, RuntimesOK, RunPc, Settling, Terminal,
                Target, ProcessOK
  <2>6. ClaimInv'
    BY <1>4 DEF DispatchCreate, NextRow, ClaimInv, OneLiveSession, HasLive,
                Live, LiveStatus, SessionsOK, Terminal, ScanOK, ScanPc
  <2>7. RuntimeInv'
    BY <1>4 DEF DispatchCreate, NextRow, RuntimeInv, Live, LiveStatus,
                Settling, SessionsOK, Terminal, RuntimesOK, RunPc, Target
  <2>8. QueueInv'
    BY <1>4 DEF DispatchCreate, NextRow, QueueInv, PoolOK, RuntimeInv, Live,
                LiveStatus, Settling, RuntimesOK, RunPc, Terminal, Target
  <2>9. RestInv'
    BY <1>4 DEF DispatchCreate, NextRow, RestInv, Live, LiveStatus, SessionsOK,
                Terminal, RuntimesOK, RunPc, Settling, Target
  <2> QED
    BY <2>1, <2>2, <2>3, <2>4, <2>5, <2>6, <2>7, <2>8, <2>9 DEF Inv, TypeOK
<1>5. ASSUME DispatchFails PROVE Inv'
  <2>1. SessionsOK' /\ PoolOK' /\ RecoveryOK' /\ RuntimesOK' /\ RequestsOK' /\
       RuntimeInv' /\ QueueInv'
    BY <1>5, Frame DEF DispatchFails
  <2>2. TasksOK'
    BY <1>5, ConstantsAssumption DEF DispatchFails, ParkTask, SetPosition,
                                     Fault, IdleScan, TasksOK, TaskStatus,
                                     EndStatus, ScanOK, ScanPc
  <2>3. ProcessOK'
    BY <1>5 DEF DispatchFails, ParkTask, SetPosition, Fault, IdleScan,
                ProcessOK
  <2>4. ScanOK'
    BY <1>5 DEF DispatchFails, ParkTask, SetPosition, Fault, IdleScan, ScanOK,
                ScanPc
  <2>5. ClaimInv'
    BY <1>5 DEF DispatchFails, ParkTask, SetPosition, Fault, IdleScan,
                ClaimInv, OneLiveSession, HasLive, Live, LiveStatus
  <2>6. RestInv'
    BY <1>5 DEF DispatchFails, ParkTask, SetPosition, Fault, IdleScan, RestInv,
                Live, LiveStatus
  <2> QED
    BY <2>1, <2>2, <2>3, <2>4, <2>5, <2>6 DEF Inv, TypeOK
<1>6. ASSUME DispatchParkView PROVE Inv'
  <2>1. TasksOK' /\ SessionsOK' /\ ProcessOK' /\ PoolOK' /\ RecoveryOK' /\
       RuntimesOK' /\ RequestsOK' /\ RuntimeInv' /\ QueueInv'
    BY <1>6, Frame DEF DispatchParkView
  <2>2. ScanOK'
    BY <1>6 DEF DispatchParkView, ScanOK, ScanPc, TasksOK, TaskStatus,
                EndStatus
  <2>3. ClaimInv'
    BY <1>6 DEF DispatchParkView, ClaimInv, OneLiveSession, HasLive, Live,
                LiveStatus
  <2>4. RestInv'
    BY <1>6 DEF DispatchParkView, RestInv, Live, LiveStatus
  <2> QED
    BY <2>1, <2>2, <2>3, <2>4 DEF Inv, TypeOK
<1>7. ASSUME DispatchPark PROVE Inv'
  <2>1. SessionsOK' /\ ProcessOK' /\ PoolOK' /\ RecoveryOK' /\ RuntimesOK' /\
       RequestsOK' /\ RuntimeInv' /\ QueueInv'
    BY <1>7, Frame DEF DispatchPark
  <2>2. TasksOK'
    BY <1>7, ConstantsAssumption DEF DispatchPark, ParkTask, SetPosition,
                                     NextRow, TasksOK, TaskStatus, EndStatus,
                                     ScanOK, ScanPc
  <2>3. ScanOK'
    BY <1>7 DEF DispatchPark, ParkTask, SetPosition, NextRow, ScanOK, ScanPc
  <2>4. ClaimInv'
    BY <1>7 DEF DispatchPark, ParkTask, SetPosition, NextRow, ClaimInv,
                OneLiveSession, HasLive, Live, LiveStatus
  <2>5. RestInv'
    BY <1>7 DEF DispatchPark, ParkTask, SetPosition, NextRow, RestInv, Live,
                LiveStatus
  <2> QED
    BY <2>1, <2>2, <2>3, <2>4, <2>5 DEF Inv, TypeOK
<1>8. ASSUME ScanEnd PROVE Inv'
  <2>1. TasksOK' /\ SessionsOK' /\ ProcessOK' /\ RecoveryOK' /\ RequestsOK'
    BY <1>8, Frame DEF ScanEnd
  <2>2. PumpEffect(run)
    BY <1>8, PumpStep DEF ScanEnd, RuntimesOK, PoolOK, QueueInv
  <2>3. PoolOK'
    BY <2>2 DEF PumpEffect, PoolOK
  <2>4. ScanOK'
    BY <1>8 DEF ScanEnd, IdleScan, ScanOK, ScanPc
  <2>5. RuntimesOK'
    BY <1>8, <2>2 DEF ScanEnd, PumpEffect, RuntimesOK, Settling
  <2>6. ClaimInv'
    BY <1>8 DEF ScanEnd, IdleScan, ClaimInv, OneLiveSession, HasLive, Live
  <2>7. RuntimeInv'
    BY <1>8, <2>2 DEF ScanEnd, PumpEffect, RuntimeInv, Live, Settled, Settling
  <2>8. QueueInv'
    BY <2>2 DEF PumpEffect, QueueInv
  <2>9. RestInv'
    <3>1. \A r \in Session : run[r] = "none" => run'[r] = "none"
      BY <1>8, <2>2 DEF ScanEnd, PumpEffect, RuntimesOK
    <3> QED
      BY <1>8, <3>1 DEF ScanEnd, IdleScan, RestInv, Live, RecoveryOK, ScanOK
  <2> QED
    BY <2>1, <2>3, <2>4, <2>5, <2>6, <2>7, <2>8, <2>9 DEF Inv, TypeOK
<1>9. ASSUME Rescan PROVE Inv'
  <2>1. TasksOK' /\ SessionsOK' /\ ProcessOK' /\ PoolOK' /\ RecoveryOK' /\
       RuntimesOK' /\ RequestsOK' /\ RuntimeInv' /\ QueueInv'
    BY <1>9, Frame DEF Rescan
  <2>2. ScanOK'
    BY <1>9 DEF Rescan, Kick, Kicked, ScanOK, ScanPc
  <2>3. ClaimInv'
    BY <1>9 DEF Rescan, Kick, Kicked, ClaimInv, OneLiveSession, HasLive, Live,
                LiveStatus
  <2>4. RestInv'
    BY <1>9 DEF Rescan, Kick, Kicked, RestInv, Live, LiveStatus
  <2> QED
    BY <2>1, <2>2, <2>3, <2>4 DEF Inv, TypeOK
<1>10. ASSUME NEW s \in Session, FinCommit(s) PROVE Inv'
  <2>1. SessionsOK' /\ PoolOK' /\ ScanOK' /\ RecoveryOK' /\ RequestsOK' /\
       ClaimInv' /\ QueueInv' /\ RestInv'
    BY <1>10, Frame DEF FinCommit
  <2>2. TasksOK'
    BY <1>10, ConstantsAssumption DEF FinCommit, SetPosition, Fault,
                                      PositionFor, TasksOK, TaskStatus,
                                      EndStatus, SessionsOK, LiveStatus,
                                      Terminal, RuntimesOK, RunPc, Settling,
                                      Target
  <2>3. ProcessOK'
    BY <1>10 DEF FinCommit, SetPosition, Fault, ProcessOK
  <2>4. RuntimesOK'
    BY <1>10 DEF FinCommit, SetPosition, Fault, RuntimesOK, RunPc, Settling,
                 Terminal, Target
  <2>5. RuntimeInv'
    BY <1>10 DEF FinCommit, SetPosition, Fault, RuntimeInv, Live, LiveStatus,
                 Settling, RuntimesOK, RunPc, Terminal, Target
  <2> QED
    BY <2>1, <2>2, <2>3, <2>4, <2>5 DEF Inv, TypeOK
<1>11. ASSUME NEW s \in Session, FinView(s) PROVE Inv'
  <2>1. TasksOK' /\ SessionsOK' /\ PoolOK' /\ ScanOK' /\ RecoveryOK' /\
       RequestsOK' /\ ClaimInv' /\ QueueInv' /\ RestInv'
    BY <1>11, Frame DEF FinView
  <2>2. ProcessOK'
    BY <1>11 DEF FinView, Fault, ProcessOK
  <2>3. RuntimesOK'
    BY <1>11 DEF FinView, Fault, Live, LiveStatus, RuntimesOK, RunPc, Settling,
                 Terminal, Target, TasksOK, TaskStatus, EndStatus, SessionsOK,
                 RuntimeInv
  <2>4. RuntimeInv'
    BY <1>11 DEF FinView, Fault, RuntimeInv, Live, LiveStatus, Settling,
                 RuntimesOK, RunPc, Terminal, Target
  <2> QED
    BY <2>1, <2>2, <2>3, <2>4 DEF Inv, TypeOK
<1>12. ASSUME NEW s \in Session, FinPark(s) PROVE Inv'
  <2>1. SessionsOK' /\ PoolOK' /\ ScanOK' /\ RecoveryOK' /\ RequestsOK' /\
       ClaimInv' /\ QueueInv' /\ RestInv'
    BY <1>12, Frame DEF FinPark
  <2>2. TasksOK'
    BY <1>12, ConstantsAssumption DEF FinPark, ParkTask, SetPosition, Fault,
                                      TasksOK, TaskStatus, EndStatus,
                                      RuntimesOK, RunPc, Settling, Terminal,
                                      Target
  <2>3. ProcessOK'
    BY <1>12 DEF FinPark, ParkTask, SetPosition, Fault, ProcessOK
  <2>4. RuntimesOK'
    BY <1>12 DEF FinPark, ParkTask, SetPosition, Fault, RuntimesOK, RunPc,
                 Settling, Terminal, Target
  <2>5. RuntimeInv'
    BY <1>12 DEF FinPark, ParkTask, SetPosition, Fault, RuntimeInv, Live,
                 LiveStatus, Settling, RuntimesOK, RunPc, Terminal, Target
  <2> QED
    BY <2>1, <2>2, <2>3, <2>4, <2>5 DEF Inv, TypeOK
<1>13. ASSUME NEW s \in Session, FinSeal(s) PROVE Inv'
  <2>1. TasksOK' /\ PoolOK' /\ RecoveryOK' /\ RequestsOK' /\ QueueInv'
    BY <1>13, Frame DEF FinSeal
  <2>2. SessionsOK'
    BY <1>13 DEF FinSeal, Seal, Kick, Kicked, Fault, Live, Settling,
                 SessionsOK, LiveStatus, Terminal, RuntimesOK, RunPc, Target,
                 RuntimeInv
  <2>3. ProcessOK'
    BY <1>13 DEF FinSeal, Seal, Kick, Kicked, Fault, ProcessOK
  <2>4. ScanOK'
    BY <1>13 DEF FinSeal, Seal, Kick, Kicked, Fault, ScanOK, ScanPc
  <2>5. RuntimesOK'
    BY <1>13 DEF FinSeal, Seal, Kick, Kicked, Fault, RuntimesOK, RunPc,
                 Settling, Terminal, Target
  <2>6. ClaimInv'
    <3>1. \A r \in Session : Live(r)' => Live(r)
      BY <1>13 DEF FinSeal, Seal, Live, SessionsOK, RuntimesOK, RuntimeInv,
                  Settling, Terminal
    <3>2. scan'.pc \in {"fresh", "create", "parkView", "parkWrite"} =>
              scan.pc = scan'.pc /\ scan'.task = scan.task
      BY <1>13 DEF FinSeal, Kick, Kicked, ScanOK
    <3>3. UNCHANGED owner
      BY <1>13 DEF FinSeal
    <3> QED
      BY <3>1, <3>2, <3>3 DEF ClaimInv, OneLiveSession, HasLive
  <2>7. RuntimeInv'
    BY <1>13 DEF FinSeal, Seal, Kick, Kicked, Fault, RuntimeInv, Live,
                 LiveStatus, Settling, SessionsOK, Terminal, RuntimesOK, RunPc,
                 Target
  <2>8. RestInv'
    BY <1>13 DEF FinSeal, Seal, Kick, Kicked, Fault, RestInv, Live, LiveStatus,
                 SessionsOK, Terminal, RuntimeInv, Settling, RuntimesOK, RunPc,
                 Target, ScanOK, ScanPc, RecoveryOK, RecoveryPc
  <2> QED
    BY <2>1, <2>2, <2>3, <2>4, <2>5, <2>6, <2>7, <2>8 DEF Inv, TypeOK
<1>14. ASSUME NEW s \in Session, NEW to \in Targets, TransitCall(s, to) PROVE
   Inv'
  <2>1. TasksOK' /\ SessionsOK' /\ ProcessOK' /\ PoolOK' /\ ScanOK' /\
       RecoveryOK' /\ RequestsOK' /\ ClaimInv' /\ QueueInv' /\ RestInv'
    BY <1>14, Frame DEF TransitCall
  <2>2. RuntimesOK'
    BY <1>14 DEF TransitCall, RuntimesOK, RunPc, Settling, Terminal, Target
  <2>3. RuntimeInv'
    BY <1>14 DEF TransitCall, Settled, RuntimeInv, Live, LiveStatus, Settling,
                 RuntimesOK, RunPc, Terminal, Target
  <2> QED
    BY <2>1, <2>2, <2>3 DEF Inv, TypeOK
<1>15. ASSUME NEW s \in Session, TransitSettle(s) PROVE Inv'
  <2>1. TasksOK' /\ SessionsOK' /\ ProcessOK' /\ PoolOK' /\ ScanOK' /\
       RecoveryOK' /\ RequestsOK' /\ ClaimInv' /\ QueueInv' /\ RestInv'
    BY <1>15, Frame DEF TransitSettle
  <2>2. RuntimesOK'
    BY <1>15 DEF TransitSettle, Target, RuntimesOK, RunPc, Settling, Terminal
  <2>3. RuntimeInv'
    BY <1>15 DEF TransitSettle, Settled, RuntimeInv, Live, LiveStatus,
                 Settling, RuntimesOK, RunPc, Terminal, Target, SessionsOK
  <2> QED
    BY <2>1, <2>2, <2>3 DEF Inv, TypeOK
<1>16. ASSUME NEW s \in Session, TransitReject(s) PROVE Inv'
  <2>1. TasksOK' /\ SessionsOK' /\ ProcessOK' /\ PoolOK' /\ ScanOK' /\
       RecoveryOK' /\ RequestsOK' /\ ClaimInv' /\ QueueInv' /\ RestInv'
    BY <1>16, Frame DEF TransitReject
  <2>2. RuntimesOK'
    BY <1>16 DEF TransitReject, RuntimesOK, RunPc, Settling, Terminal, Target
  <2>3. RuntimeInv'
    BY <1>16 DEF TransitReject, RuntimeInv, Live, LiveStatus, Settling,
                 RuntimesOK, RunPc, Terminal, Target
  <2> QED
    BY <2>1, <2>2, <2>3 DEF Inv, TypeOK
<1>17. ASSUME NEW s \in Session, OnRunReturns(s) PROVE Inv'
  <2>1. TasksOK' /\ SessionsOK' /\ ProcessOK' /\ PoolOK' /\ ScanOK' /\
       RecoveryOK' /\ RequestsOK' /\ ClaimInv'
    BY <1>17, Frame DEF OnRunReturns
  <2>2. RuntimesOK'
    BY <1>17 DEF OnRunReturns, SettlePark, RuntimesOK, RunPc, Settling,
                 Terminal, Target
  <2>3. RuntimeInv'
    BY <1>17 DEF OnRunReturns, SettlePark, Settled, RuntimeInv, Live,
                 LiveStatus, Settling, RuntimesOK, RunPc, Terminal, Target,
                 SessionsOK
  <2>4. QueueInv'
    BY <1>17 DEF OnRunReturns, SettlePark, QueueInv, RuntimesOK, RunPc,
                 Settling, Terminal, Target, PoolOK
  <2>5. RestInv'
    BY <1>17 DEF OnRunReturns, SettlePark, RestInv, Live, LiveStatus,
                 RuntimesOK, RunPc, Settling, Terminal, Target, RecoveryOK,
                 RecoveryPc
  <2> QED
    BY <2>1, <2>2, <2>3, <2>4, <2>5 DEF Inv, TypeOK
<1>18. ASSUME NEW s \in Session, RunClaim(s) PROVE Inv'
  <2>1. TasksOK' /\ PoolOK' /\ ScanOK' /\ RecoveryOK' /\ RequestsOK'
    BY <1>18, Frame DEF RunClaim
  <2>2. SessionsOK'
    BY <1>18 DEF RunClaim, SettlePark, AfterClaim, Fault, SessionsOK,
                 LiveStatus, Terminal
  <2>3. ProcessOK'
    BY <1>18 DEF RunClaim, SettlePark, AfterClaim, Fault, ProcessOK
  <2>4. RuntimesOK'
    BY <1>18 DEF RunClaim, SettlePark, AfterClaim, Fault, RuntimesOK, RunPc,
                 Settling, Terminal, Target
  <2>5. ClaimInv'
    BY <1>18 DEF RunClaim, SettlePark, AfterClaim, Fault, ClaimInv,
                 OneLiveSession, HasLive, Live, LiveStatus, SessionsOK,
                 Terminal
  <2>6. RuntimeInv'
    BY <1>18 DEF RunClaim, SettlePark, AfterClaim, Fault, Settled, RuntimeInv,
                 Live, LiveStatus, Settling, RuntimesOK, RunPc, Terminal,
                 Target, SessionsOK
  <2>7. QueueInv'
    BY <1>18 DEF RunClaim, SettlePark, AfterClaim, Fault, QueueInv, RuntimesOK,
                 RunPc, Settling, Terminal, Target, PoolOK
  <2>8. RestInv'
    BY <1>18 DEF RunClaim, SettlePark, AfterClaim, Fault, RestInv, Live,
                 LiveStatus, RuntimesOK, RunPc, Settling, Terminal, Target,
                 SessionsOK, RecoveryOK, RecoveryPc
  <2> QED
    BY <2>1, <2>2, <2>3, <2>4, <2>5, <2>6, <2>7, <2>8 DEF Inv, TypeOK
<1>19. ASSUME NEW s \in Session, RunOut(s) PROVE Inv'
  <2>1. TasksOK' /\ SessionsOK' /\ ProcessOK' /\ RecoveryOK' /\ RequestsOK'
    BY <1>19, Frame DEF RunOut
  <2>2. PumpEffect([run EXCEPT ![s] = "out"])
    <3>1. [run EXCEPT ![s] = "out"] \in [Session -> RunPc]
      BY DEF RuntimesOK, RunPc
    <3>2. \A i \in 1..Len(queue) : [run EXCEPT ![s] = "out"][queue[i]] =
       "queued"
      BY <1>19, ElementOfSeq DEF RunOut, RuntimesOK, PoolOK, QueueInv
    <3>3. active - 1 \in Int /\ queue \in Seq(Session)
      BY DEF PoolOK
    <3> QED
      BY <1>19, <3>1, <3>2, <3>3, PumpStep DEF RunOut, QueueInv
  <2>3. PoolOK'
    BY <2>2 DEF PumpEffect, PoolOK
  <2>4. ScanOK'
    BY <1>19 DEF RunOut, Kick, Kicked, ScanOK, ScanPc
  <2>5. RuntimesOK'
    BY <1>19, <2>2 DEF RunOut, PumpEffect, RuntimesOK, Settling
  <2>6. ClaimInv'
    BY <1>19 DEF RunOut, Kick, Kicked, ClaimInv, OneLiveSession, HasLive, Live
  <2>7. RuntimeInv'
    BY <1>19, <2>2 DEF RunOut, PumpEffect, RuntimeInv, Live, Settled, Settling
  <2>8. QueueInv'
    BY <2>2 DEF PumpEffect, QueueInv
  <2>9. RestInv'
    <3>1. \A r \in Session : run[r] = "none" => run'[r] = "none"
      BY <1>19, <2>2 DEF RunOut, PumpEffect, RuntimesOK
    <3> QED
      BY <1>19, <3>1 DEF RunOut, Kick, Kicked, RestInv, Live, RecoveryOK,
                         ScanOK
  <2> QED
    BY <2>1, <2>3, <2>4, <2>5, <2>6, <2>7, <2>8, <2>9 DEF Inv, TypeOK
<1>20. ASSUME NEW s \in Session, AbortCall(s) PROVE Inv'
  <2>1. TasksOK' /\ SessionsOK' /\ ProcessOK' /\ PoolOK' /\ ScanOK' /\
       RecoveryOK' /\ RequestsOK' /\ ClaimInv' /\ QueueInv' /\ RestInv'
    BY <1>20, Frame DEF AbortCall
  <2>2. RuntimesOK'
    BY <1>20 DEF AbortCall, SettlePark, RuntimesOK, RunPc, Settling, Terminal,
                 Target
  <2>3. RuntimeInv'
    BY <1>20 DEF AbortCall, SettlePark, Settled, Registered, RuntimeInv, Live,
                 LiveStatus, Settling, RuntimesOK, RunPc, Terminal, Target,
                 SessionsOK
  <2> QED
    BY <2>1, <2>2, <2>3 DEF Inv, TypeOK
<1>21. ASSUME NEW s \in Session, AbortHookReturns(s) PROVE Inv'
  <2>1. TasksOK' /\ SessionsOK' /\ ProcessOK' /\ PoolOK' /\ ScanOK' /\
       RecoveryOK' /\ RequestsOK' /\ ClaimInv' /\ QueueInv' /\ RestInv'
    BY <1>21, Frame DEF AbortHookReturns
  <2>2. RuntimesOK'
    BY <1>21 DEF AbortHookReturns, SettlePark, RuntimesOK, RunPc, Settling,
                 Terminal, Target
  <2>3. RuntimeInv'
    BY <1>21 DEF AbortHookReturns, SettlePark, Settled, RuntimeInv, Live,
                 LiveStatus, Settling, RuntimesOK, RunPc, Terminal, Target,
                 SessionsOK
  <2> QED
    BY <2>1, <2>2, <2>3 DEF Inv, TypeOK
<1>22. ASSUME NEW c \in Client, NEW t \in Task, NEW to \in Targets, Enroll(c,
   t, to) PROVE Inv'
  <2>1. TasksOK' /\ SessionsOK' /\ ProcessOK' /\ PoolOK' /\ ScanOK' /\
       RecoveryOK' /\ RuntimesOK' /\ ClaimInv' /\ RuntimeInv' /\ QueueInv' /\
       RestInv'
    BY <1>22, Frame DEF Enroll, reqFrame
  <2>2. RequestsOK'
    BY <1>22 DEF Enroll, Request, reqFrame, Target, RequestsOK, RequestPc,
                 TaskStatus, TasksOK, EndStatus, ProcessOK
  <2> QED
    BY <2>1, <2>2 DEF Inv, TypeOK
<1>23. ASSUME NEW c \in Client, NEW t \in Task, NEW to \in Targets, Resume(c,
   t, to) PROVE Inv'
  <2>1. TasksOK' /\ SessionsOK' /\ ProcessOK' /\ PoolOK' /\ ScanOK' /\
       RecoveryOK' /\ RuntimesOK' /\ ClaimInv' /\ RuntimeInv' /\ QueueInv' /\
       RestInv'
    BY <1>23, Frame DEF Resume, reqFrame
  <2>2. RequestsOK'
    BY <1>23, ConstantsAssumption DEF Resume, Request, reqFrame, Target,
                                      RequestsOK, RequestPc, TaskStatus,
                                      TasksOK, EndStatus
  <2> QED
    BY <2>1, <2>2 DEF Inv, TypeOK
<1>24. ASSUME NEW c \in Client, Move(c) PROVE Inv'
  <2>1. SessionsOK' /\ ProcessOK' /\ PoolOK' /\ RecoveryOK' /\ RuntimesOK' /\
       RuntimeInv' /\ QueueInv'
    BY <1>24, Frame DEF Move, reqFrame
  <2>2. TasksOK'
    <3> DEFINE r == req[c]
               pos == PositionFor(r.step, r.to)
    <3>1. r.step \in StepOrNone /\ r.to \in Step \cup EndStatus
      BY <1>24 DEF Move, RequestsOK
    <3>2. pos.status \in TaskStatus /\ pos.step \in StepOrNone
      BY <3>1, ConstantsAssumption DEF PositionFor, TaskStatus, EndStatus
    <3>3. SetPosition(r.task, pos, r.to \in Step)
      BY <1>24 DEF Move
    <3>4. status' = [status EXCEPT ![r.task] = pos.status]
      BY <3>3 DEF SetPosition
    <3>5. step' = [step EXCEPT ![r.task] = pos.step]
      BY <3>3 DEF SetPosition
    <3>6. visits' \in [Task -> Nat]
      <4>1. PICK n : visits' = [visits EXCEPT ![r.task] = n]
                     /\ (n = visits[r.task] + 1 \/ n = visits[r.task])
        BY <3>3 DEF SetPosition
      <4> HIDE DEF r
      <4>2. visits \in [Task -> Nat]
        BY DEF TasksOK
      <4>3. CASE r.task \in Task
        <5>1. n \in Nat
          BY <4>1, <4>2, <4>3
        <5> QED
          BY <4>1, <4>2, <5>1
      <4>4. CASE r.task \notin Task
        BY <4>1, <4>2, <4>4
      <4> QED
        BY <4>3, <4>4
    <3> HIDE DEF r, pos
    <3> QED
      BY <3>2, <3>4, <3>5, <3>6 DEF TasksOK
  <2>3. ScanOK'
    BY <1>24 DEF Move, SetPosition, NoRequest, reqFrame, Kick, Kicked, ScanOK,
                 ScanPc
  <2>4. RequestsOK'
    BY <1>24 DEF Move, SetPosition, NoRequest, reqFrame, Kick, Kicked,
                 RequestsOK, RequestPc, TaskStatus, Target
  <2>5. ClaimInv'
    BY <1>24 DEF Move, SetPosition, NoRequest, reqFrame, Kick, Kicked,
                 ClaimInv, OneLiveSession, HasLive, Live, LiveStatus
  <2>6. RestInv'
    BY <1>24 DEF Move, SetPosition, NoRequest, reqFrame, Kick, Kicked, RestInv,
                 Live, LiveStatus
  <2> QED
    BY <2>1, <2>2, <2>3, <2>4, <2>5, <2>6 DEF Inv, TypeOK
<1>25. ASSUME NEW c \in Client, MoveRejected(c) PROVE Inv'
  <2>1. TasksOK' /\ SessionsOK' /\ ProcessOK' /\ PoolOK' /\ ScanOK' /\
       RecoveryOK' /\ RuntimesOK' /\ ClaimInv' /\ RuntimeInv' /\ QueueInv' /\
       RestInv'
    BY <1>25, Frame DEF MoveRejected, reqFrame
  <2>2. RequestsOK'
    BY <1>25 DEF MoveRejected, NoRequest, reqFrame, RequestsOK, RequestPc,
                 TaskStatus, Target
  <2> QED
    BY <2>1, <2>2 DEF Inv, TypeOK
<1>26. ASSUME NEW c \in Client, NEW t \in Task, NEW e \in {"done", "cancel"},
   Close(c, t, e) PROVE Inv'
  <2>1. TasksOK' /\ SessionsOK' /\ ProcessOK' /\ PoolOK' /\ ScanOK' /\
       RecoveryOK' /\ RuntimesOK' /\ ClaimInv' /\ RuntimeInv' /\ QueueInv' /\
       RestInv'
    BY <1>26, Frame DEF Close, reqFrame
  <2>2. RequestsOK'
    BY <1>26 DEF Close, Request, reqFrame, Target, RequestsOK, RequestPc,
                 TaskStatus, TasksOK, EndStatus
  <2> QED
    BY <2>1, <2>2 DEF Inv, TypeOK
<1>27. ASSUME NEW c \in Client, CloseCheck(c) PROVE Inv'
  <2>1. TasksOK' /\ SessionsOK' /\ ProcessOK' /\ PoolOK' /\ ScanOK' /\
       RecoveryOK' /\ RuntimesOK' /\ ClaimInv' /\ RuntimeInv' /\ QueueInv' /\
       RestInv'
    BY <1>27, Frame DEF CloseCheck, reqFrame
  <2>2. RequestsOK'
    BY <1>27 DEF CloseCheck, NoRequest, reqFrame, RequestsOK, RequestPc,
                 TaskStatus, Target
  <2> QED
    BY <2>1, <2>2 DEF Inv, TypeOK
<1>28. ASSUME NEW c \in Client, CloseWrite(c) PROVE Inv'
  <2>1. SessionsOK' /\ ProcessOK' /\ PoolOK' /\ ScanOK' /\ RecoveryOK' /\
       RuntimesOK' /\ ClaimInv' /\ RuntimeInv' /\ QueueInv' /\ RestInv'
    BY <1>28, Frame DEF CloseWrite, reqFrame
  <2>2. TasksOK'
    BY <1>28, ConstantsAssumption DEF CloseWrite, SetPosition, reqFrame,
                                      TasksOK, TaskStatus, EndStatus,
                                      RequestsOK, RequestPc, Target
  <2>3. RequestsOK'
    BY <1>28 DEF CloseWrite, SetPosition, reqFrame, RequestsOK, RequestPc,
                 TaskStatus, Target
  <2> QED
    BY <2>1, <2>2, <2>3 DEF Inv, TypeOK
<1>29. ASSUME NEW c \in Client, CloseRecheck(c) PROVE Inv'
  <2>1. TasksOK' /\ SessionsOK' /\ ProcessOK' /\ PoolOK' /\ ScanOK' /\
       RecoveryOK' /\ RuntimesOK' /\ ClaimInv' /\ RuntimeInv' /\ QueueInv' /\
       RestInv'
    BY <1>29, Frame DEF CloseRecheck, reqFrame
  <2>2. RequestsOK'
    BY <1>29 DEF CloseRecheck, NoRequest, reqFrame, RequestsOK, RequestPc,
                 TaskStatus, Target
  <2> QED
    BY <2>1, <2>2 DEF Inv, TypeOK
<1>30. ASSUME NEW c \in Client, CloseRollback(c) PROVE Inv'
  <2>1. SessionsOK' /\ ProcessOK' /\ PoolOK' /\ ScanOK' /\ RecoveryOK' /\
       RuntimesOK' /\ ClaimInv' /\ RuntimeInv' /\ QueueInv' /\ RestInv'
    BY <1>30, Frame DEF CloseRollback, reqFrame
  <2>2. TasksOK'
    BY <1>30, ConstantsAssumption DEF CloseRollback, SetPosition, NoRequest,
                                      reqFrame, TasksOK, TaskStatus, EndStatus,
                                      RequestsOK, RequestPc, Target
  <2>3. RequestsOK'
    BY <1>30 DEF CloseRollback, SetPosition, NoRequest, reqFrame, RequestsOK,
                 RequestPc, TaskStatus, Target
  <2> QED
    BY <2>1, <2>2, <2>3 DEF Inv, TypeOK
<1>31. ASSUME NEW c \in Client, NEW t \in Task, Reopen(c, t) PROVE Inv'
  <2>1. TasksOK' /\ SessionsOK' /\ ProcessOK' /\ PoolOK' /\ ScanOK' /\
       RecoveryOK' /\ RuntimesOK' /\ ClaimInv' /\ RuntimeInv' /\ QueueInv' /\
       RestInv'
    BY <1>31, Frame DEF Reopen, reqFrame
  <2>2. RequestsOK'
    BY <1>31 DEF Reopen, Request, reqFrame, Target, RequestsOK, RequestPc,
                 TaskStatus, TasksOK, EndStatus
  <2> QED
    BY <2>1, <2>2 DEF Inv, TypeOK
<1>32. ASSUME NEW c \in Client, ReopenWrite(c) PROVE Inv'
  <2>1. SessionsOK' /\ ProcessOK' /\ PoolOK' /\ ScanOK' /\ RecoveryOK' /\
       RuntimesOK' /\ ClaimInv' /\ RuntimeInv' /\ QueueInv' /\ RestInv'
    BY <1>32, Frame DEF ReopenWrite, reqFrame
  <2>2. TasksOK'
    BY <1>32, ConstantsAssumption DEF ReopenWrite, SetPosition, NoRequest,
                                      reqFrame, TasksOK, TaskStatus, EndStatus,
                                      RequestsOK, RequestPc, Target
  <2>3. RequestsOK'
    BY <1>32 DEF ReopenWrite, SetPosition, NoRequest, reqFrame, RequestsOK,
                 RequestPc, TaskStatus, Target
  <2> QED
    BY <2>1, <2>2, <2>3 DEF Inv, TypeOK
<1>33. ASSUME AddProject PROVE Inv'
  <2>1. TasksOK' /\ SessionsOK' /\ PoolOK' /\ ScanOK' /\ RuntimesOK' /\
       RequestsOK' /\ ClaimInv' /\ RuntimeInv' /\ QueueInv'
    BY <1>33, Frame DEF AddProject
  <2>2. ProcessOK'
    BY <1>33 DEF AddProject, NoRecovery, Orphans, ProcessOK
  <2>3. RecoveryOK'
    BY <1>33 DEF AddProject, NoRecovery, Orphans, RecoveryOK, RecoveryPc
  <2>4. RestInv'
    BY <1>33 DEF AddProject, NoRecovery, Orphans, RestInv, Live, LiveStatus
  <2> QED
    BY <2>1, <2>2, <2>3, <2>4 DEF Inv, TypeOK
<1>34. ASSUME NEW s \in Session, RecoverSeal(s) PROVE Inv'
  <2>1. TasksOK' /\ PoolOK' /\ ScanOK' /\ RuntimesOK' /\ RequestsOK' /\
       QueueInv'
    BY <1>34, Frame DEF RecoverSeal, recFrame
  <2>2. SessionsOK'
    BY <1>34 DEF RecoverSeal, NoRecovery, Fault, recFrame, Live, SessionsOK,
                 LiveStatus, Terminal, RestInv
  <2>3. ProcessOK'
    BY <1>34 DEF RecoverSeal, NoRecovery, Fault, recFrame, ProcessOK
  <2>4. RecoveryOK'
    <3>1. owner[s] \in Task
      BY <1>34 DEF RecoverSeal, RestInv, Live, SessionsOK
    <3>2. CASE rec' = [rec EXCEPT !.pc = "check", !.todo = @ \ {s},
                                  !.task = owner[s]]
      BY <3>1, <3>2 DEF RecoveryOK, RecoveryPc
    <3>3. CASE rec' = [NoRecovery EXCEPT !.pc = "done"]
      BY <3>3 DEF RecoveryOK, RecoveryPc, NoRecovery
    <3> QED
      BY <1>34, <3>2, <3>3 DEF RecoverSeal
  <2>5. ClaimInv'
    BY <1>34 DEF RecoverSeal, NoRecovery, Fault, recFrame, ClaimInv,
                 OneLiveSession, HasLive, Live, LiveStatus, SessionsOK,
                 Terminal
  <2>6. RuntimeInv'
    BY <1>34 DEF RecoverSeal, NoRecovery, Fault, recFrame, RuntimeInv, Live,
                 LiveStatus, Settling, RecoveryOK, RecoveryPc, RestInv,
                 SessionsOK, Terminal
  <2>7. RestInv'
    <3>1. /\ rec'.todo \subseteq rec.todo
          /\ s \in rec'.todo => meta' = meta
          /\ rec'.pc # "no"
      BY <1>34 DEF RecoverSeal, RecoveryOK, NoRecovery
    <3>2. \A r \in Session : Live(r) /\ r # s => Live(r)'
      BY <1>34 DEF RecoverSeal, Live, SessionsOK
    <3>3. rec.todo \subseteq Session /\ up /\ UNCHANGED <<up, run, scan>>
      BY <1>34 DEF RecoverSeal, recFrame, RecoveryOK, RestInv
    <3> QED
      BY <3>1, <3>2, <3>3 DEF RestInv, Live
  <2> QED
    BY <2>1, <2>2, <2>3, <2>4, <2>5, <2>6, <2>7 DEF Inv, TypeOK
<1>35. ASSUME RecoverCheck PROVE Inv'
  <2>1. TasksOK' /\ SessionsOK' /\ ProcessOK' /\ PoolOK' /\ ScanOK' /\
       RuntimesOK' /\ RequestsOK' /\ ClaimInv' /\ RuntimeInv' /\ QueueInv'
    BY <1>35, Frame DEF RecoverCheck, recFrame
  <2>2. RecoveryOK'
    BY <1>35 DEF RecoverCheck, recFrame, RecoveryOK, RecoveryPc
  <2>3. RestInv'
    BY <1>35 DEF RecoverCheck, recFrame, RestInv, Live, LiveStatus
  <2> QED
    BY <2>1, <2>2, <2>3 DEF Inv, TypeOK
<1>36. ASSUME RecoverParkView PROVE Inv'
  <2>1. TasksOK' /\ SessionsOK' /\ ProcessOK' /\ PoolOK' /\ ScanOK' /\
       RuntimesOK' /\ RequestsOK' /\ ClaimInv' /\ RuntimeInv' /\ QueueInv'
    BY <1>36, Frame DEF RecoverParkView, recFrame
  <2>2. RecoveryOK'
    BY <1>36 DEF RecoverParkView, recFrame, RecoveryOK, RecoveryPc, TasksOK,
                 TaskStatus, EndStatus
  <2>3. RestInv'
    BY <1>36 DEF RecoverParkView, recFrame, RestInv, Live, LiveStatus
  <2> QED
    BY <2>1, <2>2, <2>3 DEF Inv, TypeOK
<1>37. ASSUME RecoverPark PROVE Inv'
  <2>1. SessionsOK' /\ PoolOK' /\ ScanOK' /\ RuntimesOK' /\ RequestsOK' /\
       ClaimInv' /\ RuntimeInv' /\ QueueInv'
    BY <1>37, Frame DEF RecoverPark, recFrame
  <2>2. TasksOK'
    BY <1>37, ConstantsAssumption DEF RecoverPark, ParkTask, SetPosition,
                                      NoRecovery, Fault, recFrame, TasksOK,
                                      TaskStatus, EndStatus, RecoveryOK,
                                      RecoveryPc
  <2>3. ProcessOK'
    BY <1>37 DEF RecoverPark, ParkTask, SetPosition, NoRecovery, Fault,
                 recFrame, ProcessOK
  <2>4. RecoveryOK'
    BY <1>37 DEF RecoverPark, ParkTask, SetPosition, NoRecovery, Fault,
                 recFrame, RecoveryOK, RecoveryPc
  <2>5. RestInv'
    BY <1>37 DEF RecoverPark, ParkTask, SetPosition, NoRecovery, Fault,
                 recFrame, RestInv, Live, LiveStatus, RecoveryOK, RecoveryPc
  <2> QED
    BY <2>1, <2>2, <2>3, <2>4, <2>5 DEF Inv, TypeOK
<1>38. ASSUME RecoverEnd PROVE Inv'
  <2>1. TasksOK' /\ SessionsOK' /\ ProcessOK' /\ PoolOK' /\ RuntimesOK' /\
       RequestsOK' /\ RuntimeInv' /\ QueueInv'
    BY <1>38, Frame DEF RecoverEnd, recFrame
  <2>2. ScanOK'
    BY <1>38 DEF RecoverEnd, NoRecovery, recFrame, Kick, Kicked, ScanOK, ScanPc
  <2>3. RecoveryOK'
    BY <1>38 DEF RecoverEnd, NoRecovery, recFrame, Kick, Kicked, RecoveryOK,
                 RecoveryPc
  <2>4. ClaimInv'
    BY <1>38 DEF RecoverEnd, NoRecovery, recFrame, Kick, Kicked, ClaimInv,
                 OneLiveSession, HasLive, Live, LiveStatus
  <2>5. RestInv'
    BY <1>38 DEF RecoverEnd, NoRecovery, recFrame, Kick, Kicked, RestInv, Live,
                 LiveStatus
  <2> QED
    BY <2>1, <2>2, <2>3, <2>4, <2>5 DEF Inv, TypeOK
<1>39. ASSUME NEW k \in SUBSET Step, SetProjectRegistry(k) PROVE Inv'
  <2>1. TasksOK' /\ SessionsOK' /\ PoolOK' /\ RecoveryOK' /\ RuntimesOK' /\
       RequestsOK' /\ RuntimeInv' /\ QueueInv'
    BY <1>39, Frame DEF SetProjectRegistry
  <2>2. ProcessOK'
    BY <1>39 DEF SetProjectRegistry, Kick, Kicked, ProcessOK
  <2>3. ScanOK'
    BY <1>39 DEF SetProjectRegistry, Kick, Kicked, ScanOK, ScanPc
  <2>4. ClaimInv'
    BY <1>39 DEF SetProjectRegistry, Kick, Kicked, ClaimInv, OneLiveSession,
                 HasLive, Live, LiveStatus
  <2>5. RestInv'
    BY <1>39 DEF SetProjectRegistry, Kick, Kicked, RestInv, Live, LiveStatus
  <2> QED
    BY <2>1, <2>2, <2>3, <2>4, <2>5 DEF Inv, TypeOK
<1>40. ASSUME Stop PROVE Inv'
  <2>1. TasksOK' /\ SessionsOK' /\ ScanOK' /\ RecoveryOK' /\ RequestsOK' /\
       ClaimInv' /\ RestInv'
    BY <1>40, Frame DEF Stop
  <2>2. ProcessOK'
    BY <1>40 DEF Stop, ProcessOK
  <2>3. PoolOK'
    BY <1>40 DEF Stop, PoolOK
  <2>4. RuntimesOK'
    BY <1>40 DEF Stop, RuntimesOK, RunPc, Settling, Terminal, Target
  <2>5. RuntimeInv'
    BY <1>40 DEF Stop, Settled, Registered, RuntimeInv, Live, LiveStatus,
                 Settling, RuntimesOK, RunPc, Terminal, Target
  <2>6. QueueInv'
    BY <1>40 DEF Stop, QueueInv
  <2> QED
    BY <2>1, <2>2, <2>3, <2>4, <2>5, <2>6 DEF Inv, TypeOK
<1>41. ASSUME Crash PROVE Inv'
  <2>1. TasksOK' /\ SessionsOK'
    BY <1>41, Frame DEF Crash
  <2>2. ProcessOK'
    <3>1. up' = FALSE /\ stopped' = FALSE /\ known' = Step /\ faults' = faults
          /\ reloads' = reloads /\ crashes' = crashes + 1
      BY <1>41 DEF Crash
    <3>2. crashes' \in Nat
      BY <3>1 DEF ProcessOK
    <3> QED
      BY <3>1, <3>2 DEF ProcessOK
  <2>3. PoolOK'
    BY <1>41 DEF Crash, IdleScan, NoRecovery, NoRequest, PoolOK
  <2>4. ScanOK'
    BY <1>41 DEF Crash, IdleScan, NoRecovery, NoRequest, ScanOK, ScanPc
  <2>5. RecoveryOK'
    BY <1>41 DEF Crash, IdleScan, NoRecovery, NoRequest, RecoveryOK, RecoveryPc
  <2>6. RuntimesOK'
    BY <1>41 DEF Crash, IdleScan, NoRecovery, NoRequest, RuntimesOK, RunPc,
                 Settling, Terminal, Target
  <2>7. RequestsOK'
    BY <1>41 DEF Crash, IdleScan, NoRecovery, NoRequest, TaskStatus,
                 RequestsOK, RequestPc, Target
  <2>8. ClaimInv'
    BY <1>41 DEF Crash, IdleScan, NoRecovery, NoRequest, ClaimInv,
                 OneLiveSession, HasLive, Live, LiveStatus
  <2>9. RuntimeInv'
    BY <1>41 DEF Crash, IdleScan, NoRecovery, NoRequest, RuntimeInv, Live,
                 LiveStatus, Settling
  <2>10. QueueInv'
    BY <1>41 DEF Crash, IdleScan, NoRecovery, NoRequest, QueueInv
  <2>11. RestInv'
    BY <1>41 DEF Crash, IdleScan, NoRecovery, NoRequest, RestInv, Live,
                 LiveStatus
  <2> QED
    BY <2>1, <2>2, <2>3, <2>4, <2>5, <2>6, <2>7, <2>8, <2>9, <2>10, <2>11 DEF
       Inv, TypeOK
<1>42. ASSUME UNCHANGED vars PROVE Inv'
  BY <1>42, Frame DEF vars, Inv, TypeOK
<1> HIDE DEF taskVars, metaVars, poolVars, rtVars
<1>43. CASE Scanner
  BY <1>43, <1>1, <1>2, <1>3, <1>4, <1>5, <1>6, <1>7, <1>8 DEF Scanner
<1>44. ASSUME NEW s \in Session, Settler(s) \/ Agent(s) \/ Runtime(s) PROVE Inv'
  BY <1>44, <1>10, <1>11, <1>12, <1>13, <1>14, <1>15, <1>16, <1>17, <1>18,
     <1>19, <1>20, <1>21 DEF Settler, Agent, Runtime
<1>45. CASE Clients
  BY <1>45, <1>22, <1>23, <1>24, <1>25, <1>26, <1>27, <1>28, <1>29, <1>30,
     <1>31, <1>32 DEF Clients
<1>46. CASE Recovery
  BY <1>46, <1>33, <1>34, <1>35, <1>36, <1>37, <1>38 DEF Recovery
<1> QED
  BY <1>9, <1>39, <1>40, <1>41, <1>42, <1>43, <1>44, <1>45, <1>46 DEF Next

(* Nothing but a claim, a start, a seal and recovery touches the metas.     *)
LEMMA MetaFrame ==
    ASSUME Next,
           ~ \E s \in Session : DispatchCreate(s) \/ FinSeal(s) \/ RunClaim(s)
                                \/ RecoverSeal(s)
    PROVE  UNCHANGED <<meta, owner>>
<1> USE DEF metaVars
<1>1. CASE Scanner
  BY <1>1 DEF Scanner, ScanList, ScanRow, DispatchRow, DispatchFails,
              DispatchParkView, DispatchPark, ScanEnd
<1>2. ASSUME NEW s \in Session, Settler(s) PROVE UNCHANGED <<meta, owner>>
  BY <1>2 DEF Settler, FinCommit, FinView, FinPark
<1>3. ASSUME NEW s \in Session, Agent(s) PROVE UNCHANGED <<meta, owner>>
  BY <1>3 DEF Agent, TransitCall, TransitSettle, TransitReject, OnRunReturns
<1>4. ASSUME NEW s \in Session, Runtime(s) PROVE UNCHANGED <<meta, owner>>
  BY <1>4 DEF Runtime, RunOut, AbortCall, AbortHookReturns
<1>5. CASE Clients
  BY <1>5 DEF Clients, reqFrame, Enroll, Resume, Close, Reopen, Move,
              MoveRejected, CloseCheck, CloseWrite, CloseRecheck,
              CloseRollback, ReopenWrite
<1>6. CASE Recovery
  BY <1>6 DEF Recovery, recFrame, AddProject, RecoverCheck, RecoverParkView,
              RecoverPark, RecoverEnd
<1>7. CASE Rescan \/ Stop \/ Crash
           \/ \E steps \in SUBSET Step : SetProjectRegistry(steps)
  BY <1>7 DEF Rescan, Stop, Crash, SetProjectRegistry
<1> QED
  BY <1>1, <1>2, <1>3, <1>4, <1>5, <1>6, <1>7 DEF Next

(* Every step of the engine is a step of the session life cycle, or leaves  *)
(* the session files alone.                                                 *)
LEMMA ClaimsStep ==
    Inv /\ [Next]_vars => [Claims!Next]_<<meta, owner>>
<1> SUFFICES ASSUME SessionsOK, ScanOK, RuntimesOK, ClaimInv, RuntimeInv, RestInv,
                    Next
             PROVE  [Claims!Next]_<<meta, owner>>
  BY DEF Inv, TypeOK, vars, metaVars
<1>1. ASSUME NEW s \in Session, DispatchCreate(s) PROVE Claims!Next
  <2>1. Claims!Claim(s, scan.task)
    BY <1>1 DEF DispatchCreate, ClaimInv, HasLive, Live, LiveStatus,
                Claims!Claim, Claims!Claimed, Claims!Live
  <2>2. scan.task \in Task
    BY <1>1 DEF DispatchCreate, ScanOK
  <2> QED
    BY <2>1, <2>2 DEF Claims!Next
<1>2. ASSUME NEW s \in Session, RunClaim(s) PROVE [Claims!Next]_<<meta, owner>>
  <2>1. Claims!Start(s) \/ UNCHANGED <<meta, owner>>
    BY <1>2 DEF RunClaim, Claims!Start
  <2> QED
    BY <2>1 DEF Claims!Next
<1>3. ASSUME NEW s \in Session, FinSeal(s) PROVE [Claims!Next]_<<meta, owner>>
  <2>1. Live(s) /\ outcome[s] \in Terminal /\ (outcome[s] = "done" => meta[s] = "running")
    BY <1>3 DEF FinSeal, RuntimeInv, RuntimesOK, Settling
  <2>2. CASE UNCHANGED <<meta, owner>>
    BY <2>2
  <2>3. CASE meta' = [meta EXCEPT ![s] = outcome[s]] /\ owner' = owner
    <3>1. CASE outcome[s] = "done"
      BY <2>1, <2>3, <3>1 DEF Claims!Done, Claims!Next
    <3>2. CASE outcome[s] \in {"failed", "aborted"}
      BY <2>1, <2>3, <3>2 DEF Claims!EndEarly, Claims!Next, Claims!Live, Live,
                              LiveStatus
    <3> QED
      BY <2>1, <3>1, <3>2 DEF Terminal
  <2> QED
    BY <1>3, <2>2, <2>3 DEF FinSeal, Seal
<1>4. ASSUME NEW s \in Session, RecoverSeal(s)
      PROVE  [Claims!Next]_<<meta, owner>>
  <2>1. Claims!EndEarly(s, "failed") \/ UNCHANGED <<meta, owner>>
    BY <1>4 DEF RecoverSeal, RestInv, Live, LiveStatus, Claims!EndEarly,
                Claims!Live
  <2> QED
    BY <2>1 DEF Claims!Next
<1> QED
  BY <1>1, <1>2, <1>3, <1>4, MetaFrame

LEMMA InvInit ==
    Init => Inv
<1> SUFFICES ASSUME Init PROVE Inv
  OBVIOUS
<1> USE DEF Init
<1>1. TasksOK
  <2>1. step \in [Task -> StepOrNone]
    BY DEF StepOrNone
  <2>2. status \in [Task -> TaskStatus] /\ visits \in [Task -> Nat]
    BY DEF TaskStatus, EndStatus
  <2> QED
    BY <2>1, <2>2 DEF TasksOK
<1>2. SessionsOK /\ ClaimInv
  BY DEF SessionsOK, LiveStatus, Terminal, TaskOrNone, StepOrNone, ClaimInv,
         OneLiveSession, HasLive, Live, IdleScan
<1>3. ProcessOK
  BY DEF ProcessOK
<1>4. PoolOK
  BY DEF PoolOK
<1>5. ScanOK /\ RecoveryOK
  BY DEF ScanOK, RecoveryOK, IdleScan, NoRecovery, ScanPc, RecoveryPc,
         TaskOrNone, StepOrNone
<1>6. RuntimesOK /\ RuntimeInv
  BY DEF RuntimesOK, RuntimeInv, RunPc, Target, Settling, Terminal, Live, LiveStatus
<1>7. RequestsOK
  BY DEF RequestsOK, RequestPc, NoRequest, TaskStatus, EndStatus, TaskOrNone,
         StepOrNone, Target
<1>8. QueueInv /\ RestInv
  BY DEF QueueInv, RestInv, IdleScan, NoRecovery
<1> QED
  BY <1>1, <1>2, <1>3, <1>4, <1>5, <1>6, <1>7, <1>8 DEF Inv, TypeOK

(* The inductive invariant holds in every reachable state.                  *)
LEMMA Invariant ==
    Spec => []Inv
<1> QED
  BY InvInit, InvStep, PTL DEF Spec

(* The types, and what settlers and requests in flight carry: Engine.TypeOK *)
(* for any tasks, sessions, clients, workflow, pool size and faults.        *)
THEOREM TypeCorrect ==
    Spec => []TypeOK
<1>1. Inv => TypeOK
  BY DEF Inv
<1> QED
  BY <1>1, Invariant, PTL

(* A task never has two live sessions: the session file is the exclusive    *)
(* claim (engine.ts, the module comment), through crashes, failing writes,  *)
(* registry swaps and every client request.                                 *)
THEOREM ExclusiveClaim ==
    Spec => []OneLiveSession
<1>1. Inv => OneLiveSession
  BY DEF Inv, ClaimInv
<1> QED
  BY <1>1, Invariant, PTL

(* The unguarded park in dispatch never takes a task from a live session.   *)
THEOREM ParksFreeTasksOnly ==
    Spec => []ScannerParksNoLiveTask
<1>1. Inv => ScannerParksNoLiveTask
  BY DEF Inv, ClaimInv, ScannerParksNoLiveTask
<1> QED
  BY <1>1, Invariant, PTL

(* A meta that reached a terminal status is never written again: settleOnce *)
(* lets one finaliser through, and recovery and run do not race with it.    *)
THEOREM SealedOnce ==
    Spec => SealedStays
<1>1. Inv /\ [Next]_vars
      => [\A s \in Session : meta[s] \in Terminal => meta'[s] = meta[s]]_vars
  <2> SUFFICES ASSUME Inv, [Next]_vars, NEW s \in Session, meta[s] \in Terminal
               PROVE  meta'[s] = meta[s]
    OBVIOUS
  <2>1. CASE UNCHANGED <<meta, owner>>
    BY <2>1
  <2>2. CASE Claims!Next
    BY <2>2 DEF Inv, TypeOK, SessionsOK, Claims!Next, Claims!Claim, Claims!Start, Claims!Done,
                Claims!EndEarly, Claims!Live, Terminal
  <2> QED
    BY <2>1, <2>2, ClaimsStep
<1> QED
  BY <1>1, Invariant, PTL DEF Spec, SealedStays

(* The engine implements the session life cycle of SessionClaims.           *)
THEOREM Implementation ==
    Spec => ImplementsSessionClaims
<1>1. Init => Claims!Init
  BY DEF Init, Claims!Init
<1> QED
  BY <1>1, ClaimsStep, Invariant, PTL DEF Spec, ImplementsSessionClaims,
                                          Claims!Spec

-----------------------------------------------------------------------------
(* The workers: the runtimes inside runJob when the runtimes are at base.   *)
Jobs(base) == {s \in Session : base[s] \in {"claim", "on", "await", "back"}}

PoolInv ==
    /\ IsFiniteSet(Jobs(run))
    /\ active = Cardinality(Jobs(run))
    /\ active <= Workers

(* pump fills the free slots and no more: the last runtime it takes was     *)
(* taken while a slot was free.                                             *)
LEMMA TakenFit ==
    ASSUME queue \in Seq(Session), NEW busy \in Nat, busy <= Workers, Workers \in Nat
    PROVE  /\ TakenBy(busy) \in 0..Len(queue)
           /\ IsFiniteSet(Unsettled(TakenBy(busy)))
           /\ busy + Cardinality(Unsettled(TakenBy(busy))) <= Workers
<1> DEFINE S == {i \in 1..Len(queue) :
                     ~stopped /\ ~PoolFull(busy + Cardinality(Unsettled(i - 1)))}
           n == Cardinality(S)
<1>1. Len(queue) \in Nat
  BY LenProperties
<1>2. IsFiniteSet(S) /\ n \in Nat /\ n <= Len(queue)
  <2>1. IsFiniteSet(1..Len(queue)) /\ Cardinality(1..Len(queue)) = Len(queue)
    BY <1>1, FS_Interval
  <2>2. S \subseteq 1..Len(queue)
    OBVIOUS
  <2>3. IsFiniteSet(S) /\ n <= Len(queue)
    BY <2>1, <2>2, FS_Subset
  <2> QED
    BY <2>3, FS_CardinalityType
<1>3. ASSUME NEW i \in Int
      PROVE  IsFiniteSet(Unsettled(i)) /\ Cardinality(Unsettled(i)) \in Nat
  <2>1. IsFiniteSet(1..i)
    BY FS_Interval
  <2>2. IsFiniteSet(Unsettled(i))
    BY <2>1, FS_Subset DEF Unsettled
  <2> QED
    BY <2>2, FS_CardinalityType
<1>4. ASSUME NEW i \in S, NEW j \in 1..i PROVE j \in S
  <2>1. Unsettled(j - 1) \subseteq Unsettled(i - 1)
    BY <1>1 DEF Unsettled
  <2>2. i - 1 \in Int /\ j - 1 \in Int /\ j \in 1..Len(queue)
    BY <1>1
  <2>3. /\ IsFiniteSet(Unsettled(i - 1))
        /\ Cardinality(Unsettled(i - 1)) \in Nat
        /\ Cardinality(Unsettled(j - 1)) \in Nat
    BY <2>2, <1>3
  <2>4. Cardinality(Unsettled(j - 1)) <= Cardinality(Unsettled(i - 1))
    BY <2>1, <2>3, FS_Subset
  <2> QED
    BY <2>2, <2>3, <2>4 DEF PoolFull
<1>5. n = TakenBy(busy)
  BY DEF TakenBy
<1> HIDE DEF n
<1>6. n > 0 => n \in S
  <2> SUFFICES ASSUME n > 0, n \notin S PROVE FALSE
    OBVIOUS
  <2>1. S \subseteq 1..(n - 1)
    <3> SUFFICES ASSUME NEW i \in S PROVE i \in 1..(n - 1)
      OBVIOUS
    <3>1. i \in Nat \ {0}
      BY <1>1
    <3>2. ~(i >= n)
      BY <3>1, <1>2, <1>4
    <3> QED
      BY <3>1, <3>2, <1>2
  <2>2. IsFiniteSet(1..(n - 1)) /\ Cardinality(1..(n - 1)) = n - 1
    BY <1>2, FS_Interval
  <2>3. n <= n - 1
    BY <2>1, <2>2, FS_Subset DEF n
  <2> QED
    BY <2>3, <1>2
<1>7. busy + Cardinality(Unsettled(n)) <= Workers
  <2>1. CASE n = 0
    <3>1. Unsettled(n) = {}
      BY <2>1 DEF Unsettled
    <3> QED
      BY <3>1, FS_EmptySet
  <2>2. CASE n > 0
    <3>0. /\ IsFiniteSet(Unsettled(n - 1)) /\ IsFiniteSet(Unsettled(n))
          /\ Cardinality(Unsettled(n - 1)) \in Nat
          /\ Cardinality(Unsettled(n)) \in Nat
      BY <1>2, <1>3
    <3>1. busy + Cardinality(Unsettled(n - 1)) < Workers
      BY <2>2, <3>0, <1>6 DEF PoolFull
    <3>2. Unsettled(n) \subseteq Unsettled(n - 1) \cup {n}
      BY <1>2 DEF Unsettled
    <3>3. Cardinality(Unsettled(n)) <= Cardinality(Unsettled(n - 1) \cup {n})
      <4>1. IsFiniteSet(Unsettled(n - 1) \cup {n})
        BY <3>0, FS_AddElement
      <4> QED
        BY <4>1, <3>2, FS_Subset
    <3>4. Cardinality(Unsettled(n - 1) \cup {n})
              = IF n \in Unsettled(n - 1) THEN Cardinality(Unsettled(n - 1))
                ELSE Cardinality(Unsettled(n - 1)) + 1
      BY <3>0, FS_AddElement
    <3> QED
      BY <3>0, <3>1, <3>3, <3>4, <1>1, <1>2
  <2> QED
    BY <2>1, <2>2, <1>2
<1> QED
  BY <1>1, <1>2, <1>3, <1>5, <1>7

(* pump moves as many runtimes into runJob as it counts.                    *)
LEMMA PumpCounts ==
    ASSUME queue \in Seq(Session), NEW base \in [Session -> RunPc], NEW busy,
           IsFiniteSet(Jobs(base)), busy = Cardinality(Jobs(base)),
           busy <= Workers, Workers \in Nat, Pump(busy, base),
           \A i \in 1..Len(queue) : base[queue[i]] = "queued",
           \A i, j \in 1..Len(queue) : queue[i] = queue[j] => i = j
    PROVE  PoolInv'
<1> DEFINE n == TakenBy(busy)
           new == {queue[j] : j \in Unsettled(n)}
<1>1. busy \in Nat
  BY FS_CardinalityType
<1>2. /\ n \in 0..Len(queue)
      /\ IsFiniteSet(Unsettled(n))
      /\ busy + Cardinality(Unsettled(n)) <= Workers
  BY <1>1, TakenFit
<1>3. /\ active' = busy + Cardinality(Unsettled(n))
      /\ run' = [s \in Session |->
                    IF s \notin {queue[j] : j \in 1..n} THEN base[s]
                    ELSE IF Settled(s) THEN "out" ELSE "claim"]
  BY DEF Pump
<1> HIDE DEF n
<1>4. Len(queue) \in Nat
  BY LenProperties
<1>5. \A i \in 1..Len(queue) : queue[i] \in Session
  BY <1>4, ElementOfSeq
<1>6. Unsettled(n) \subseteq 1..Len(queue)
  BY <1>2, <1>4 DEF Unsettled
<1>7. IsFiniteSet(new) /\ Cardinality(new) = Cardinality(Unsettled(n))
  <2> DEFINE f == [j \in Unsettled(n) |-> queue[j]]
  <2>1. f \in Bijection(Unsettled(n), new)
    BY <1>6 DEF Bijection, Injection, Surjection, IsInjective
  <2>2. ExistsBijection(Unsettled(n), new)
    BY <2>1 DEF ExistsBijection
  <2> QED
    BY <2>2, <1>2, FS_Bijection
<1>8. Jobs(base) \cap new = {}
  BY <1>6 DEF Jobs
<1>9. Jobs(run') = Jobs(base) \cup new
  <2>1. ASSUME NEW s \in Session
        PROVE  s \in Jobs(run') <=> s \in Jobs(base) \cup new
    <3>1. CASE s \in {queue[j] : j \in 1..n}
      <4>1. PICK j \in 1..n : s = queue[j]
        BY <3>1
      <4>2. base[s] = "queued"
        BY <4>1, <1>2, <1>4
      <4>3. s \in new <=> ~Settled(s)
        BY <4>1, <1>6, <1>2, <1>4 DEF Unsettled
      <4> QED
        BY <3>1, <4>2, <4>3, <1>3 DEF Jobs
    <3>2. CASE s \notin {queue[j] : j \in 1..n}
      <4>1. s \notin new
        BY <3>2 DEF Unsettled
      <4> QED
        BY <3>2, <4>1, <1>3 DEF Jobs
    <3> QED
      BY <3>1, <3>2
  <2>2. new \subseteq Session
    BY <1>5, <1>6
  <2> QED
    BY <2>1, <2>2 DEF Jobs
<1>10. IsFiniteSet(Jobs(run')) /\ Cardinality(Jobs(run')) = busy + Cardinality(new)
  <2> HIDE DEF new
  <2>1. /\ IsFiniteSet(Jobs(base) \cup new)
        /\ Cardinality(Jobs(base) \cup new)
               = busy + Cardinality(new) - Cardinality(Jobs(base) \cap new)
    BY <1>7, FS_Union
  <2>2. Cardinality(Jobs(base) \cap new) = 0
    BY <1>8, FS_EmptySet
  <2>3. Cardinality(new) \in Nat
    BY <1>7, FS_CardinalityType
  <2> QED
    BY <1>1, <1>9, <2>1, <2>2, <2>3
<1> QED
  BY <1>2, <1>3, <1>7, <1>10 DEF PoolInv, Jobs

(* Nothing but pump and the steps of the runtimes touches the workers.      *)
LEMMA PoolFrame ==
    ASSUME Next, ~ScanEnd, ~Crash,
           ~ \E s \in Session : DispatchCreate(s) \/ RunClaim(s) \/ OnRunReturns(s)
                                \/ RunOut(s)
    PROVE  UNCHANGED <<run, active>>
<1> USE DEF rtVars, poolVars
<1>1. CASE Scanner
  BY <1>1 DEF Scanner, ScanList, ScanRow, DispatchRow, DispatchFails,
              DispatchParkView, DispatchPark
<1>2. ASSUME NEW s \in Session, Settler(s) PROVE UNCHANGED <<run, active>>
  BY <1>2 DEF Settler, FinCommit, FinView, FinPark, FinSeal
<1>3. ASSUME NEW s \in Session, Agent(s) PROVE UNCHANGED <<run, active>>
  BY <1>3 DEF Agent, TransitCall, TransitSettle, TransitReject
<1>4. ASSUME NEW s \in Session, Runtime(s) PROVE UNCHANGED <<run, active>>
  BY <1>4 DEF Runtime, AbortCall, AbortHookReturns
<1>5. CASE Clients
  BY <1>5 DEF Clients, reqFrame, Enroll, Resume, Close, Reopen, Move,
              MoveRejected, CloseCheck, CloseWrite, CloseRecheck,
              CloseRollback, ReopenWrite
<1>6. CASE Recovery
  BY <1>6 DEF Recovery, recFrame, AddProject, RecoverSeal, RecoverCheck,
              RecoverParkView, RecoverPark, RecoverEnd
<1>7. CASE Rescan \/ Stop
           \/ \E steps \in SUBSET Step : SetProjectRegistry(steps)
  BY <1>7 DEF Rescan, Stop, SetProjectRegistry
<1> QED
  BY <1>1, <1>2, <1>3, <1>4, <1>5, <1>6, <1>7 DEF Next

(* The count of workers stays right and within the pool at every step.      *)
LEMMA PoolStep ==
    Inv /\ PoolInv /\ [Next]_vars => PoolInv'
<1> SUFFICES ASSUME PoolOK, RuntimesOK, RuntimeInv, QueueInv, PoolInv, [Next]_vars
             PROVE  PoolInv'
  BY DEF Inv, TypeOK
<1>1. Workers \in Nat
  BY ConstantsAssumption
<1>2. ASSUME UNCHANGED active, Jobs(run') = Jobs(run) PROVE PoolInv'
  BY <1>2 DEF PoolInv
<1>3. CASE UNCHANGED <<run, active>>
  BY <1>2, <1>3 DEF Jobs
<1>4. CASE ScanEnd
  BY <1>1, <1>4, PumpCounts DEF ScanEnd, PoolOK, RuntimesOK, QueueInv, PoolInv
<1>5. ASSUME NEW s \in Session, DispatchCreate(s) PROVE PoolInv'
  <2>1. Jobs(run') = Jobs(run)
    BY <1>5 DEF DispatchCreate, Jobs, RuntimesOK, RuntimeInv
  <2> QED
    BY <1>2, <1>5, <2>1 DEF DispatchCreate
<1>6. ASSUME NEW s \in Session, RunClaim(s) PROVE PoolInv'
  <2>1. Jobs(run') = Jobs(run)
    BY <1>6 DEF RunClaim, AfterClaim, Jobs, RuntimesOK
  <2> QED
    BY <1>2, <1>6, <2>1 DEF RunClaim, poolVars
<1>7. ASSUME NEW s \in Session, OnRunReturns(s) PROVE PoolInv'
  <2>1. Jobs(run') = Jobs(run)
    BY <1>7 DEF OnRunReturns, Jobs, RuntimesOK
  <2> QED
    BY <1>2, <1>7, <2>1 DEF OnRunReturns, poolVars
<1>8. ASSUME NEW s \in Session, RunOut(s) PROVE PoolInv'
  <2> DEFINE base == [run EXCEPT ![s] = "out"]
  <2>1. base \in [Session -> RunPc]
    BY DEF RuntimesOK, RunPc
  <2>2. Jobs(base) = Jobs(run) \ {s} /\ s \in Jobs(run)
    BY <1>8 DEF RunOut, Jobs, RuntimesOK
  <2>3. /\ IsFiniteSet(Jobs(base))
        /\ Cardinality(Jobs(base)) = active - 1
        /\ active \in Nat
    BY <2>2, FS_RemoveElement, FS_CardinalityType DEF PoolInv
  <2>4. active - 1 <= Workers
    BY <1>1, <2>3 DEF PoolInv
  <2>5. Pump(active - 1, base)
    BY <1>8 DEF RunOut
  <2>6. /\ \A i \in 1..Len(queue) : base[queue[i]] = "queued"
        /\ \A i, j \in 1..Len(queue) : queue[i] = queue[j] => i = j
    BY <1>8 DEF RunOut, QueueInv, RuntimesOK, PoolOK
  <2> QED
    BY <1>1, <2>1, <2>3, <2>4, <2>5, <2>6, PumpCounts DEF PoolOK
<1>9. CASE Crash
  <2>1. Jobs(run') = {} /\ active' = 0
    BY <1>9 DEF Crash, Jobs
  <2> QED
    BY <1>1, <2>1, FS_EmptySet DEF PoolInv
<1> QED
  BY <1>3, <1>4, <1>5, <1>6, <1>7, <1>8, <1>9, PoolFrame DEF vars, poolVars, rtVars

(* The slots taken are the workers inside runJob, never more than the pool  *)
(* has, for any number of sessions, whatever settles, is dropped or fails.  *)
THEOREM SlotsAccounted ==
    Spec => []PoolAccounting
<1>1. Init => PoolInv
  <2> SUFFICES ASSUME Init PROVE PoolInv
    OBVIOUS
  <2>1. Jobs(run) = {} /\ active = 0
    BY DEF Init, Jobs
  <2> QED
    BY <2>1, FS_EmptySet, ConstantsAssumption DEF PoolInv
<1>2. PoolInv => PoolAccounting
  <2>1. Jobs(run) = {s \in Session : InJob(s)}
    BY DEF Jobs, InJob
  <2> QED
    BY <2>1 DEF PoolInv, PoolAccounting
<1> QED
  BY <1>1, <1>2, PoolStep, Invariant, PTL DEF Spec

-----------------------------------------------------------------------------
(* An entry of a task into a step runs once, and a session finds its task  *)
(* where it claimed it, while nothing is interrupted.                      *)

(* What the client requests, crashes and faults that repeat an entry or     *)
(* move a held task would be (README, What does not hold).                  *)
Undisturbed ==
    MaxCrash = 0 /\ MaxFault = 0 /\ Requests \cap {"done", "cancel"} = {}
OneClient == \A c, d \in Client : c = d

(* Nothing is interrupted, so recovery finds nothing, and no request closes *)
(* a task.                                                                  *)
CalmInv ==
    /\ rec.pc \in {"no", "next", "done"} /\ rec.todo = {}
    /\ ~up => \A s \in Session : meta[s] = "none"
    /\ \A c \in Client : req[c].pc \in {"idle", "move", "reopen"}

(* An entry of a task into a step is one number of visits. It is used up    *)
(* when the session that claimed it has written the next position: the task *)
(* is out of work, or has a higher number.                                  *)
EntryInv ==
    /\ NoDoubleDispatch
    /\ \A s \in Session : meta[s] # "none" => claim[s] <= visits[owner[s]]
    /\ \A s \in Session :
           (meta[s] \in Terminal \/ fin[s] = "seal") /\ status[owner[s]] = "work"
               => claim[s] < visits[owner[s]]
    /\ scan.pc = "create" =>
           \A s \in Session : meta[s] # "none" /\ owner[s] = scan.task
                                  => claim[s] < visits[scan.task]

(* A session holds its task until it has written the next position.         *)
Holds(s) == Live(s) /\ fin[s] \in {"no", "commit", "view", "park"}

(* A held task, and one about to be claimed, is in work where it was found; *)
(* a request is only under way for a task that is not in work.              *)
HoldInv ==
    /\ \A s \in Session : Holds(s) =>
           /\ status[owner[s]] = "work"
           /\ step[owner[s]] = at[s]
           /\ visits[owner[s]] = claim[s]
    /\ scan.pc = "create" =>
           status[scan.task] = "work" /\ step[scan.task] = scan.step
    /\ \A c \in Client : req[c].pc # "idle" => status[req[c].task] # "work"

(* The steps that are out of the question then.                             *)
LEMMA CalmFacts ==
    ASSUME Undisturbed, ProcessOK, CalmInv
    PROVE  /\ ~Fault /\ ~Stop /\ ~Crash /\ ~RecoverCheck /\ ~RecoverParkView /\ ~RecoverPark
           /\ \A s \in Session : ~RecoverSeal(s)
           /\ \A c \in Client, t \in Task, to \in {"done", "cancel"} : ~Close(c, t, to)
           /\ \A c \in Client : ~CloseCheck(c) /\ ~CloseWrite(c) /\ ~CloseRecheck(c)
                                /\ ~CloseRollback(c)
<1>1. ~Fault /\ ~Stop /\ ~Crash
  BY DEF Undisturbed, ProcessOK, Fault, Stop, Crash
<1>2. /\ ~RecoverCheck /\ ~RecoverParkView /\ ~RecoverPark
      /\ \A s \in Session : ~RecoverSeal(s)
  BY DEF CalmInv, RecoverCheck, RecoverParkView, RecoverPark, RecoverSeal
<1>3. \A c \in Client, t \in Task, to \in {"done", "cancel"} : ~Close(c, t, to)
  BY DEF Undisturbed, Close
<1>4. \A c \in Client : ~CloseCheck(c) /\ ~CloseWrite(c) /\ ~CloseRecheck(c)
                        /\ ~CloseRollback(c)
  BY DEF CalmInv, CloseCheck, CloseWrite, CloseRecheck, CloseRollback
<1> QED
  BY <1>1, <1>2, <1>3, <1>4

(* Without crashes, faults and closings these are the steps of the engine.  *)
CalmNext ==
    \/ ScanList \/ DispatchRow \/ DispatchParkView \/ DispatchPark \/ ScanEnd \/ Rescan
    \/ \E t \in Task : ScanRow(t)
    \/ \E s \in Session :
           \/ DispatchCreate(s) \/ Settler(s) \/ Agent(s) \/ Runtime(s)
    \/ \E c \in Client :
           \/ \E t \in Task, to \in Targets : Enroll(c, t, to) \/ Resume(c, t, to)
           \/ \E t \in Task : Reopen(c, t)
           \/ Move(c) \/ MoveRejected(c) \/ ReopenWrite(c)
    \/ AddProject \/ RecoverEnd
    \/ \E steps \in SUBSET Step : SetProjectRegistry(steps)

(* Every step is one of them.                                               *)
LEMMA CalmSteps ==
    ASSUME Undisturbed, ProcessOK, CalmInv, Next
    PROVE  CalmNext
<1>1. ~DispatchFails
  BY CalmFacts DEF DispatchFails
<1> QED
  BY <1>1, CalmFacts DEF Next, CalmNext, Scanner, Clients, Recovery

(* CalmInv is inductive on top of Inv.                                      *)
LEMMA CalmStep ==
    Undisturbed /\ Inv /\ CalmInv /\ [Next]_vars => CalmInv'
<1> SUFFICES ASSUME Undisturbed, ProcessOK, SessionsOK, RequestsOK, RuntimeInv,
                    RestInv, CalmInv, Next
             PROVE  CalmInv'
  BY DEF Inv, TypeOK, CalmInv, vars, metaVars
<1> USE DEF metaVars
<1>1. ASSUME UNCHANGED <<rec, up, meta, req>> PROVE CalmInv'
  BY <1>1 DEF CalmInv
<1>2. CASE ScanList \/ DispatchRow \/ DispatchParkView \/ DispatchPark \/ ScanEnd
           \/ Rescan
  BY <1>1, <1>2 DEF ScanList, DispatchRow, DispatchParkView, DispatchPark, ScanEnd, Rescan
<1>3. ASSUME NEW t \in Task, ScanRow(t) PROVE CalmInv'
  BY <1>1, <1>3 DEF ScanRow
<1>4. ASSUME NEW s \in Session,
             DispatchCreate(s) \/ Settler(s) \/ Agent(s) \/ Runtime(s)
      PROVE  CalmInv'
  <2>1. UNCHANGED <<rec, up, req>>
    BY <1>4 DEF DispatchCreate, Settler, FinCommit, FinView, FinPark, FinSeal, Agent,
           TransitCall, TransitSettle, TransitReject, OnRunReturns, Runtime, RunClaim,
           RunOut, AbortCall, AbortHookReturns
  <2>2. up
    <3> SUFFICES ASSUME ~up PROVE FALSE
      OBVIOUS
    <3>1. run[s] = "none" /\ scan.pc = "idle"
      BY DEF RestInv
    <3>2. fin[s] = "no" /\ abort[s] = "no" /\ transit[s] = NoStep
      BY <3>1 DEF RuntimeInv
    <3>3. ~DispatchCreate(s)
      BY <3>1 DEF DispatchCreate
    <3>4. ~Settler(s)
      BY <3>2 DEF Settler, FinCommit, FinView, FinPark, FinSeal
    <3>5. ~Agent(s)
      BY <3>1, <3>2 DEF Agent, TransitCall, TransitSettle, TransitReject, OnRunReturns
    <3>6. ~Runtime(s)
      BY <3>1, <3>2 DEF Runtime, RunClaim, RunOut, AbortCall, AbortHookReturns, Registered
    <3> QED
      BY <1>4, <3>3, <3>4, <3>5, <3>6
  <2> QED
    BY <2>1, <2>2 DEF CalmInv
<1>5. ASSUME NEW c \in Client, NEW t \in Task, NEW to \in Targets,
             Enroll(c, t, to) \/ Resume(c, t, to)
      PROVE  CalmInv'
  <2>1. UNCHANGED <<rec, up, meta>>
    BY <1>5 DEF Enroll, Resume, reqFrame
  <2>2. \A d \in Client : req'[d].pc \in {"idle", "move", "reopen"}
    BY <1>5 DEF Enroll, Resume, Request, CalmInv, RequestsOK
  <2> QED
    BY <2>1, <2>2 DEF CalmInv
<1>6. ASSUME NEW c \in Client, Move(c) \/ MoveRejected(c) \/ ReopenWrite(c)
      PROVE  CalmInv'
  <2>1. UNCHANGED <<rec, up, meta>>
    BY <1>6 DEF Move, MoveRejected, ReopenWrite, reqFrame
  <2>0. req' = [req EXCEPT ![c] = NoRequest]
    BY <1>6 DEF Move, MoveRejected, ReopenWrite
  <2>2. \A d \in Client : req'[d].pc \in {"idle", "move", "reopen"}
    BY <2>0 DEF NoRequest, CalmInv, RequestsOK
  <2> QED
    BY <2>1, <2>2 DEF CalmInv
<1>7. CASE AddProject
  <2>1. rec'.pc = "next" /\ rec'.todo = {} /\ up' /\ UNCHANGED req
    BY <1>7 DEF AddProject, NoRecovery, Orphans, CalmInv, Live, LiveStatus
  <2> QED
    BY <2>1 DEF CalmInv
<1>8. CASE RecoverEnd
  BY <1>8 DEF RecoverEnd, recFrame, NoRecovery, CalmInv
<1>9. ASSUME NEW steps \in SUBSET Step, SetProjectRegistry(steps) PROVE CalmInv'
  BY <1>1, <1>9 DEF SetProjectRegistry
<1>10. CASE \E c \in Client, t \in Task : Reopen(c, t)
  <2>1. PICK c \in Client, t \in Task : Reopen(c, t)
    BY <1>10
  <2>2. UNCHANGED <<rec, up, meta>>
    BY <2>1 DEF Reopen, reqFrame
  <2>3. \A d \in Client : req'[d].pc \in {"idle", "move", "reopen"}
    BY <2>1 DEF Reopen, Request, CalmInv, RequestsOK
  <2> QED
    BY <2>2, <2>3 DEF CalmInv
<1> QED
  BY <1>2, <1>3, <1>4, <1>5, <1>6, <1>7, <1>8, <1>9, <1>10, CalmSteps DEF CalmNext

(* A step that moves no task and claims none.                               *)
LEMMA EntryFrame ==
    ASSUME EntryInv, UNCHANGED <<status, visits, meta, owner, claim, fin>>,
           scan'.pc = "create" => scan.pc = "create" /\ scan'.task = scan.task
    PROVE  EntryInv'
BY DEF EntryInv, NoDoubleDispatch, Terminal

(* A write of a position that takes the task out of work, or counts.        *)
LEMMA EntryWrite ==
    ASSUME TasksOK, SessionsOK, RuntimeInv, EntryInv, UNCHANGED <<meta, owner, claim, fin>>,
           NEW t \in Task, NEW pos, NEW counts \in BOOLEAN, SetPosition(t, pos, counts),
           pos.status \in TaskStatus, pos.status = "work" => counts,
           scan'.pc = "create" => scan.pc = "create" /\ scan'.task = scan.task,
           scan.pc = "create" => scan.task \in Task
    PROVE  EntryInv'
<1>1. \A u \in Task : /\ visits'[u] \in Nat /\ visits[u] \in Nat /\ visits[u] <= visits'[u]
                      /\ status'[u] = "work" =>
                             \/ status[u] = "work" /\ visits'[u] = visits[u]
                             \/ visits[u] < visits'[u]
  BY DEF TasksOK, SetPosition
<1>2. \A s \in Session : claim[s] \in Nat /\ (meta[s] # "none" => owner[s] \in Task)
  BY DEF SessionsOK
<1>3. NoDoubleDispatch'
  BY DEF EntryInv, NoDoubleDispatch
<1>4. \A s \in Session : meta'[s] # "none" => claim'[s] <= visits'[owner'[s]]
  BY <1>1, <1>2 DEF EntryInv
<1>5. \A s \in Session :
           (meta'[s] \in Terminal \/ fin'[s] = "seal") /\ status'[owner'[s]] = "work"
               => claim'[s] < visits'[owner'[s]]
  <2> SUFFICES ASSUME NEW s \in Session, meta[s] \in Terminal \/ fin[s] = "seal",
                      status'[owner[s]] = "work"
               PROVE  claim[s] < visits'[owner[s]]
    OBVIOUS
  <2>1. owner[s] \in Task /\ claim[s] <= visits[owner[s]]
    BY <1>2 DEF EntryInv, RuntimeInv, Terminal, Live, LiveStatus, Settling
  <2> QED
    BY <2>1, <1>1, <1>2 DEF EntryInv
<1>6. scan'.pc = "create" =>
           \A s \in Session : meta'[s] # "none" /\ owner'[s] = scan'.task
                                  => claim'[s] < visits'[scan'.task]
  BY <1>1, <1>2 DEF EntryInv
<1> QED
  BY <1>3, <1>4, <1>5, <1>6 DEF EntryInv

(* While nothing is interrupted, no entry into a step is dispatched twice.  *)
LEMMA EntryStep ==
    Undisturbed /\ Inv /\ CalmInv /\ EntryInv /\ [Next]_vars => EntryInv'
<1> SUFFICES ASSUME Undisturbed, TasksOK, SessionsOK, ProcessOK, ScanOK, RuntimesOK,
                    RequestsOK, ClaimInv, RuntimeInv, CalmInv, EntryInv, [Next]_vars
             PROVE  EntryInv'
  BY DEF Inv, TypeOK
<1> USE DEF taskVars, metaVars, poolVars, rtVars
<1>0. /\ scan.pc = "create" => scan.task \in Task
      /\ \A sc : sc = Kicked(scan) /\ sc.pc = "create" =>
             scan.pc = "create" /\ sc.task = scan.task
  BY DEF ScanOK, Kicked
<1>1. CASE UNCHANGED vars
  BY <1>1, EntryFrame DEF vars
<1>2. CASE ScanList \/ DispatchParkView \/ Rescan
  BY <1>0, <1>2, EntryFrame DEF ScanList, DispatchParkView, Rescan, Kick, ScanOK
<1>3. CASE ScanEnd
  BY <1>3, EntryFrame DEF ScanEnd, IdleScan, ScanOK
<1>4. ASSUME NEW t \in Task, ScanRow(t) PROVE EntryInv'
  BY <1>4, EntryFrame DEF ScanRow, ScanOK
<1>5. CASE DispatchRow
  <2>1. UNCHANGED <<status, visits, meta, owner, claim, fin>>
    BY <1>5 DEF DispatchRow
  <2>2. CASE scan'.pc # "create"
    BY <2>1, <2>2, EntryFrame
  <2>3. CASE scan'.pc = "create"
    <3>1. scan'.task = scan.task /\ status[scan.task] = "work" /\ ~HasLive(scan.task)
      BY <1>5, <2>3 DEF DispatchRow, NextRow, ScanOK
    <3>2. \A s \in Session : meta[s] # "none" /\ owner[s] = scan.task
                                 => claim[s] < visits[scan.task]
      BY <3>1 DEF HasLive, Live, EntryInv, SessionsOK
    <3> QED
      BY <2>1, <3>1, <3>2 DEF EntryInv, NoDoubleDispatch, Terminal
  <2> QED
    BY <2>2, <2>3
<1>6. CASE DispatchPark
  <2>1. scan'.pc # "create" /\ scan.task \in Task /\ scan.pc # "create"
    BY <1>6 DEF DispatchPark, NextRow, ScanOK
  <2>2. SetPosition(scan.task, [status |-> "human", step |-> scan.step], FALSE)
    BY <1>6 DEF DispatchPark, ParkTask
  <2> QED
    BY <1>6, <2>1, <2>2, EntryWrite DEF DispatchPark, TaskStatus
<1>7. ASSUME NEW s \in Session, DispatchCreate(s) PROVE EntryInv'
  <2> DEFINE t == scan.task
  <2>1. /\ t \in Task /\ meta[s] = "none" /\ scan'.pc = "rows"
        /\ meta' = [meta EXCEPT ![s] = "queued"]
        /\ owner' = [owner EXCEPT ![s] = t]
        /\ claim' = [claim EXCEPT ![s] = visits[t]]
        /\ UNCHANGED <<status, visits, fin>>
    BY <1>7 DEF DispatchCreate, NextRow, ScanOK
  <2>2. \A r \in Session : meta[r] # "none" /\ owner[r] = t => claim[r] < visits[t]
    BY <1>7 DEF DispatchCreate, EntryInv
  <2>3. fin[s] = "no" /\ visits[t] \in Nat
    BY <2>1 DEF RuntimeInv, TasksOK
  <2>4. \A r \in Session : claim[r] \in Nat
    BY DEF SessionsOK
  <2>5. \A r \in Session \ {s} : /\ meta'[r] = meta[r] /\ owner'[r] = owner[r]
                                 /\ claim'[r] = claim[r]
    BY <2>1 DEF SessionsOK
  <2>6. meta'[s] = "queued" /\ owner'[s] = t /\ claim'[s] = visits[t]
    BY <2>1 DEF SessionsOK
  <2> HIDE DEF t
  <2>7. NoDoubleDispatch'
    BY <2>2, <2>3, <2>4, <2>5, <2>6 DEF EntryInv, NoDoubleDispatch
  <2> QED
    BY <2>1, <2>3, <2>5, <2>6, <2>7 DEF EntryInv, Terminal
<1>8. ASSUME NEW s \in Session, RunClaim(s) PROVE EntryInv'
  <2>1. UNCHANGED <<status, visits, owner, claim, fin, scan>>
    BY <1>8, CalmFacts DEF RunClaim
  <2>2. \/ UNCHANGED meta
        \/ meta[s] = "queued" /\ meta' = [meta EXCEPT ![s] = "running"]
    BY <1>8 DEF RunClaim
  <2> QED
    BY <2>1, <2>2 DEF EntryInv, NoDoubleDispatch, Terminal, SessionsOK
<1>9. ASSUME NEW s \in Session, Agent(s) \/ RunOut(s) \/ AbortCall(s) \/ AbortHookReturns(s)
      PROVE  EntryInv'
  <2>1. UNCHANGED <<status, visits, meta, owner, claim>>
    BY <1>9 DEF Agent, TransitCall, TransitSettle, TransitReject, OnRunReturns, RunOut,
                AbortCall, AbortHookReturns
  <2>2. scan'.pc = "create" => scan.pc = "create" /\ scan'.task = scan.task
    BY <1>0, <1>9 DEF Agent, TransitCall, TransitSettle, TransitReject, OnRunReturns, RunOut,
                AbortCall, AbortHookReturns, Kick
  <2>3. \A r \in Session : fin'[r] = "seal" => fin[r] = "seal"
    BY <1>9 DEF Agent, TransitCall, TransitSettle, TransitReject, OnRunReturns, RunOut,
                AbortCall, AbortHookReturns, SettlePark, RuntimesOK
  <2> QED
    BY <2>1, <2>2, <2>3 DEF EntryInv, NoDoubleDispatch, Terminal
<1>10. ASSUME NEW s \in Session, FinCommit(s) PROVE EntryInv'
  <2> DEFINE t == owner[s]
             counts == target[s] \in Step
             to == PositionFor(at[s], target[s])
  <2>1. /\ t \in Task /\ meta[s] \in LiveStatus
        /\ SetPosition(t, to, counts)
        /\ fin' = [fin EXCEPT ![s] = "seal"]
        /\ UNCHANGED <<meta, owner, claim, scan>>
    BY <1>10, CalmFacts DEF FinCommit, RuntimeInv, Settling, Live, LiveStatus, SessionsOK
  <2>2. to.status \in TaskStatus /\ (to.status = "work" => counts)
    BY <1>10, ConstantsAssumption DEF FinCommit, RuntimesOK, PositionFor, TaskStatus, EndStatus
  <2>3. status'[t] = "work" => visits'[t] = visits[t] + 1
    BY <2>1, <2>2 DEF SetPosition, TasksOK
  <2>4. \A u \in Task : u # t => status'[u] = status[u] /\ visits'[u] = visits[u]
    BY <2>1 DEF SetPosition, TasksOK
  <2>5. visits[t] \in Nat /\ visits'[t] \in Nat /\ visits[t] <= visits'[t]
    BY <2>1 DEF SetPosition, TasksOK
  <2>6. \A r \in Session : /\ claim[r] \in Nat /\ (meta[r] # "none" => owner[r] \in Task)
                           /\ meta[r] # "none" => claim[r] <= visits[owner[r]]
                           /\ r # s /\ fin'[r] = "seal" => fin[r] = "seal"
                           /\ fin[r] = "seal" => meta[r] # "none"
    BY <2>1 DEF SessionsOK, EntryInv, RuntimesOK, RuntimeInv, Settling, Live, LiveStatus
  <2>7. \A u \in Task : visits[u] \in Nat
    BY DEF TasksOK
  <2> HIDE DEF to, counts
  <2>8. NoDoubleDispatch' /\ \A r \in Session : meta'[r] # "none" => claim'[r] <= visits'[owner'[r]]
    <3> HIDE DEF t
    <3> QED
      BY <2>1, <2>4, <2>5, <2>6, <2>7 DEF EntryInv, NoDoubleDispatch
  <2>9. ASSUME NEW r \in Session, meta'[r] \in Terminal \/ fin'[r] = "seal",
               status'[owner'[r]] = "work"
        PROVE  claim'[r] < visits'[owner'[r]]
    <3>1. meta[r] # "none" /\ owner[r] \in Task /\ owner'[r] = owner[r] /\ claim'[r] = claim[r]
      <4>1. CASE r = s
        BY <4>1, <2>1, <2>6 DEF LiveStatus
      <4>2. CASE r # s
        BY <4>2, <2>9, <2>1, <2>6 DEF Terminal
      <4> QED
        BY <4>1, <4>2
    <3>2. CASE owner[r] = t
      BY <2>9, <3>1, <3>2, <2>3, <2>5, <2>6
    <3>3. CASE owner[r] # t
      BY <2>9, <3>1, <3>3, <2>1, <2>4, <2>6 DEF EntryInv
    <3> QED
      BY <3>2, <3>3
  <2>10. scan'.pc = "create" =>
             \A r \in Session : meta'[r] # "none" /\ owner'[r] = scan'.task
                                    => claim'[r] < visits'[scan'.task]
    <3> HIDE DEF t
    <3> QED
      BY <2>1, <2>4, <2>5, <2>6, <2>7, <1>0 DEF EntryInv
  <2> QED
    BY <2>8, <2>9, <2>10 DEF EntryInv
<1>11. ASSUME NEW s \in Session, FinView(s) PROVE EntryInv'
  <2>1. UNCHANGED <<status, visits, meta, owner, claim, scan>>
    BY <1>11 DEF FinView
  <2>2. fin' = [fin EXCEPT ![s] = "park"]
    BY <1>11, CalmFacts DEF FinView
  <2> QED
    BY <2>1, <2>2 DEF EntryInv, NoDoubleDispatch, Terminal, RuntimesOK
<1>12. ASSUME NEW s \in Session, FinPark(s) PROVE EntryInv'
  <2> DEFINE t == owner[s]
  <2>1. /\ t \in Task /\ meta[s] \in LiveStatus
        /\ SetPosition(t, [status |-> "human", step |-> target[s]], FALSE)
        /\ fin' = [fin EXCEPT ![s] = "seal"]
        /\ UNCHANGED <<meta, owner, claim, scan>>
    BY <1>12, CalmFacts DEF FinPark, ParkTask, RuntimeInv, Settling, Live, LiveStatus, SessionsOK
  <2>2. UNCHANGED visits
    BY <2>1 DEF SetPosition, TasksOK
  <2>3. status'[t] # "work" /\ \A u \in Task : u # t => status'[u] = status[u]
    BY <2>1 DEF SetPosition, TasksOK
  <2>4. \A r \in Session : /\ (meta[r] # "none" => owner[r] \in Task)
                           /\ r # s /\ fin'[r] = "seal" => fin[r] = "seal"
                           /\ fin[r] = "seal" => meta[r] # "none"
    BY <2>1 DEF SessionsOK, RuntimesOK, RuntimeInv, Settling, Live, LiveStatus
  <2> HIDE DEF t
  <2>5. ASSUME NEW r \in Session, meta'[r] \in Terminal \/ fin'[r] = "seal",
               status'[owner'[r]] = "work"
        PROVE  claim'[r] < visits'[owner'[r]]
    <3>1. meta[r] # "none" /\ owner[r] \in Task
      <4>1. CASE r = s
        BY <4>1, <2>1 DEF LiveStatus, t
      <4>2. CASE r # s
        BY <4>2, <2>5, <2>1, <2>4 DEF Terminal
      <4> QED
        BY <4>1, <4>2
    <3>2. owner[r] # t
      BY <2>5, <2>1, <2>3
    <3>3. r # s
      BY <3>2 DEF t
    <3> QED
      BY <2>5, <3>1, <3>2, <3>3, <2>1, <2>2, <2>3, <2>4 DEF EntryInv
  <2> QED
    BY <2>1, <2>2, <2>5 DEF EntryInv, NoDoubleDispatch
<1>13. ASSUME NEW s \in Session, FinSeal(s) PROVE EntryInv'
  <2>1. /\ fin[s] = "seal" /\ meta[s] \in LiveStatus
        /\ meta' = [meta EXCEPT ![s] = outcome[s]] /\ outcome[s] \in Terminal
        /\ fin' = [fin EXCEPT ![s] = "sealed"]
        /\ UNCHANGED <<status, visits, owner, claim>>
    BY <1>13, CalmFacts DEF FinSeal, Seal, RuntimeInv, RuntimesOK, Settling, Live, LiveStatus
  <2>2. scan'.pc = "create" => scan.pc = "create" /\ scan'.task = scan.task
    BY <1>0, <1>13, CalmFacts DEF FinSeal, Kick
  <2>3. \A r \in Session : r # s => meta'[r] = meta[r] /\ fin'[r] = fin[r]
    BY <2>1 DEF SessionsOK, RuntimesOK
  <2>4. \A r \in Session : meta'[r] # "none" => meta[r] # "none"
    BY <2>1, <2>3 DEF LiveStatus
  <2> QED
    BY <2>1, <2>2, <2>3, <2>4 DEF EntryInv, NoDoubleDispatch, Terminal
<1>14. ASSUME NEW c \in Client, NEW t \in Task, NEW to \in Targets,
              Enroll(c, t, to) \/ Resume(c, t, to)
       PROVE  EntryInv'
  BY <1>14, EntryFrame DEF Enroll, Resume, reqFrame
<1>15. ASSUME NEW c \in Client, NEW t \in Task, Reopen(c, t) PROVE EntryInv'
  BY <1>15, EntryFrame DEF Reopen, reqFrame
<1>16. ASSUME NEW c \in Client, MoveRejected(c) PROVE EntryInv'
  BY <1>16, EntryFrame DEF MoveRejected, reqFrame
<1>17. ASSUME NEW c \in Client, Move(c) PROVE EntryInv'
  <2> DEFINE t == req[c].task
             pos == PositionFor(req[c].step, req[c].to)
             counts == req[c].to \in Step
  <2>1. /\ SetPosition(t, pos, counts)
        /\ UNCHANGED <<meta, owner, claim, fin>>
        /\ scan'.pc = "create" => scan.pc = "create" /\ scan'.task = scan.task
    BY <1>0, <1>17 DEF Move, reqFrame, Kick
  <2>2. pos.status \in TaskStatus /\ (pos.status = "work" => counts)
    BY <1>17, ConstantsAssumption DEF Move, RequestsOK, PositionFor, TaskStatus, EndStatus
  <2>3. counts \in BOOLEAN
    OBVIOUS
  <2> HIDE DEF t, pos, counts
  <2>4. CASE t \in Task
    BY <1>0, <2>1, <2>2, <2>3, <2>4, EntryWrite
  <2>5. CASE t \notin Task
    <3>1. UNCHANGED <<status, visits>>
      BY <2>1, <2>5 DEF SetPosition, TasksOK
    <3> QED
      BY <2>1, <3>1, EntryFrame
  <2> QED
    BY <2>4, <2>5
<1>18. ASSUME NEW c \in Client, ReopenWrite(c) PROVE EntryInv'
  <2> DEFINE r == req[c]
             pos == [status |-> IF r.step = NoStep THEN "new" ELSE "human", step |-> r.step]
  <2>1. /\ SetPosition(r.task, pos, FALSE)
        /\ UNCHANGED <<meta, owner, claim, fin, scan>>
    BY <1>18 DEF ReopenWrite, reqFrame
  <2>2. pos.status \in TaskStatus /\ pos.status # "work"
    BY DEF TaskStatus
  <2>3. CASE r.task \in Task
    BY <1>0, <2>1, <2>2, <2>3, EntryWrite
  <2>4. CASE r.task \notin Task
    <3>1. UNCHANGED <<status, visits>>
      BY <2>1, <2>4 DEF SetPosition, TasksOK
    <3> QED
      BY <2>1, <3>1, EntryFrame
  <2> QED
    BY <2>3, <2>4
<1>19. CASE AddProject
  BY <1>19, EntryFrame DEF AddProject
<1>20. CASE RecoverEnd
  BY <1>0, <1>20, EntryFrame DEF RecoverEnd, recFrame, Kick
<1>21. ASSUME NEW steps \in SUBSET Step, SetProjectRegistry(steps) PROVE EntryInv'
  BY <1>0, <1>21, EntryFrame DEF SetProjectRegistry, Kick
<1> HIDE DEF taskVars, metaVars, poolVars, rtVars
<1>22. ASSUME NEW s \in Session, Settler(s) \/ Runtime(s) PROVE EntryInv'
  BY <1>22, <1>8, <1>9, <1>10, <1>11, <1>12, <1>13 DEF Settler, Runtime
<1> QED
  BY <1>1, <1>2, <1>3, <1>4, <1>5, <1>6, <1>7, <1>9, <1>14, <1>15, <1>16, <1>17, <1>18,
     <1>19, <1>20, <1>21, <1>22, CalmSteps DEF CalmNext

-----------------------------------------------------------------------------
(* What is held stays held when no position and no claim changes.           *)
LEMMA HoldFrame ==
    ASSUME HoldInv, UNCHANGED <<status, step, visits, owner, at, claim>>,
           \A s \in Session : Holds(s)' => Holds(s),
           scan'.pc = "create" => /\ scan.pc = "create"
                                  /\ scan'.task = scan.task /\ scan'.step = scan.step,
           \A c \in Client : req'[c].pc # "idle" => status[req'[c].task] # "work"
    PROVE  HoldInv'
<1>1. \A s \in Session : Holds(s)' =>
          /\ status'[owner'[s]] = "work"
          /\ step'[owner'[s]] = at'[s]
          /\ visits'[owner'[s]] = claim'[s]
  BY DEF HoldInv
<1>2. scan'.pc = "create" =>
          status'[scan'.task] = "work" /\ step'[scan'.task] = scan'.step
  BY DEF HoldInv
<1> QED
  BY <1>1, <1>2 DEF HoldInv

(* A write of the position of a task that nobody holds, or will claim.      *)
LEMMA HoldWrite ==
    ASSUME TasksOK, HoldInv, UNCHANGED <<owner, at, claim>>,
           NEW t, NEW pos, NEW counts, SetPosition(t, pos, counts),
           \A s \in Session : Holds(s)' => Holds(s) /\ owner[s] # t,
           scan'.pc = "create" => /\ scan.pc = "create" /\ scan.task # t
                                  /\ scan'.task = scan.task /\ scan'.step = scan.step,
           \A c \in Client : req'[c].pc # "idle" =>
               /\ req[c].pc # "idle" /\ req'[c].task = req[c].task
               /\ req[c].task # t \/ pos.status # "work"
    PROVE  HoldInv'
<1>1. \A u : u # t => /\ status'[u] = status[u] /\ step'[u] = step[u]
                      /\ visits'[u] = visits[u]
  BY DEF TasksOK, SetPosition
<1>2. status'[t] = status[t] \/ status'[t] = pos.status
  BY DEF TasksOK, SetPosition
<1>3. \A s \in Session : Holds(s)' =>
          /\ status'[owner'[s]] = "work"
          /\ step'[owner'[s]] = at'[s]
          /\ visits'[owner'[s]] = claim'[s]
  BY <1>1 DEF HoldInv
<1>4. scan'.pc = "create" =>
          status'[scan'.task] = "work" /\ step'[scan'.task] = scan'.step
  BY <1>1 DEF HoldInv
<1>5. \A c \in Client : req'[c].pc # "idle" => status'[req'[c].task] # "work"
  BY <1>1, <1>2 DEF HoldInv
<1> QED
  BY <1>3, <1>4, <1>5 DEF HoldInv

(* With one client, a held task is not moved.                               *)
LEMMA HoldStep ==
    Undisturbed /\ OneClient /\ Inv /\ CalmInv /\ HoldInv /\ [Next]_vars => HoldInv'
<1> SUFFICES ASSUME Undisturbed, OneClient, TasksOK, SessionsOK, ProcessOK, ScanOK,
                    RuntimesOK, RequestsOK, ClaimInv, RuntimeInv, CalmInv, HoldInv,
                    [Next]_vars
             PROVE  HoldInv'
  BY DEF Inv, TypeOK
<1> USE DEF taskVars, metaVars, poolVars, rtVars
<1>0. /\ \A sc : sc = Kicked(scan) =>
             (sc.pc = "create" => /\ scan.pc = "create"
                                  /\ sc.task = scan.task /\ sc.step = scan.step)
      /\ \A c \in Client : req[c].pc # "idle" => status[req[c].task] # "work"
  BY DEF ScanOK, Kicked, HoldInv
<1>a. ASSUME UNCHANGED <<status, step, visits, meta, owner, at, claim, fin, req>>,
             scan'.pc = "create" => /\ scan.pc = "create"
                                    /\ scan'.task = scan.task /\ scan'.step = scan.step
      PROVE  HoldInv'
  <2>1. \A s \in Session : Holds(s)' => Holds(s)
    BY <1>a DEF Holds, Live
  <2> QED
    BY <1>a, <2>1, <1>0, HoldFrame
<1>1. CASE UNCHANGED vars
  BY <1>1, <1>a DEF vars
<1>2. CASE ScanList \/ DispatchParkView \/ Rescan
  BY <1>0, <1>2, <1>a DEF ScanList, DispatchParkView, Rescan, Kick, ScanOK
<1>3. CASE ScanEnd
  BY <1>3, <1>a DEF ScanEnd, IdleScan, ScanOK
<1>4. ASSUME NEW t \in Task, ScanRow(t) PROVE HoldInv'
  BY <1>4, <1>a DEF ScanRow, ScanOK
<1>5. CASE DispatchRow
  <2>1. UNCHANGED <<status, step, visits, meta, owner, at, claim, fin, req>>
    BY <1>5 DEF DispatchRow
  <2>2. CASE scan'.pc # "create"
    BY <2>1, <2>2, <1>a
  <2>3. CASE scan'.pc = "create"
    <3>1. status[scan'.task] = "work" /\ step[scan'.task] = scan'.step
      BY <1>5, <2>3 DEF DispatchRow, NextRow, ScanOK
    <3> QED
      BY <2>1, <3>1 DEF HoldInv, Holds, Live
  <2> QED
    BY <2>2, <2>3
<1>6. CASE DispatchPark
  <2> DEFINE pos == [status |-> "human", step |-> scan.step]
  <2>1. SetPosition(scan.task, pos, FALSE) /\ pos.status # "work"
    BY <1>6 DEF DispatchPark, ParkTask
  <2>2. scan'.pc # "create"
    BY <1>6 DEF DispatchPark, NextRow, ScanOK
  <2>3. \A s \in Session : Holds(s)' => Holds(s) /\ owner[s] # scan.task
    BY <1>6 DEF DispatchPark, ClaimInv, HasLive, Holds, Live
  <2>4. UNCHANGED <<owner, at, claim, req>>
    BY <1>6 DEF DispatchPark
  <2> HIDE DEF pos
  <2> QED
    BY <2>1, <2>2, <2>3, <2>4, HoldWrite
<1>7. ASSUME NEW s \in Session, DispatchCreate(s) PROVE HoldInv'
  <2> DEFINE t == scan.task
  <2>1. /\ scan.pc = "create" /\ t \in Task /\ scan'.pc = "rows"
        /\ meta' = [meta EXCEPT ![s] = "queued"]
        /\ owner' = [owner EXCEPT ![s] = t]
        /\ at' = [at EXCEPT ![s] = scan.step]
        /\ claim' = [claim EXCEPT ![s] = visits[t]]
        /\ UNCHANGED <<status, step, visits, fin, req>>
    BY <1>7 DEF DispatchCreate, NextRow, ScanOK
  <2>2. \A r \in Session \ {s} : /\ meta'[r] = meta[r] /\ owner'[r] = owner[r]
                                 /\ at'[r] = at[r] /\ claim'[r] = claim[r]
    BY <2>1 DEF SessionsOK
  <2>3. owner'[s] = t /\ at'[s] = scan.step /\ claim'[s] = visits[t]
    BY <2>1 DEF SessionsOK
  <2>4. status[t] = "work" /\ step[t] = scan.step
    BY <2>1 DEF HoldInv
  <2>5. \A r \in Session : Holds(r)' =>
            /\ status'[owner'[r]] = "work"
            /\ step'[owner'[r]] = at'[r]
            /\ visits'[owner'[r]] = claim'[r]
    <3> HIDE DEF t
    <3> QED
      BY <2>1, <2>2, <2>3, <2>4 DEF HoldInv, Holds, Live
  <2> QED
    BY <2>1, <2>5 DEF HoldInv
<1>8. ASSUME NEW s \in Session, RunClaim(s) PROVE HoldInv'
  <2>1. UNCHANGED <<status, step, visits, owner, at, claim, fin, scan, req>>
    BY <1>8, CalmFacts DEF RunClaim
  <2>2. \/ UNCHANGED meta
        \/ meta[s] = "queued" /\ meta' = [meta EXCEPT ![s] = "running"]
    BY <1>8 DEF RunClaim
  <2>3. \A r \in Session : Holds(r)' => Holds(r)
    BY <2>1, <2>2 DEF SessionsOK, Holds, Live, LiveStatus
  <2> QED
    BY <1>0, <2>1, <2>3, HoldFrame
<1>9. ASSUME NEW s \in Session, Agent(s) \/ RunOut(s) \/ AbortCall(s) \/ AbortHookReturns(s)
      PROVE  HoldInv'
  <2>1. UNCHANGED <<status, step, visits, meta, owner, at, claim, req>>
    BY <1>9 DEF Agent, TransitCall, TransitSettle, TransitReject, OnRunReturns, RunOut,
                AbortCall, AbortHookReturns
  <2>2. scan'.pc = "create" => /\ scan.pc = "create"
                               /\ scan'.task = scan.task /\ scan'.step = scan.step
    BY <1>0, <1>9 DEF Agent, TransitCall, TransitSettle, TransitReject, OnRunReturns, RunOut,
                AbortCall, AbortHookReturns, Kick
  <2>3. \A r \in Session : fin'[r] = fin[r] \/ fin[r] = "no"
    BY <1>9 DEF Agent, TransitCall, TransitSettle, TransitReject, OnRunReturns, RunOut,
                AbortCall, AbortHookReturns, SettlePark, RuntimesOK, Settled
  <2>4. \A r \in Session : Holds(r)' => Holds(r)
    BY <2>1, <2>3 DEF Holds, Live
  <2> QED
    BY <1>0, <2>1, <2>2, <2>4, HoldFrame
<1>b. ASSUME NEW s \in Session, fin[s] \in {"commit", "park"}, NEW pos, NEW counts,
             SetPosition(owner[s], pos, counts), fin' = [fin EXCEPT ![s] = "seal"],
             UNCHANGED <<meta, owner, at, claim, scan, req>>
      PROVE  HoldInv'
  <2>1. Live(s) /\ Holds(s) /\ status[owner[s]] = "work" /\ owner[s] \in Task
    BY <1>b DEF RuntimeInv, Settling, Holds, HoldInv, SessionsOK, Live, LiveStatus
  <2>2. \A r \in Session : Holds(r)' => Holds(r) /\ r # s
    BY <1>b DEF Holds, Live, RuntimesOK
  <2>3. \A r \in Session : Holds(r) /\ r # s => owner[r] # owner[s]
    BY <2>1 DEF Holds, ClaimInv, OneLiveSession
  <2>4. scan.pc = "create" => scan.task # owner[s]
    BY <2>1 DEF ClaimInv, HasLive
  <2>5. \A c \in Client : req[c].pc # "idle" => req[c].task # owner[s]
    BY <2>1, <1>0
  <2> QED
    BY <1>b, <2>2, <2>3, <2>4, <2>5, HoldWrite
<1>10. ASSUME NEW s \in Session, FinCommit(s) PROVE HoldInv'
  <2>1. /\ SetPosition(owner[s], PositionFor(at[s], target[s]), target[s] \in Step)
        /\ fin[s] = "commit" /\ fin' = [fin EXCEPT ![s] = "seal"]
        /\ UNCHANGED <<meta, owner, at, claim, scan, req>>
    BY <1>10, CalmFacts DEF FinCommit
  <2> QED
    BY <2>1, <1>b
<1>11. ASSUME NEW s \in Session, FinView(s) PROVE HoldInv'
  <2>1. /\ UNCHANGED <<status, step, visits, meta, owner, at, claim, scan, req>>
        /\ fin[s] = "view" /\ fin' = [fin EXCEPT ![s] = "park"]
    BY <1>11, CalmFacts DEF FinView
  <2>2. \A r \in Session : Holds(r)' => Holds(r)
    BY <2>1 DEF Holds, Live, RuntimesOK
  <2> QED
    BY <1>0, <2>1, <2>2, HoldFrame
<1>12. ASSUME NEW s \in Session, FinPark(s) PROVE HoldInv'
  <2>1. /\ SetPosition(owner[s], [status |-> "human", step |-> target[s]], FALSE)
        /\ fin[s] = "park" /\ fin' = [fin EXCEPT ![s] = "seal"]
        /\ UNCHANGED <<meta, owner, at, claim, scan, req>>
    BY <1>12, CalmFacts DEF FinPark, ParkTask
  <2> QED
    BY <2>1, <1>b
<1>13. ASSUME NEW s \in Session, FinSeal(s) PROVE HoldInv'
  <2>1. /\ fin[s] = "seal" /\ fin' = [fin EXCEPT ![s] = "sealed"]
        /\ meta' = [meta EXCEPT ![s] = outcome[s]]
        /\ UNCHANGED <<status, step, visits, owner, at, claim, req>>
    BY <1>13, CalmFacts DEF FinSeal, Seal
  <2>2. scan'.pc = "create" => /\ scan.pc = "create"
                               /\ scan'.task = scan.task /\ scan'.step = scan.step
    BY <1>0, <1>13, CalmFacts DEF FinSeal, Kick
  <2>3. \A r \in Session : Holds(r)' => Holds(r)
    BY <2>1 DEF Holds, Live, SessionsOK, RuntimesOK
  <2> QED
    BY <1>0, <2>1, <2>2, <2>3, HoldFrame
<1>c. ASSUME NEW c \in Client, NEW t \in Task, status[t] # "work", NEW pc, NEW to,
             Request(c, pc, t, to), UNCHANGED <<taskVars, scan, reqFrame>>
      PROVE  HoldInv'
  <2>1. \A d \in Client : req'[d].pc # "idle" => status[req'[d].task] # "work"
    BY <1>0, <1>c DEF Request, RequestsOK
  <2>2. \A s \in Session : Holds(s)' => Holds(s)
    BY <1>c DEF Holds, Live, reqFrame
  <2> QED
    BY <1>c, <2>1, <2>2, HoldFrame DEF reqFrame
<1>14. ASSUME NEW c \in Client, NEW t \in Task, NEW to \in Targets,
              Enroll(c, t, to) \/ Resume(c, t, to)
       PROVE  HoldInv'
  BY <1>14, <1>c DEF Enroll, Resume, Resumable
<1>15. ASSUME NEW c \in Client, NEW t \in Task, Reopen(c, t) PROVE HoldInv'
  BY <1>15, <1>c DEF Reopen
<1>d. ASSUME NEW c \in Client, req[c].pc # "idle", req' = [req EXCEPT ![c] = NoRequest],
             UNCHANGED reqFrame, NEW pos, NEW counts, SetPosition(req[c].task, pos, counts),
             scan'.pc = "create" => /\ scan.pc = "create"
                                    /\ scan'.task = scan.task /\ scan'.step = scan.step
      PROVE  HoldInv'
  <2>1. status[req[c].task] # "work"
    BY <1>0, <1>d
  <2>2. \A s \in Session : Holds(s)' => Holds(s) /\ owner[s] # req[c].task
    BY <1>d, <2>1 DEF Holds, Live, reqFrame, HoldInv
  <2>3. scan.pc = "create" => scan.task # req[c].task
    BY <2>1 DEF HoldInv
  <2>4. \A d \in Client : req'[d].pc = "idle"
    BY <1>d DEF OneClient, RequestsOK, NoRequest
  <2>5. UNCHANGED <<owner, at, claim>>
    BY <1>d DEF reqFrame
  <2> QED
    BY <1>d, <2>2, <2>3, <2>4, <2>5, HoldWrite
<1>16. ASSUME NEW c \in Client, MoveRejected(c) PROVE HoldInv'
  <2>1. \A d \in Client : req'[d].pc # "idle" => status[req'[d].task] # "work"
    BY <1>0, <1>16 DEF MoveRejected, RequestsOK, NoRequest
  <2>2. \A s \in Session : Holds(s)' => Holds(s)
    BY <1>16 DEF MoveRejected, Holds, Live, reqFrame
  <2> QED
    BY <1>16, <2>1, <2>2, HoldFrame DEF MoveRejected, reqFrame
<1>17. ASSUME NEW c \in Client, Move(c) PROVE HoldInv'
  <2>1. /\ SetPosition(req[c].task, PositionFor(req[c].step, req[c].to), req[c].to \in Step)
        /\ req[c].pc # "idle" /\ req' = [req EXCEPT ![c] = NoRequest] /\ UNCHANGED reqFrame
    BY <1>17 DEF Move
  <2>2. scan'.pc = "create" => /\ scan.pc = "create"
                               /\ scan'.task = scan.task /\ scan'.step = scan.step
    BY <1>0, <1>17 DEF Move, Kick
  <2> QED
    BY <2>1, <2>2, <1>d
<1>18. ASSUME NEW c \in Client, ReopenWrite(c) PROVE HoldInv'
  <2>1. /\ SetPosition(req[c].task, [status |-> IF req[c].step = NoStep THEN "new" ELSE "human",
                                     step |-> req[c].step], FALSE)
        /\ req[c].pc # "idle" /\ req' = [req EXCEPT ![c] = NoRequest]
        /\ UNCHANGED <<reqFrame, scan>>
    BY <1>18 DEF ReopenWrite
  <2> QED
    BY <2>1, <1>d
<1>19. CASE AddProject
  BY <1>19, <1>a DEF AddProject
<1>20. CASE RecoverEnd
  BY <1>0, <1>20, <1>a DEF RecoverEnd, recFrame, Kick
<1>21. ASSUME NEW steps \in SUBSET Step, SetProjectRegistry(steps) PROVE HoldInv'
  BY <1>0, <1>21, <1>a DEF SetProjectRegistry, Kick
<1> HIDE DEF taskVars, metaVars, poolVars, rtVars
<1>22. ASSUME NEW s \in Session, Settler(s) \/ Runtime(s) PROVE HoldInv'
  BY <1>22, <1>8, <1>9, <1>10, <1>11, <1>12, <1>13 DEF Settler, Runtime
<1> QED
  BY <1>1, <1>2, <1>3, <1>4, <1>5, <1>6, <1>7, <1>9, <1>14, <1>15, <1>16, <1>17, <1>18,
     <1>19, <1>20, <1>21, <1>22, CalmSteps DEF CalmNext

(* NoDoubleDispatch, for any number of tasks, sessions, workers and         *)
(* clients: a session stays live until the position it moves the task to is *)
(* written, so no scan finds its entry free a second time. Without crashes, *)
(* failing writes and closings, each of which does repeat an entry.         *)
THEOREM DispatchedOnce ==
    ASSUME Undisturbed
    PROVE  Spec => []NoDoubleDispatch
<1>1. Init => CalmInv /\ EntryInv
  BY DEF Init, CalmInv, EntryInv, NoDoubleDispatch, NoRecovery, NoRequest, IdleScan, Terminal
<1>2. CalmInv /\ EntryInv => NoDoubleDispatch
  BY DEF EntryInv
<1> QED
  BY <1>1, <1>2, Invariant, CalmStep, EntryStep, PTL DEF Spec

(* SessionOnItsStep, for any number of tasks, sessions and workers: enroll, *)
(* resume and reopen find a task that no session holds, because they look   *)
(* for one that is not in work. One client: a second request that looked    *)
(* before the first one wrote does move a task that was claimed since.      *)
THEOREM HoldsItsStep ==
    ASSUME Undisturbed, OneClient
    PROVE  Spec => []SessionOnItsStep
<1>1. Init => CalmInv /\ HoldInv
  BY DEF Init, CalmInv, HoldInv, Holds, Live, LiveStatus, NoRecovery, NoRequest, IdleScan
<1>2. Inv /\ HoldInv => SessionOnItsStep
  <2> SUFFICES ASSUME RuntimesOK, RuntimeInv, HoldInv, NEW s \in Session, Registered(s), ~Settled(s)
               PROVE  Holds(s)
    BY DEF Inv, TypeOK, SessionOnItsStep, HoldInv
  <2> QED
    BY DEF RuntimesOK, RuntimeInv, Registered, Settled, Holds, Live, LiveStatus
<1> QED
  BY <1>1, <1>2, Invariant, CalmStep, HoldStep, PTL DEF Spec
=============================================================================
