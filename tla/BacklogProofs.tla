---------------------------- MODULE BacklogProofs -----------------------------
(* Proofs about Backlog: no visit and no edge is lost under the lock of a   *)
(* task, an answered create is there, and tasks wait for their blockers.    *)
EXTENDS Backlog, TLAPS

TaskStatus == Open \cup Closing
Record == [status : TaskStatus, enrolled : BOOLEAN, by : SUBSET Task, visits : Nat]
WriteKind == TaskStatus \cup {"edit", "reset", "block", "unblock", "enter"}
OpType == [kind : WriteKind \cup JobKind \cup {"none"}, task : Task, other : SUBSET Task,
           enr : BOOLEAN]
CallType ==
    [pc : {"idle", "make", "view", "lock", "write", "look", "again", "ok"},
     job : Wish \cup {NoJob}, todo : SUBSET Task, killed : BOOLEAN,
     op : OpType, base : Record, seen : Record]
SessionType ==
    [pc : {"none", "live", "lock", "park", "write", "seal", "sealed", "stuck"},
     op : OpType, base : Record]

StoreOK ==
    /\ made \in [Task -> BOOLEAN] /\ readable \in [Task -> BOOLEAN]
    /\ cached \in [Task -> BOOLEAN]
    /\ rec \in [Task -> Record]
    /\ lock \in [Task -> Caller \cup Session \cup {Nobody}]
    /\ entries \in [Task -> Nat]

(* A request and a session carry an operation the store knows by the time   *)
(* they ask for the lock.                                                   *)
CallsOK ==
    /\ call \in [Caller -> CallType]
    /\ \A c \in Caller :
           /\ call[c].pc \in {"lock", "write"} => call[c].op.kind \in WriteKind
           /\ call[c].pc = "view" => call[c].job.kind \in Viewing \cup {"create"}
SessionsOK ==
    /\ sess \in [Session -> SessionType]
    /\ \A s \in Session :
           sess[s].pc \in {"lock", "park", "write"} => sess[s].op.kind \in WriteKind
ScanOK ==
    scan \in [pc : {"idle", "list", "rows", "fresh", "create"}, todo : SUBSET Task,
              task : Task]

TypeInv == StoreOK /\ CallsOK /\ SessionsOK /\ ScanOK

(* Every value a variable starts from or is reset to has its type.          *)
LEMMA Constants ==
    /\ (CHOOSE t \in Task : TRUE) \in Task
    /\ NoOp \in OpType /\ NoBase \in Record /\ IdleCall \in CallType
    /\ NoSession \in SessionType
    /\ \A by \in SUBSET Task : NewRecord(by) \in Record
<1>1. (CHOOSE t \in Task : TRUE) \in Task
  BY BacklogAssumption
<1>2. NoOp \in OpType
  BY <1>1 DEF NoOp, OpType
<1>3. \A by \in SUBSET Task : NewRecord(by) \in Record
  BY DEF NewRecord, Record, TaskStatus, Open
<1>4. NoBase \in Record
  BY <1>3 DEF NoBase
<1>5. IdleCall \in CallType
  BY <1>2, <1>4 DEF IdleCall, CallType
<1>6. NoSession \in SessionType
  BY <1>2, <1>4 DEF NoSession, SessionType
<1> QED
  BY <1>1, <1>2, <1>3, <1>4, <1>5, <1>6

(* What a store operation makes of a record.                                *)
LEMMA AppliedRecord ==
    ASSUME NEW op \in OpType, op.kind \in WriteKind, NEW r \in Record
    PROVE  /\ Applied(op, r) \in Record
           /\ Applied(op, r).by = IF op.kind = "block" THEN r.by \cup op.other
                                  ELSE IF op.kind = "unblock" THEN r.by \ op.other
                                  ELSE r.by
           /\ Applied(op, r).visits = IF op.kind = "enter" THEN r.visits + 1
                                      ELSE IF op.kind = "reset" THEN 0
                                      ELSE r.visits
           /\ Applied(op, r).status = IF op.kind = "enter" THEN "work"
                                      ELSE IF op.kind \in TaskStatus THEN op.kind
                                      ELSE r.status
           /\ Applied(op, r).enrolled = IF op.kind = "enter" THEN TRUE
                                        ELSE IF op.kind \in TaskStatus THEN op.enr
                                        ELSE r.enrolled
<1> USE DEF Applied, Record, OpType, Block, Unblock, UnsetVisits, UpdateTask, BumpStepVisit,
            SetPosition
<1>1. CASE op.kind = "block"
  BY <1>1 DEF TaskStatus, Open, Closing
<1>2. CASE op.kind = "unblock"
  BY <1>2 DEF TaskStatus, Open, Closing
<1>3. CASE op.kind = "reset"
  BY <1>3 DEF TaskStatus, Open, Closing
<1>4. CASE op.kind = "edit"
  BY <1>4 DEF TaskStatus, Open, Closing
<1>5. CASE op.kind = "enter"
  <2> DEFINE w == SetPosition(r, "work", TRUE)
  <2>1. Applied(op, r) = BumpStepVisit(w)
    BY <1>5 DEF TaskStatus, Open, Closing
  <2>2. /\ w \in Record /\ w.status = "work" /\ w.enrolled /\ w.by = r.by
        /\ w.visits = r.visits
    BY DEF TaskStatus, Open, Closing
  <2> HIDE DEF w
  <2>3. /\ BumpStepVisit(w) \in Record
        /\ BumpStepVisit(w).status = "work" /\ BumpStepVisit(w).enrolled
        /\ BumpStepVisit(w).by = r.by /\ BumpStepVisit(w).visits = r.visits + 1
    BY <2>2
  <2> HIDE DEF BumpStepVisit, SetPosition, Applied
  <2> QED
    BY <2>1, <2>3, <1>5
<1>6. CASE op.kind \in TaskStatus
  BY <1>6 DEF TaskStatus, Open, Closing
<1> QED
  BY <1>1, <1>2, <1>3, <1>4, <1>5, <1>6 DEF WriteKind

(* The next state of one request.                                           *)
LEMMA CallSet ==
    ASSUME CallsOK, NEW c \in Caller, NEW r \in CallType, call' = [call EXCEPT ![c] = r],
           r.pc \in {"lock", "write"} => r.op.kind \in WriteKind,
           r.pc = "view" => r.job.kind \in Viewing \cup {"create"}
    PROVE  CallsOK'
BY DEF CallsOK

(* Every step keeps the types, so what is written is always a record.       *)
LEMMA TypeStep ==
    TypeInv /\ [Next]_vars => TypeInv'
<1> SUFFICES ASSUME StoreOK, CallsOK, SessionsOK, ScanOK, [Next]_vars PROVE TypeInv'
  BY DEF TypeInv
<1> USE DEF storeVars, histVars
<1>a. UNCHANGED storeVars /\ UNCHANGED entries => StoreOK'
  BY DEF StoreOK
<1>b. UNCHANGED call => CallsOK'
  BY DEF CallsOK
<1>c. UNCHANGED sess => SessionsOK'
  BY DEF SessionsOK
<1>d. UNCHANGED scan => ScanOK'
  BY DEF ScanOK
<1>e. ASSUME NEW t \in Task, Reconcile(t), UNCHANGED <<made, rec, entries>>,
             \/ UNCHANGED lock
             \/ \E x \in Caller \cup Session : TakeLock(x, t)
      PROVE  StoreOK'
  <2>1. Found(t) \in BOOLEAN
    BY DEF Found
  <2>2. lock' \in [Task -> Caller \cup Session \cup {Nobody}]
    BY <1>e DEF StoreOK, TakeLock
  <2> QED
    BY <1>e, <2>1, <2>2 DEF StoreOK, Reconcile
<1>f. ASSUME NEW op \in OpType, op.kind \in WriteKind, NEW r \in Record, UNCHANGED made,
             WriteTask(op.task, Applied(op, r)), Asked(op)
      PROVE  StoreOK'
  <2>1. entries' \in [Task -> Nat]
    BY <1>f DEF StoreOK, Asked, OpType
  <2>2. Applied(op, r) \in Record
    BY <1>f, AppliedRecord
  <2> HIDE DEF Applied
  <2> QED
    BY <1>f, <2>1, <2>2 DEF StoreOK, WriteTask
<1>g. \A c \in Caller : call[c] \in CallType
  BY DEF CallsOK
<1>h. \A s \in Session : sess[s] \in SessionType
  BY DEF SessionsOK
<1>i. ASSUME NEW c \in Caller, Answer(c) \/ Refuse(c) PROVE CallsOK'
  <2>1. /\ IdleCall \in CallType
        /\ [IdleCall EXCEPT !.job = call[c].job, !.pc = "ok"] \in CallType
    BY <1>g, Constants DEF CallType
  <2> QED
    BY <1>i, <2>1, CallSet DEF Answer, Refuse, IdleCall
<1>1. CASE UNCHANGED vars
  BY <1>1, <1>a, <1>b, <1>c, <1>d DEF vars, TypeInv
<1>2. ASSUME NEW t \in Task, Vanish(t) \/ Repair(t) PROVE TypeInv'
  <2>1. StoreOK'
    BY <1>2 DEF Vanish, Repair, StoreOK
  <2> QED
    BY <1>2, <2>1, <1>b, <1>c, <1>d DEF Vanish, Repair, TypeInv
<1>3. ASSUME NEW t \in Task, Watched(t) PROVE TypeInv'
  BY <1>3, <1>b, <1>c, <1>d, <1>e DEF Watched, TypeInv
<1>4. ASSUME NEW c \in Caller, NEW j \in Jobs[c], Issue(c, j) PROVE TypeInv'
  <2>1. j \in Wish
    BY BacklogAssumption
  <2>2. PICK pc \in {"make", "lock", "view"} :
            /\ Send(c, j, pc)
            /\ pc = "lock" => j.kind \in WriteKind
            /\ pc = "view" => j.kind \in Viewing
    BY <1>4 DEF Issue, TaskCreate, TaskUpdate, TaskEnroll, TaskResume, TaskTerminal,
                TaskReopen, TaskUnblock, MetadataUnset, Viewing, Closing, WriteKind
  <2>3. OpOf(j, j.kind, FALSE) \in OpType
    BY <2>1 DEF OpOf, OpType, Wish
  <2> DEFINE r == [IdleCall EXCEPT !.job = j, !.todo = j.blocks, !.op = OpOf(j, j.kind, FALSE),
                                   !.pc = pc]
  <2>4. r \in CallType /\ r.pc = pc /\ r.job = j /\ r.op.kind = j.kind
    BY <2>1, <2>2, <2>3, Constants DEF CallType, Wish, OpOf
  <2>5. CallsOK'
    <3> HIDE DEF r
    <3>1. call' = [call EXCEPT ![c] = r]
      BY <2>2 DEF Send, r
    <3> QED
      BY <2>2, <2>4, <3>1, CallSet
  <2> QED
    BY <2>2, <2>5, <1>a, <1>c, <1>d DEF Send, TypeInv
<1>5. ASSUME NEW c \in Caller, Make(c) PROVE TypeInv'
  <2> DEFINE r == [call[c] EXCEPT !.pc = "look"]
  <2>1. r \in CallType /\ r.pc = "look"
    BY <1>g DEF CallType
  <2>2. CallsOK'
    <3>1. call' = [call EXCEPT ![c] = r]
      BY <1>5 DEF Make
    <3> HIDE DEF r
    <3> QED
      BY <2>1, <3>1, CallSet
  <2>3. Created(call[c].job) \in Record
    <3>1. call[c].job.by \in SUBSET Task
      BY <1>g DEF CallType, Wish, NoJob
    <3> QED
      BY <3>1, Constants DEF Created
  <2>4. StoreOK'
    BY <1>5, <2>3 DEF Make, StoreOK
  <2> QED
    BY <1>5, <2>2, <2>4, <1>c, <1>d DEF Make, TypeInv
<1>6. ASSUME NEW c \in Caller, View(c) PROVE TypeInv'
  <2> DEFINE j == call[c].job
             kind == IF j.kind = "create" THEN "enroll" ELSE j.kind
             t == j.task
             r == [call[c] EXCEPT !.pc = "lock", !.seen = rec[t],
                                  !.op = OpOf(j, Wanted(kind, rec[t]), rec[t].enrolled)]
  <2>1. t \in Task /\ j.by \in SUBSET Task
    BY <1>g, Constants DEF CallType, Wish, NoJob
  <2>2. StoreOK'
    BY <1>6, <2>1, <1>e DEF View
  <2>3. kind \in Viewing
    BY <1>6 DEF View, CallsOK, Viewing
  <2>4. Wanted(kind, rec[t]) \in WriteKind
    BY <2>3 DEF Wanted, Viewing, WriteKind, TaskStatus, Open, Closing
  <2>5. OpOf(j, Wanted(kind, rec[t]), rec[t].enrolled) \in OpType
        /\ OpOf(j, Wanted(kind, rec[t]), rec[t].enrolled).kind \in WriteKind
    <3>1. rec[t].enrolled \in BOOLEAN
      BY <2>1 DEF StoreOK, Record
    <3> QED
      BY <2>1, <2>4, <3>1 DEF OpOf, OpType
  <2>6. r \in CallType /\ r.pc = "lock" /\ r.op.kind \in WriteKind
    BY <2>1, <2>5, <1>g DEF CallType, StoreOK
  <2>7. call' = [call EXCEPT ![c] = r] \/ Answer(c) \/ Refuse(c)
    BY <1>6 DEF View
  <2>8. CallsOK'
    <3> HIDE DEF r
    <3> QED
      BY <2>6, <2>7, <1>i, CallSet
  <2> QED
    BY <1>6, <2>2, <2>8, <1>c, <1>d DEF View, TypeInv
<1>7. ASSUME NEW c \in Caller, Lock(c) PROVE TypeInv'
  <2> DEFINE t == call[c].op.task
             r == [call[c] EXCEPT !.pc = "write", !.base = LockedBase(c, t)]
  <2>1. t \in Task /\ call[c].op.kind \in WriteKind
    BY <1>7, <1>g DEF CallType, OpType, CallsOK, Lock
  <2>2. StoreOK'
    BY <1>7, <2>1, <1>e DEF Lock
  <2>3. r \in CallType /\ r.pc = "write" /\ r.op.kind \in WriteKind
    BY <2>1, <1>g DEF CallType, StoreOK, LockedBase
  <2>4. call' = [call EXCEPT ![c] = r] \/ Refuse(c)
    BY <1>7, <1>g DEF Lock, CallsOK
  <2>5. CallsOK'
    <3> HIDE DEF r
    <3> QED
      BY <2>3, <2>4, <1>i, CallSet
  <2> QED
    BY <1>7, <2>2, <2>5, <1>c, <1>d DEF Lock, TypeInv
<1>8. ASSUME NEW c \in Caller, Write(c) PROVE TypeInv'
  <2> DEFINE op == call[c].op
             r == [call[c] EXCEPT !.pc = "look", !.base = NoBase]
  <2>1. op \in OpType /\ op.kind \in WriteKind /\ call[c].base \in Record
    BY <1>8, <1>g DEF CallType, CallsOK, Write
  <2>2. StoreOK'
    <3>1. WriteTask(op.task, Applied(op, call[c].base)) /\ Asked(op) /\ UNCHANGED made
      BY <1>8 DEF Write
    <3> QED
      BY <2>1, <3>1, <1>f
  <2>3. r \in CallType /\ r.pc = "look"
    BY <2>1, <1>g, Constants DEF CallType
  <2>4. call' = [call EXCEPT ![c] = r]
    BY <1>8, <1>g DEF Write, CallsOK
  <2>5. CallsOK'
    <3> HIDE DEF r
    <3> QED
      BY <2>3, <2>4, CallSet
  <2> QED
    BY <1>8, <2>2, <2>5, <1>c, <1>d DEF Write, TypeInv
<1>9. ASSUME NEW c \in Caller, Look(c) PROVE TypeInv'
  <2> DEFINE t == call[c].op.task
             j == call[c].job
  <2>1. t \in Task
    BY <1>g DEF CallType, OpType
  <2>2. StoreOK'
    BY <1>9, <2>1, <1>e DEF Look
  <2>3. ASSUME NEW x \in call[c].todo, j.kind = "create",
               call' = [call EXCEPT ![c].pc = "lock", ![c].todo = @ \ {x},
                           ![c].op = [kind |-> "block", task |-> x, other |-> {j.task}, enr |-> FALSE]]
        PROVE  CallsOK'
    <3> DEFINE op == [kind |-> "block", task |-> x, other |-> {j.task}, enr |-> FALSE]
               r == [call[c] EXCEPT !.pc = "lock", !.todo = @ \ {x}, !.op = op]
    <3>1. j.task \in Task /\ x \in Task
      BY <1>g, <2>3, Constants DEF CallType, Wish, NoJob
    <3>2. op \in OpType /\ op.kind = "block"
      BY <3>1 DEF OpType, WriteKind
    <3>3. call' = [call EXCEPT ![c] = r]
      BY <2>3, <1>g DEF CallsOK
    <3> HIDE DEF op
    <3>4. r \in CallType /\ r.pc = "lock" /\ r.op = op
      BY <3>2, <1>g DEF CallType
    <3> HIDE DEF r
    <3> QED
      BY <3>2, <3>3, <3>4, CallSet DEF WriteKind
  <2>4. ASSUME NEW pc \in {"view", "again"}, pc = "view" => j.kind = "create",
               call' = [call EXCEPT ![c].pc = pc]
        PROVE  CallsOK'
    <3> DEFINE r == [call[c] EXCEPT !.pc = pc]
    <3>1. r \in CallType /\ r.pc = pc /\ r.job = j
      BY <2>4, <1>g DEF CallType
    <3>2. call' = [call EXCEPT ![c] = r]
      BY <2>4
    <3> HIDE DEF r
    <3> QED
      BY <2>4, <3>1, <3>2, CallSet
  <2>5. CallsOK'
    BY <1>9, <2>3, <2>4, <1>i DEF Look, CreateGoesOn
  <2> QED
    BY <1>9, <2>2, <2>5, <1>c, <1>d DEF Look, TypeInv
<1>10. ASSUME NEW c \in Caller, Again(c) PROVE TypeInv'
  <2> DEFINE op == [call[c].op EXCEPT !.kind = call[c].seen.status]
             r == [call[c] EXCEPT !.pc = "lock", !.op = op]
  <2>1. op \in OpType /\ op.kind \in WriteKind
    BY <1>g DEF CallType, OpType, WriteKind, Record
  <2>2. r \in CallType /\ r.pc = "lock" /\ r.op = op
    BY <2>1, <1>g DEF CallType
  <2>3. call' = [call EXCEPT ![c] = r] \/ Answer(c)
    <3>1. CASE call' = [call EXCEPT ![c].pc = "lock", ![c].op.kind = call[c].seen.status]
      <4>1. call'[c] = r /\ \A d \in Caller : d # c => call'[d] = call[d]
        BY <3>1, <1>g DEF CallsOK, CallType, OpType
      <4> QED
        BY <3>1, <4>1 DEF CallsOK
    <3> QED
      BY <3>1, <1>10 DEF Again
  <2>4. CallsOK'
    <3> HIDE DEF r, op
    <3> QED
      BY <2>1, <2>2, <2>3, <1>i, CallSet
  <2> QED
    BY <1>10, <2>4, <1>a, <1>c, <1>d DEF Again, TypeInv
<1>11. ASSUME NEW c \in Caller, Kill(c) PROVE TypeInv'
  <2> DEFINE r == [call[c] EXCEPT !.killed = TRUE]
  <2>1. r \in CallType /\ r.pc = call[c].pc /\ r.op = call[c].op /\ r.job = call[c].job
    BY <1>g DEF CallType
  <2>2. call' = [call EXCEPT ![c] = r]
    BY <1>11 DEF Kill
  <2>3. CallsOK'
    <3> HIDE DEF r
    <3>1. /\ r.pc \in {"lock", "write"} => r.op.kind \in WriteKind
          /\ r.pc = "view" => r.job.kind \in Viewing \cup {"create"}
      BY <2>1 DEF CallsOK
    <3> QED
      BY <2>1, <2>2, <3>1, CallSet
  <2> QED
    BY <1>11, <2>3, <1>a, <1>c, <1>d DEF Kill, TypeInv
<1>12. ASSUME NEW s \in Session, SessionLock(s) PROVE TypeInv'
  <2> DEFINE t == sess[s].op.task
  <2>1. t \in Task
    BY <1>h DEF SessionType, OpType
  <2>2. StoreOK'
    BY <1>12, <2>1, <1>e DEF SessionLock, Owner
  <2>3. SessionsOK'
    <3> DEFINE r == [sess[s] EXCEPT !.base = rec[t],
                        !.pc = IF Found(t) THEN "write"
                               ELSE IF sess[s].pc = "park" THEN "seal" ELSE "stuck"]
    <3>1. r \in SessionType /\ r.op = sess[s].op /\ sess[s].op.kind \in WriteKind
      BY <1>12, <1>h, <2>1 DEF SessionType, StoreOK, SessionLock, SessionsOK
    <3>2. sess' = [sess EXCEPT ![s] = r]
      BY <1>12, <1>h DEF SessionLock, Owner, SessionsOK
    <3> HIDE DEF r
    <3> QED
      BY <3>1, <3>2 DEF SessionsOK
  <2> QED
    BY <1>12, <2>2, <2>3, <1>b, <1>d DEF SessionLock, TypeInv
<1>13. ASSUME NEW s \in Session, SessionWrite(s) PROVE TypeInv'
  <2> DEFINE op == sess[s].op
             r == [sess[s] EXCEPT !.pc = "seal", !.base = NoBase]
  <2>1. op \in OpType /\ op.kind \in WriteKind /\ sess[s].base \in Record
    BY <1>13, <1>h DEF SessionType, SessionsOK, SessionWrite
  <2>2. StoreOK'
    <3>1. WriteTask(op.task, Applied(op, sess[s].base)) /\ Asked(op) /\ UNCHANGED made
      BY <1>13 DEF SessionWrite, Owner
    <3> QED
      BY <2>1, <3>1, <1>f
  <2>3. SessionsOK'
    <3>1. r \in SessionType /\ r.pc = "seal"
      BY <1>h, Constants DEF SessionType
    <3>2. sess' = [sess EXCEPT ![s] = r]
      BY <1>13, <1>h DEF SessionWrite, SessionsOK
    <3> HIDE DEF r
    <3> QED
      BY <3>1, <3>2 DEF SessionsOK
  <2> QED
    BY <1>13, <2>2, <2>3, <1>b, <1>d DEF SessionWrite, TypeInv
<1>14. ASSUME NEW s \in Session, SessionSeal(s) PROVE TypeInv'
  <2> DEFINE r == [NoSession EXCEPT !.pc = "sealed"]
  <2>1. r \in SessionType /\ r.pc = "sealed"
    BY Constants DEF SessionType
  <2>2. SessionsOK'
    <3> HIDE DEF r
    <3>1. sess' = [sess EXCEPT ![s] = r]
      BY <1>14 DEF SessionSeal, r
    <3> QED
      BY <2>1, <3>1 DEF SessionsOK
  <2> QED
    BY <1>14, <2>2, <1>a, <1>b, <1>d DEF SessionSeal, TypeInv
<1>15. ASSUME NEW s \in Session, NEW k \in {"enter", "done", "human"}, SessionEnds(s, k)
       PROVE  TypeInv'
  <2> DEFINE op == [sess[s].op EXCEPT !.kind = k, !.enr = TRUE]
             r == [sess[s] EXCEPT !.pc = "lock", !.op = op]
  <2>1. op \in OpType /\ op.kind \in WriteKind
    BY <1>h DEF SessionType, OpType, WriteKind, TaskStatus, Open, Closing
  <2>2. r \in SessionType /\ r.op = op
    BY <2>1, <1>h DEF SessionType
  <2>3. sess' = [sess EXCEPT ![s] = r]
    BY <1>15, <1>h DEF SessionEnds, SessionsOK
  <2>4. SessionsOK'
    <3> HIDE DEF r, op
    <3> QED
      BY <2>1, <2>2, <2>3 DEF SessionsOK
  <2> QED
    BY <1>15, <2>4, <1>a, <1>b, <1>d DEF SessionEnds, TypeInv
<1>16. CASE ScanStart
  <2>1. \A t \in Task : Found(t) \in BOOLEAN
    BY DEF Found
  <2>2. StoreOK'
    BY <1>16, <2>1 DEF ScanStart, StoreOK
  <2>3. ScanOK'
    BY <1>16 DEF ScanStart, ScanOK
  <2> QED
    BY <1>16, <2>2, <2>3, <1>b, <1>c DEF ScanStart, TypeInv
<1>17. CASE ScanRows \/ ScanDone \/ \E t \in Task : ScanNext(t)
  <2>1. ScanRows => ScanOK'
    BY DEF ScanRows, ScanOK
  <2>2. ScanDone => ScanOK'
    BY Constants DEF ScanDone, ScanOK, IdleScan, NoOp
  <2>3. ASSUME NEW t \in Task, ScanNext(t) PROVE ScanOK'
    <3>1. PICK u \in Task, pc \in {"rows", "fresh"} :
              scan' = [scan EXCEPT !.todo = scan.todo \ {t}, !.task = u, !.pc = pc]
      BY <2>3 DEF ScanNext, ScanOK
    <3> QED
      BY <3>1 DEF ScanOK
  <2> QED
    BY <1>17, <2>1, <2>2, <2>3, <1>a, <1>b, <1>c DEF ScanRows, ScanDone, ScanNext, TypeInv
<1>18. CASE DispatchRow
  <2>1. StoreOK'
    BY <1>18, <1>e DEF DispatchRow, ScanOK
  <2>2. ScanOK'
    BY <1>18, Constants DEF DispatchRow, ScanOK, NextRow, NoOp
  <2> QED
    BY <1>18, <2>1, <2>2, <1>b, <1>c DEF DispatchRow, TypeInv
<1>19. ASSUME NEW s \in Session, DispatchCreate(s) PROVE TypeInv'
  <2> DEFINE op == [sess[s].op EXCEPT !.task = scan.task]
             r == [sess[s] EXCEPT !.pc = "live", !.op = op]
  <2>1. op \in OpType
    BY <1>h DEF SessionType, OpType, ScanOK
  <2>2. r \in SessionType /\ r.pc = "live"
    BY <2>1, <1>h DEF SessionType
  <2>3. sess' = [sess EXCEPT ![s] = r]
    BY <1>19, <1>h DEF DispatchCreate, SessionsOK
  <2>4. SessionsOK'
    <3> HIDE DEF r, op
    <3> QED
      BY <2>1, <2>2, <2>3 DEF SessionsOK
  <2>5. ScanOK'
    BY <1>19, Constants DEF DispatchCreate, ScanOK, NextRow, NoOp
  <2> QED
    BY <1>19, <2>4, <2>5, <1>a, <1>b DEF DispatchCreate, TypeInv
<1>20. ASSUME NEW s \in Session, Park(s) PROVE TypeInv'
  <2> DEFINE t == sess[s].op.task
             op == [sess[s].op EXCEPT !.kind = "human", !.enr = rec[t].enrolled]
             r == [sess[s] EXCEPT !.pc = IF Found(t) THEN "park" ELSE "seal", !.op = op]
  <2>1. t \in Task
    BY <1>h DEF SessionType, OpType
  <2>2. op \in OpType /\ op.kind = "human" /\ "human" \in WriteKind
    BY <1>h, <2>1 DEF SessionType, OpType, WriteKind, TaskStatus, Open, StoreOK, Record
  <2>3. sess' = [sess EXCEPT ![s] = r]
    BY <1>20, <1>h DEF Park, Owner, SessionsOK
  <2>4. StoreOK'
    BY <1>20, <2>1, <1>e DEF Park, Owner
  <2> HIDE DEF op, t
  <2>5. r \in SessionType /\ r.op = op
    BY <2>2, <1>h DEF SessionType
  <2> HIDE DEF r
  <2>6. SessionsOK'
    BY <2>2, <2>3, <2>5 DEF SessionsOK
  <2> QED
    BY <1>20, <2>4, <2>6, <1>b, <1>d DEF Park, TypeInv
<1> QED
  BY <1>1, <1>2, <1>3, <1>4, <1>5, <1>6, <1>7, <1>8, <1>9, <1>10, <1>11, <1>12, <1>13,
     <1>14, <1>15, <1>16, <1>17, <1>18, <1>19, <1>20
     DEF Next, CallStep, SessionStep, ScanStep

-----------------------------------------------------------------------------
(* Whoever is about to write holds the lock and has the record as it is.    *)
Prepared(x, e) ==
    made[e.op.task] /\ lock[e.op.task] = x /\ e.base = rec[e.op.task]
LockInv ==
    /\ \A c \in Caller : call[c].pc = "write" => Prepared(c, call[c])
    /\ \A s \in Session : sess[s].pc = "write" => Prepared(s, sess[s])

(* A create has an id of its own, and nothing was counted for a new id.     *)
Making(c) == call[c].pc = "make"
MakeInv ==
    /\ \A c \in Caller : Making(c) => call[c].job.kind = "create" /\ ~made[call[c].job.task]
    /\ \A c, d \in Caller :
           Making(c) /\ Making(d) /\ call[c].job.task = call[d].job.task => c = d
    /\ \A t \in Task : ~made[t] => entries[t] = 0

(* Steps that take no lock, write no record and send no create.             *)
LEMMA LockFrame ==
    ASSUME TypeInv, LockInv, MakeInv, VisitsCounted, UNCHANGED <<made, rec, lock, entries>>,
           \A c \in Caller :
               /\ call'[c].pc = "write" => /\ call[c].pc = "write" /\ call'[c].op = call[c].op
                                           /\ call'[c].base = call[c].base
               /\ call'[c].pc = "make" => call[c].pc = "make" /\ call'[c].job = call[c].job,
           \A s \in Session :
               sess'[s].pc = "write" => sess'[s] = sess[s]
    PROVE  LockInv' /\ MakeInv' /\ VisitsCounted'
<1>1. LockInv'
  BY DEF LockInv, Prepared
<1>2. MakeInv'
  BY DEF MakeInv, Making
<1>3. VisitsCounted'
  BY DEF VisitsCounted
<1> QED
  BY <1>1, <1>2, <1>3

(* The lock of t is taken by x, or the operation of x on t is written.      *)
LEMMA LockOne ==
    ASSUME TypeInv, LockInv, NEW x \in Caller \cup Session, NEW t \in Task,
           lock[t] \in {Nobody, x} \/ ~made[t],
           \A u \in Task \ {t} : lock'[u] = lock[u] /\ made'[u] = made[u] /\ rec'[u] = rec[u],
           \A c \in Caller : call'[c].pc = "write" =>
               \/ c # x /\ call'[c] = call[c]
               \/ Prepared(c, call[c])',
           \A s \in Session : sess'[s].pc = "write" =>
               \/ s # x /\ sess'[s] = sess[s]
               \/ Prepared(s, sess[s])'
    PROVE  LockInv'
<1>1. ASSUME NEW c \in Caller, call'[c].pc = "write" PROVE Prepared(c, call[c])'
  <2>1. CASE c # x /\ call'[c] = call[c]
    <3>1. call[c].op.task \in Task /\ Prepared(c, call[c])
      BY <1>1, <2>1 DEF TypeInv, CallsOK, CallType, OpType, LockInv
    <3>2. call[c].op.task # t
      BY <2>1, <3>1, BacklogAssumption DEF Prepared
    <3> QED
      BY <2>1, <3>1, <3>2 DEF Prepared
  <2> QED
    BY <1>1, <2>1
<1>2. ASSUME NEW s \in Session, sess'[s].pc = "write" PROVE Prepared(s, sess[s])'
  <2>1. CASE s # x /\ sess'[s] = sess[s]
    <3>1. sess[s].op.task \in Task /\ Prepared(s, sess[s])
      BY <1>2, <2>1 DEF TypeInv, SessionsOK, SessionType, OpType, LockInv
    <3>2. sess[s].op.task # t
      BY <2>1, <3>1, BacklogAssumption DEF Prepared
    <3> QED
      BY <2>1, <3>1, <3>2 DEF Prepared
  <2> QED
    BY <1>2, <2>1
<1> QED
  BY <1>1, <1>2 DEF LockInv

(* An operation is written by the holder of the lock.                       *)
LEMMA VisitWritten ==
    ASSUME StoreOK, MakeInv, VisitsCounted, NEW op \in OpType, op.kind \in WriteKind,
           made[op.task], WriteTask(op.task, Applied(op, rec[op.task])), Asked(op)
    PROVE  /\ VisitsCounted'
           /\ \A t \in Task : ~made[t] => entries'[t] = 0
           /\ \A u \in Task \ {op.task} : lock'[u] = lock[u] /\ rec'[u] = rec[u]
<1> DEFINE t == op.task
<1>1. t \in Task /\ rec[t] \in Record
  BY DEF OpType, StoreOK
<1>2. Applied(op, rec[t]).visits = IF op.kind = "enter" THEN rec[t].visits + 1
                                   ELSE IF op.kind = "reset" THEN 0
                                   ELSE rec[t].visits
  BY <1>1, AppliedRecord
<1>3. /\ rec'[t] = Applied(op, rec[t])
      /\ \A u \in Task \ {t} : lock'[u] = lock[u] /\ rec'[u] = rec[u]
  BY <1>1 DEF WriteTask, StoreOK
<1>4. /\ entries'[t] = IF op.kind = "enter" THEN entries[t] + 1
                       ELSE IF op.kind = "reset" THEN 0 ELSE entries[t]
      /\ \A u \in Task \ {t} : entries'[u] = entries[u]
  BY <1>1 DEF Asked, StoreOK
<1>5. entries[t] = rec[t].visits /\ \A u \in Task \ {t} : entries[u] = rec[u].visits
  BY <1>1 DEF VisitsCounted
<1>6. \A u \in Task \ {t} : ~made[u] => entries[u] = 0
  BY DEF MakeInv
<1> HIDE DEF t
<1>7. VisitsCounted'
  BY <1>1, <1>2, <1>3, <1>4, <1>5 DEF VisitsCounted
<1> QED
  BY <1>1, <1>3, <1>4, <1>6, <1>7 DEF t

(* Whatever the step, a task's record changes only under the hand of the    *)
(* holder of its lock, who applies its operation to the record as it is     *)
(* (mutateTask).                                                            *)
LEMMA LockStep ==
    TypeInv /\ LockInv /\ MakeInv /\ VisitsCounted /\ [Next]_vars
        => LockInv' /\ MakeInv' /\ VisitsCounted'
<1> SUFFICES ASSUME TypeInv, LockInv, MakeInv, VisitsCounted, [Next]_vars
             PROVE  LockInv' /\ MakeInv' /\ VisitsCounted'
  OBVIOUS
<1> USE DEF storeVars, histVars
<1>a. \A c \in Caller : call[c] \in CallType
  BY DEF TypeInv, CallsOK
<1>b. \A s \in Session : sess[s] \in SessionType
  BY DEF TypeInv, SessionsOK
<1>c. ASSUME NEW c \in Caller, Answer(c) \/ Refuse(c)
      PROVE  \A d \in Caller : \/ d # c /\ call'[d] = call[d]
                              \/ call'[d].pc \in {"idle", "ok"}
  <2>1. \A d \in Caller : d # c => call'[d] = call[d]
    BY <1>c DEF Answer, Refuse, TypeInv, CallsOK
  <2> DEFINE r == [IdleCall EXCEPT !.job = call[c].job, !.pc = "ok"]
  <2>2. r.pc = "ok" /\ IdleCall.pc = "idle"
    BY DEF IdleCall
  <2>3. call' = [call EXCEPT ![c] = r] \/ call' = [call EXCEPT ![c] = IdleCall]
    BY <1>c DEF Answer, Refuse
  <2> HIDE DEF r
  <2>4. call'[c] = r \/ call'[c] = IdleCall
    BY <2>3 DEF TypeInv, CallsOK
  <2> QED
    BY <2>1, <2>2, <2>4
<1>1. CASE \/ UNCHANGED vars
           \/ ScanRows \/ ScanDone \/ \E t \in Task : ScanNext(t) \/ Vanish(t) \/ Repair(t)
  <2>1. UNCHANGED <<made, rec, lock, call, sess, entries>>
    BY <1>1 DEF vars, ScanRows, ScanDone, ScanNext, Vanish, Repair
  <2> QED
    BY <2>1, LockFrame
<1>2. CASE ScanStart \/ DispatchRow \/ \E t \in Task : Watched(t)
  <2>1. UNCHANGED <<made, rec, lock, call, sess, entries>>
    BY <1>2 DEF ScanStart, DispatchRow, Watched
  <2> QED
    BY <2>1, LockFrame
<1>3. ASSUME NEW c \in Caller, NEW j \in Jobs[c], Issue(c, j)
      PROVE  LockInv' /\ MakeInv' /\ VisitsCounted'
  <2>1. UNCHANGED <<made, rec, lock, sess, entries>>
    BY <1>3 DEF Issue, TaskCreate, TaskUpdate, TaskEnroll, TaskResume, TaskTerminal,
                TaskReopen, TaskUnblock, MetadataUnset, Send
  <2>2. /\ \A d \in Caller : d # c => call'[d] = call[d]
        /\ call'[c].job = j /\ call'[c].pc \in {"make", "lock", "view"}
        /\ call'[c].pc = "make" =>
               /\ j.kind = "create" /\ ~made[j.task]
               /\ \A d \in Caller : InFlight(d) /\ call[d].job.kind = "create"
                                        => call[d].job.task # j.task
    <3>1. PICK pc \in {"make", "lock", "view"} :
              /\ Send(c, j, pc)
              /\ pc = "make" =>
                     /\ j.kind = "create" /\ ~made[j.task]
                     /\ \A d \in Caller : InFlight(d) /\ call[d].job.kind = "create"
                                              => call[d].job.task # j.task
      BY <1>3 DEF Issue, TaskCreate, TaskUpdate, TaskEnroll, TaskResume, TaskTerminal,
                  TaskReopen, TaskUnblock, MetadataUnset
    <3>2. /\ \A d \in Caller : d # c => call'[d] = call[d]
          /\ call'[c].job = j /\ call'[c].pc = pc
      BY <3>1 DEF Send, IdleCall, TypeInv, CallsOK
    <3> QED
      BY <3>1, <3>2
  <2>3. LockInv'
    BY <2>1, <2>2 DEF LockInv, Prepared
  <2>4. \A d \in Caller : Making(d) /\ d # c /\ call'[c].pc = "make"
                              => call[d].job.task # j.task
    BY <2>2 DEF MakeInv, Making, InFlight
  <2>5. MakeInv'
    BY <2>1, <2>2, <2>4 DEF MakeInv, Making
  <2>6. VisitsCounted'
    BY <2>1 DEF VisitsCounted
  <2> QED
    BY <2>3, <2>5, <2>6
<1>4. ASSUME NEW c \in Caller, Make(c) PROVE LockInv' /\ MakeInv' /\ VisitsCounted'
  <2> DEFINE t == call[c].job.task
  <2>1. t \in Task /\ call[c].pc = "make" /\ ~made[t] /\ entries[t] = 0
    BY <1>4, <1>a, Constants DEF Make, MakeInv, Making, CallType, Wish, NoJob
  <2>2. /\ made' = [made EXCEPT ![t] = TRUE] /\ rec' = [rec EXCEPT ![t] = Created(call[c].job)]
        /\ UNCHANGED <<lock, sess, entries>>
        /\ call'[c].pc = "look" /\ \A d \in Caller : d # c => call'[d] = call[d]
    BY <1>4, <1>a DEF Make, TypeInv, CallsOK, CallType
  <2>3. Created(call[c].job).visits = 0
    BY DEF Created, NewRecord
  <2>4. \A u \in Task \ {t} : made'[u] = made[u] /\ rec'[u] = rec[u]
    BY <2>2 DEF TypeInv, StoreOK
  <2>5. made'[t] /\ rec'[t].visits = 0
    BY <2>1, <2>2, <2>3 DEF TypeInv, StoreOK
  <2> HIDE DEF t
  <2>6. LockInv'
    BY <2>1, <2>2, <2>4, LockOne, BacklogAssumption
  <2>7. MakeInv'
    BY <2>1, <2>2, <2>4, <2>5 DEF MakeInv, Making, t
  <2>8. VisitsCounted'
    BY <2>1, <2>2, <2>4, <2>5 DEF VisitsCounted
  <2> QED
    BY <2>6, <2>7, <2>8
<1>5. ASSUME NEW c \in Caller, View(c) \/ Look(c) \/ Again(c)
      PROVE  LockInv' /\ MakeInv' /\ VisitsCounted'
  <2>1. UNCHANGED <<made, rec, lock, sess, entries>>
    BY <1>5 DEF View, Look, Again
  <2>2. \A d \in Caller : \/ d # c /\ call'[d] = call[d]
                          \/ call'[d].pc \in {"idle", "ok", "lock", "view", "again"}
    <3>1. \A d \in Caller : d # c => call'[d] = call[d]
      BY <1>5, <1>c DEF View, Look, CreateGoesOn, Again, Answer, Refuse, TypeInv, CallsOK
    <3>2. Again(c) => call'[c].pc \in {"idle", "ok", "lock"}
      <4>1. CASE call' = [call EXCEPT ![c].pc = "lock", ![c].op.kind = call[c].seen.status]
        BY <4>1, <1>a DEF TypeInv, CallsOK, CallType
      <4> QED
        BY <4>1, <1>c DEF Again
    <3>3. View(c) => call'[c].pc \in {"idle", "ok", "lock"}
      BY <1>a, <1>c DEF View, TypeInv, CallsOK, CallType
    <3>4. Look(c) => call'[c].pc \in {"idle", "ok", "lock", "view", "again"}
      <4>1. ASSUME NEW pc \in {"view", "again"}, call' = [call EXCEPT ![c].pc = pc]
            PROVE  call'[c].pc \in {"view", "again"}
        BY <4>1, <1>a DEF TypeInv, CallsOK, CallType
      <4>2. ASSUME NEW x \in call[c].todo,
                   call' = [call EXCEPT ![c].pc = "lock", ![c].todo = @ \ {x},
                               ![c].op = [kind |-> "block", task |-> x,
                                          other |-> {call[c].job.task}, enr |-> FALSE]]
            PROVE  call'[c].pc = "lock"
        BY <4>2, <1>a DEF TypeInv, CallsOK, CallType
      <4>3. CreateGoesOn(c) => call'[c].pc \in {"idle", "ok", "lock", "view"}
        <5>1. CASE Refuse(c) \/ Answer(c)
          BY <5>1, <1>c
        <5>2. CASE call' = [call EXCEPT ![c].pc = "view"]
          BY <5>2, <1>a DEF TypeInv, CallsOK, CallType
        <5>3. CASE \E x \in call[c].todo :
                      call' = [call EXCEPT ![c].pc = "lock", ![c].todo = @ \ {x},
                                  ![c].op = [kind |-> "block", task |-> x,
                                             other |-> {call[c].job.task}, enr |-> FALSE]]
          BY <5>3, <4>2
        <5> QED
          BY <5>1, <5>2, <5>3 DEF CreateGoesOn
      <4> QED
        BY <4>1, <4>3, <1>c DEF Look
    <3> QED
      BY <1>5, <3>1, <3>2, <3>3, <3>4
  <2> QED
    BY <2>1, <2>2, LockFrame
<1>6. ASSUME NEW c \in Caller, Kill(c) PROVE LockInv' /\ MakeInv' /\ VisitsCounted'
  <2>1. UNCHANGED <<made, rec, lock, sess, entries>>
    BY <1>6 DEF Kill
  <2>2. \A d \in Caller : /\ call'[d].pc = call[d].pc /\ call'[d].op = call[d].op
                          /\ call'[d].base = call[d].base /\ call'[d].job = call[d].job
    BY <1>6, <1>a DEF Kill, TypeInv, CallsOK, CallType
  <2> QED
    BY <2>1, <2>2, LockFrame
<1>7. ASSUME NEW c \in Caller, Lock(c) PROVE LockInv' /\ MakeInv' /\ VisitsCounted'
  <2> DEFINE t == call[c].op.task
  <2>1. t \in Task /\ lock[t] = Nobody /\ UNCHANGED <<made, rec, sess, entries>>
    BY <1>7, <1>a DEF Lock, Unlocked, CallType, OpType
  <2>2. CASE ~Found(t)
    <3>1. UNCHANGED lock /\ Refuse(c)
      BY <1>7, <2>2 DEF Lock, TakeLock
    <3> QED
      BY <2>1, <3>1, <1>c, LockFrame
  <2>3. CASE Found(t)
    <3>1. /\ made[t] /\ lock' = [lock EXCEPT ![t] = c]
          /\ call'[c].pc = "write" /\ call'[c].op.task = t /\ call'[c].base = rec[t]
          /\ \A d \in Caller : d # c => call'[d] = call[d]
      BY <1>7, <1>a, <2>3 DEF Lock, TakeLock, Found, LockedBase, TypeInv, CallsOK, CallType,
                              OpType
    <3>2. lock'[t] = c /\ \A u \in Task \ {t} : lock'[u] = lock[u]
      BY <2>1, <3>1 DEF TypeInv, StoreOK
    <3> HIDE DEF t
    <3>3. Prepared(c, call[c])'
      BY <2>1, <3>1, <3>2 DEF Prepared
    <3>4. LockInv'
      BY <2>1, <3>1, <3>2, <3>3, LockOne, BacklogAssumption
    <3>5. MakeInv'
      BY <2>1, <3>1 DEF MakeInv, Making
    <3>6. VisitsCounted'
      BY <2>1 DEF VisitsCounted
    <3> QED
      BY <3>4, <3>5, <3>6
  <2> QED
    BY <2>2, <2>3
<1>8. ASSUME NEW c \in Caller, Write(c) PROVE LockInv' /\ MakeInv' /\ VisitsCounted'
  <2> DEFINE op == call[c].op
             t == op.task
  <2>1. /\ op \in OpType /\ op.kind \in WriteKind /\ t \in Task
        /\ made[t] /\ lock[t] = c /\ call[c].base = rec[t]
    BY <1>8, <1>a DEF Write, CallType, OpType, TypeInv, CallsOK, LockInv, Prepared
  <2>2. /\ WriteTask(t, Applied(op, rec[t])) /\ Asked(op) /\ UNCHANGED <<made, sess>>
        /\ call'[c].pc = "look" /\ \A d \in Caller : d # c => call'[d] = call[d]
    BY <1>8, <1>a, <2>1 DEF Write, TypeInv, CallsOK, CallType
  <2> HIDE DEF op
  <2>3. /\ VisitsCounted' /\ \A u \in Task : ~made[u] => entries'[u] = 0
        /\ \A u \in Task \ {t} : lock'[u] = lock[u] /\ rec'[u] = rec[u]
    BY <2>1, <2>2, VisitWritten DEF TypeInv
  <2> HIDE DEF t
  <2>4. LockInv'
    BY <2>1, <2>2, <2>3, LockOne, BacklogAssumption
  <2>5. MakeInv'
    BY <2>2, <2>3 DEF MakeInv, Making
  <2> QED
    BY <2>3, <2>4, <2>5
<1>9. ASSUME NEW s \in Session, SessionLock(s) PROVE LockInv' /\ MakeInv' /\ VisitsCounted'
  <2> DEFINE t == sess[s].op.task
  <2>1. t \in Task /\ lock[t] = Nobody /\ UNCHANGED <<made, rec, call, entries>>
    BY <1>9, <1>b DEF SessionLock, Owner, Unlocked, SessionType, OpType
  <2>2. CASE ~Found(t)
    <3>1. UNCHANGED lock
      BY <1>9, <2>2 DEF SessionLock, TakeLock, Owner
    <3>2. \A r \in Session : \/ r # s /\ sess'[r] = sess[r]
                             \/ sess'[r].pc \in {"seal", "stuck"}
      BY <1>9, <2>2, <1>b DEF SessionLock, Owner, TypeInv, SessionsOK, SessionType
    <3> QED
      BY <2>1, <3>1, <3>2, LockFrame
  <2>3. CASE Found(t)
    <3>1. /\ made[t] /\ lock' = [lock EXCEPT ![t] = s]
          /\ sess'[s].op.task = t /\ sess'[s].base = rec[t]
          /\ \A r \in Session : r # s => sess'[r] = sess[r]
      BY <1>9, <1>b, <2>3 DEF SessionLock, TakeLock, Found, Owner, TypeInv, SessionsOK,
                              SessionType, OpType
    <3>2. lock'[t] = s /\ \A u \in Task \ {t} : lock'[u] = lock[u]
      BY <2>1, <3>1 DEF TypeInv, StoreOK
    <3> HIDE DEF t
    <3>3. Prepared(s, sess[s])'
      BY <2>1, <3>1, <3>2 DEF Prepared
    <3>4. LockInv'
      BY <2>1, <3>1, <3>2, <3>3, LockOne, BacklogAssumption
    <3>5. MakeInv'
      BY <2>1 DEF MakeInv, Making
    <3>6. VisitsCounted'
      BY <2>1 DEF VisitsCounted
    <3> QED
      BY <3>4, <3>5, <3>6
  <2> QED
    BY <2>2, <2>3
<1>10. ASSUME NEW s \in Session, SessionWrite(s) PROVE LockInv' /\ MakeInv' /\ VisitsCounted'
  <2> DEFINE op == sess[s].op
             t == op.task
  <2>1. /\ op \in OpType /\ op.kind \in WriteKind /\ t \in Task
        /\ made[t] /\ lock[t] = s /\ sess[s].base = rec[t]
    BY <1>10, <1>b DEF SessionWrite, SessionType, OpType, TypeInv, SessionsOK, LockInv, Prepared
  <2>2. /\ WriteTask(t, Applied(op, rec[t])) /\ Asked(op) /\ UNCHANGED <<made, call>>
        /\ sess'[s].pc = "seal" /\ \A r \in Session : r # s => sess'[r] = sess[r]
    BY <1>10, <1>b, <2>1 DEF SessionWrite, Owner, TypeInv, SessionsOK, SessionType
  <2> HIDE DEF op
  <2>3. /\ VisitsCounted' /\ \A u \in Task : ~made[u] => entries'[u] = 0
        /\ \A u \in Task \ {t} : lock'[u] = lock[u] /\ rec'[u] = rec[u]
    BY <2>1, <2>2, VisitWritten DEF TypeInv
  <2> HIDE DEF t
  <2>4. LockInv'
    BY <2>1, <2>2, <2>3, LockOne, BacklogAssumption
  <2>5. MakeInv'
    BY <2>2, <2>3 DEF MakeInv, Making
  <2> QED
    BY <2>3, <2>4, <2>5
<1>11. ASSUME NEW s \in Session,
              \/ SessionSeal(s) \/ DispatchCreate(s) \/ Park(s)
              \/ \E k \in {"enter", "done", "human"} : SessionEnds(s, k)
       PROVE  LockInv' /\ MakeInv' /\ VisitsCounted'
  <2>1. UNCHANGED <<made, rec, lock, call, entries>>
    BY <1>11 DEF SessionSeal, DispatchCreate, SessionEnds, Park
  <2>2. \A r \in Session : sess'[r] = sess[r]
                           \/ sess'[r].pc \in {"sealed", "live", "lock", "park", "seal"}
    BY <1>11, <1>b DEF SessionSeal, DispatchCreate, SessionEnds, Park, NoSession, TypeInv,
                       SessionsOK, SessionType
  <2> QED
    BY <2>1, <2>2, LockFrame
<1> QED
  BY <1>1, <1>2, <1>3, <1>4, <1>5, <1>6, <1>7, <1>8, <1>9, <1>10, <1>11
     DEF Next, CallStep, SessionStep, ScanStep

-----------------------------------------------------------------------------
(* What an answered create stands for, while it is being made: the edges    *)
(* and the enrolment that are behind it are there.                          *)
Edge(t, b) == b \in rec[t].by \/ <<t, b>> \in cut
EdgeNext(t, b) == b \in rec'[t].by \/ <<t, b>> \in cut'
Enr(t) == rec[t].enrolled \/ t \in erased
EnrNext(t) == rec'[t].enrolled \/ t \in erased'
BlockUnderWay(c, x) ==
    /\ call[c].pc \in {"lock", "write"} /\ call[c].op.kind = "block"
    /\ call[c].op.task = x /\ call[c].op.other = {call[c].job.task}
CreateOK(c) ==
    LET j == call[c].job IN
    j.kind = "create" =>
        /\ call[c].pc = "make" => call[c].todo = j.blocks /\ call[c].op.kind # "enter"
        /\ call[c].pc # "again"
        /\ call[c].pc \notin {"idle", "make"} =>
               /\ made[j.task]
               /\ \A b \in j.by : Edge(j.task, b)
               /\ \A x \in j.blocks \ call[c].todo :
                      BlockUnderWay(c, x) \/ (made[x] /\ Edge(x, j.task))
        /\ call[c].op.kind = "enter" => call[c].op.task = j.task /\ call[c].todo = {}
        /\ call[c].op.kind = "enter" /\ call[c].pc = "look" => Enr(j.task)
        /\ call[c].pc \in {"view", "ok"} => call[c].todo = {}
        /\ call[c].pc = "ok" /\ j.enroll => Enr(j.task)

(* A blocker a task waits for is on record, open and readable.              *)
WaitsInv ==
    /\ waits \in [Task -> SUBSET Task]
    /\ \A t \in Task : \A b \in waits[t] : b \in rec[t].by /\ Holds(b)

(* What a written operation leaves as it was, and what it brings about.     *)
LEMMA RecordWritten ==
    ASSUME StoreOK, NEW op \in OpType, op.kind \in WriteKind, made[op.task], UNCHANGED made,
           WriteTask(op.task, Applied(op, rec[op.task])), Asked(op)
    PROVE  /\ \A u, b \in Task : Edge(u, b) => EdgeNext(u, b)
           /\ \A u \in Task : Enr(u) => EnrNext(u)
           /\ op.kind = "enter" => EnrNext(op.task)
           /\ op.kind = "block" => \A b \in op.other : EdgeNext(op.task, b)
           /\ op.kind \notin TaskStatus /\ rec[op.task].status = "work"
                  => rec'[op.task].status = "work"
           /\ \A u \in Task : u # op.task => rec'[u] = rec[u]
           /\ WaitsInv => WaitsInv'
           /\ WaitsInv => \A u \in Task :
                  \/ waits'[u] \subseteq waits[u]
                  \/ u = op.task /\ op.kind = "block" /\ rec[u].status # "work"
<1> DEFINE t == op.task
           r == Applied(op, rec[t])
<1>1. t \in Task /\ rec[t] \in Record /\ op.other \subseteq Task
  BY DEF OpType, StoreOK
<1>2. /\ r.by = IF op.kind = "block" THEN rec[t].by \cup op.other
                ELSE IF op.kind = "unblock" THEN rec[t].by \ op.other
                ELSE rec[t].by
      /\ r.status = IF op.kind = "enter" THEN "work"
                    ELSE IF op.kind \in TaskStatus THEN op.kind
                    ELSE rec[t].status
      /\ r.enrolled = IF op.kind = "enter" THEN TRUE
                      ELSE IF op.kind \in TaskStatus THEN op.enr ELSE rec[t].enrolled
  BY <1>1, AppliedRecord
<1> HIDE DEF r
<1>3. /\ rec'[t] = r /\ readable'[t] /\ cached'[t]
      /\ \A u \in Task \ {t} : /\ rec'[u] = rec[u] /\ readable'[u] = readable[u]
                               /\ cached'[u] = cached[u]
  BY <1>1 DEF WriteTask, StoreOK, r
<1>4. cut' = IF op.kind = "unblock" THEN cut \cup {<<t, b>> : b \in op.other}
             ELSE IF op.kind = "block" THEN cut \ {<<t, b>> : b \in op.other}
             ELSE cut
  BY DEF Asked
<1>5. /\ waits' = [u \in Task |-> waits'[u]]
      /\ \A u \in Task :
             waits'[u] = IF u = t /\ op.kind = "unblock" THEN waits[u] \ op.other
                         ELSE IF u = t /\ op.kind = "block" /\ rec[t].status # "work"
                              THEN waits[u] \cup {b \in op.other : Holds(b)}
                         ELSE IF op.kind \in Closing THEN waits[u] \ {t}
                         ELSE waits[u]
  <2>1. waits' = [u \in Task |->
             IF u = t /\ op.kind = "unblock" THEN waits[u] \ op.other
             ELSE IF u = t /\ op.kind = "block" /\ rec[t].status # "work"
                  THEN waits[u] \cup {b \in op.other : Holds(b)}
             ELSE IF op.kind \in Closing THEN waits[u] \ {t}
             ELSE waits[u]]
    BY DEF Asked, Closing
  <2> QED
    BY <1>1, <2>1
<1> HIDE DEF t
<1>6. \A u, b \in Task : Edge(u, b) => EdgeNext(u, b)
  <2> SUFFICES ASSUME NEW u \in Task, NEW b \in Task, Edge(u, b) PROVE EdgeNext(u, b)
    OBVIOUS
  <2>1. CASE u # t
    BY <2>1, <1>3, <1>4 DEF Edge, EdgeNext, Enr, EnrNext
  <2>2. CASE u = t
    BY <2>2, <1>1, <1>2, <1>3, <1>4 DEF Edge, EdgeNext, Enr, EnrNext
  <2> QED
    BY <2>1, <2>2
<1>7. (\A u \in Task : Enr(u) => EnrNext(u)) /\ (op.kind = "enter" => EnrNext(t))
  <2>1. erased' = IF op.kind = "enter" THEN erased \ {t}
                  ELSE IF Erases(op) THEN erased \cup {t} ELSE erased
    BY DEF Asked, t
  <2>2. Erases(op) <=> op.kind \in TaskStatus /\ ~op.enr /\ rec[t].enrolled
    BY DEF Erases, TaskStatus, t
  <2>3. op.enr \in BOOLEAN /\ rec[t].enrolled \in BOOLEAN /\ "enter" \notin TaskStatus
    BY <1>1 DEF OpType, Record, TaskStatus, Open, Closing
  <2>4. op.kind = "enter" => EnrNext(t)
    BY <1>2, <1>3 DEF EnrNext
  <2>5. Enr(t) => EnrNext(t)
    BY <1>2, <1>3, <2>1, <2>2, <2>3, <2>4 DEF Enr, EnrNext
  <2>6. \A u \in Task \ {t} : Enr(u) => EnrNext(u)
    BY <1>3, <2>1 DEF Enr, EnrNext
  <2> QED
    BY <2>4, <2>5, <2>6
<1>8. op.kind = "block" => \A b \in op.other : EdgeNext(t, b)
  BY <1>2, <1>3 DEF Edge, EdgeNext, Enr, EnrNext
<1>9. ASSUME WaitsInv PROVE WaitsInv'
  <2>1. waits' \in [Task -> SUBSET Task]
    <3>1. \A u \in Task : waits'[u] \subseteq Task
      BY <1>1, <1>5, <1>9 DEF WaitsInv
    <3> QED
      BY <3>1, <1>5
  <2>2. ASSUME NEW b, Holds(b), b \in Task, b # t \/ op.kind \notin Closing PROVE Holds(b)'
    <3>1. CASE b # t
      BY <2>2, <3>1, <1>3 DEF Holds
    <3>2. CASE b = t
      BY <2>2, <3>2, <1>2, <1>3 DEF Holds, TaskStatus, Open
    <3> QED
      BY <3>1, <3>2
  <2>3. ASSUME NEW u \in Task, NEW b \in waits'[u] PROVE b \in rec'[u].by /\ Holds(b)'
    <3>1. b \in Task /\ Holds(b)
      BY <2>1, <2>3, <1>5, <1>9 DEF WaitsInv
    <3>2. b = t => op.kind \notin Closing
      BY <2>3, <1>5, <1>1 DEF Closing
    <3>3. b \in rec'[u].by
      BY <2>3, <1>1, <1>2, <1>3, <1>5, <1>9 DEF WaitsInv, Closing
    <3> QED
      BY <2>2, <3>1, <3>2, <3>3
  <2> QED
    BY <2>1, <2>3 DEF WaitsInv
<1>10. \A u \in Task : \/ waits'[u] \subseteq waits[u]
                       \/ u = t /\ op.kind = "block" /\ rec[u].status # "work"
  BY <1>5
<1> QED
  BY <1>1, <1>2, <1>3, <1>6, <1>7, <1>8, <1>9, <1>10 DEF t

(* A create stays good while another step writes records.                   *)
LEMMA CreateKept ==
    ASSUME TypeInv, NEW c \in Caller, CreateOK(c), call'[c] = call[c],
           \A u \in Task : made[u] =>
               /\ made'[u] /\ (Enr(u) => EnrNext(u))
               /\ \A b \in Task : Edge(u, b) => EdgeNext(u, b)
    PROVE  CreateOK(c)'
<1> DEFINE j == call[c].job
<1>1. call[c] \in CallType
  BY DEF TypeInv, CallsOK
<1>2. j.task \in Task /\ j.by \subseteq Task /\ j.blocks \subseteq Task
  BY <1>1, Constants DEF CallType, Wish, NoJob
<1> HIDE DEF j
<1>3. \A x : BlockUnderWay(c, x) => BlockUnderWay(c, x)'
  BY DEF BlockUnderWay
<1> QED
  BY <1>2, <1>3 DEF CreateOK, Edge, EdgeNext, Enr, EnrNext, j

(* A create keeps what it has written so far, whoever else writes.          *)
LEMMA CreateStep ==
    ASSUME TypeInv, LockInv, MakeInv, [Next]_vars, \A c \in Caller : CreateOK(c)
    PROVE  \A c \in Caller : CreateOK(c)'
<1> USE DEF storeVars, histVars
<1>a. /\ \A c \in Caller : call[c] \in CallType /\ call[c].job.task \in Task
      /\ DOMAIN call = Caller
  BY Constants DEF TypeInv, CallsOK, CallType, Wish, NoJob
<1>b. \A s \in Session : sess[s] \in SessionType
  BY DEF TypeInv, SessionsOK
<1>c. ASSUME UNCHANGED <<made, rec, cut, erased>>, NEW c \in Caller, CreateOK(c)',
             \A d \in Caller : d # c => call'[d] = call[d]
      PROVE  \A d \in Caller : CreateOK(d)'
  <2>1. \A d \in Caller : d # c => CreateOK(d)'
    BY <1>c, CreateKept DEF Edge, EdgeNext, Enr, EnrNext
  <2> QED
    BY <1>c, <2>1
<1>d. ASSUME NEW c \in Caller, Refuse(c) PROVE CreateOK(c)'
  <2>1. call'[c] = IdleCall
    BY <1>d, <1>a DEF Refuse
  <2> QED
    BY <2>1 DEF CreateOK, IdleCall, NoJob
<1>e. ASSUME NEW c \in Caller, Answer(c)
      PROVE  /\ call'[c] = [IdleCall EXCEPT !.job = call[c].job, !.pc = "ok"]
             /\ call'[c].job = call[c].job
  <2>1. [IdleCall EXCEPT !.job = call[c].job, !.pc = "ok"].job = call[c].job
    BY DEF IdleCall
  <2> QED
    BY <1>e, <1>a, <2>1 DEF Answer
<1>f. ASSUME UNCHANGED <<made, rec, cut, erased, call>> PROVE \A d \in Caller : CreateOK(d)'
  BY <1>f, CreateKept DEF Edge, EdgeNext, Enr, EnrNext
<1>1. CASE \/ UNCHANGED vars \/ ScanStart \/ DispatchRow
           \/ ScanRows \/ ScanDone \/ \E t \in Task : ScanNext(t) \/ Vanish(t) \/ Repair(t)
  BY <1>1, <1>f DEF vars, ScanStart, DispatchRow, ScanRows, ScanDone, ScanNext, Vanish, Repair
<1>2. CASE \E t \in Task : Watched(t)
  BY <1>2, <1>f DEF Watched
<1>3. ASSUME NEW s \in Session,
             \/ SessionSeal(s) \/ DispatchCreate(s) \/ SessionLock(s) \/ Park(s)
             \/ \E k \in {"enter", "done", "human"} : SessionEnds(s, k)
      PROVE  \A d \in Caller : CreateOK(d)'
  BY <1>3, <1>f DEF SessionSeal, DispatchCreate, SessionLock, SessionEnds, Park
<1>4. ASSUME NEW s \in Session, SessionWrite(s) PROVE \A d \in Caller : CreateOK(d)'
  <2> DEFINE op == sess[s].op
  <2>1. /\ op \in OpType /\ op.kind \in WriteKind /\ made[op.task]
        /\ sess[s].base = rec[op.task]
    BY <1>4, <1>b DEF SessionWrite, SessionType, TypeInv, SessionsOK, LockInv, Prepared
  <2>2. WriteTask(op.task, Applied(op, rec[op.task])) /\ Asked(op) /\ UNCHANGED <<made, call>>
    BY <1>4, <2>1 DEF SessionWrite, Owner
  <2> HIDE DEF op
  <2>3. \A u \in Task : (Enr(u) => EnrNext(u))
                       /\ \A b \in Task : Edge(u, b) => EdgeNext(u, b)
    BY <2>1, <2>2, RecordWritten DEF TypeInv
  <2> QED
    BY <2>2, <2>3, CreateKept
<1>5. ASSUME NEW c \in Caller, NEW j \in Jobs[c], Issue(c, j)
      PROVE  \A d \in Caller : CreateOK(d)'
  <2>1. PICK pc \in {"make", "lock", "view"} :
            Send(c, j, pc) /\ (j.kind = "create" => pc = "make")
    BY <1>5 DEF Issue, TaskCreate, TaskUpdate, TaskEnroll, TaskResume, TaskTerminal,
                TaskReopen, TaskUnblock, MetadataUnset, Closing
  <2> DEFINE r == [IdleCall EXCEPT !.job = j, !.todo = j.blocks, !.op = OpOf(j, j.kind, FALSE),
                                   !.pc = pc]
  <2>2. /\ r.job = j /\ r.todo = j.blocks /\ r.op.kind = j.kind /\ r.pc = pc
    BY DEF IdleCall, OpOf
  <2>3. call' = [call EXCEPT ![c] = r] /\ UNCHANGED <<made, rec, cut, erased>>
    BY <2>1 DEF Send
  <2> HIDE DEF r
  <2>4. call'[c] = r /\ \A d \in Caller : d # c => call'[d] = call[d]
    BY <2>3, <1>a
  <2>5. CreateOK(c)'
    BY <2>1, <2>2, <2>4 DEF CreateOK
  <2> QED
    BY <2>3, <2>4, <2>5, <1>c
<1>6. ASSUME NEW c \in Caller, Make(c) PROVE \A d \in Caller : CreateOK(d)'
  <2> DEFINE j == call[c].job
  <2>1. /\ call[c].pc = "make" /\ j.kind = "create" /\ j.task \in Task /\ ~made[j.task]
        /\ call[c].todo = j.blocks /\ call[c].op.kind # "enter"
    BY <1>6, <1>a DEF Make, MakeInv, Making, CreateOK
  <2>2. /\ call'[c] = [call[c] EXCEPT !.pc = "look"]
        /\ \A d \in Caller : d # c => call'[d] = call[d]
    BY <1>6, <1>a DEF Make
  <2>3. call'[c].pc = "look" /\ call'[c].job = j /\ call'[c].op = call[c].op
        /\ call'[c].todo = j.blocks
    BY <2>1, <2>2, <1>a DEF CallType
  <2>4. /\ made'[j.task] /\ rec'[j.task].by = j.by
        /\ UNCHANGED <<cut, erased>>
        /\ \A u \in Task : u # j.task => made'[u] = made[u] /\ rec'[u] = rec[u]
    BY <1>6, <2>1 DEF Make, Created, NewRecord, TypeInv, StoreOK
  <2>5. CreateOK(c)'
    <3> HIDE DEF j
    <3> QED
      BY <2>1, <2>3, <2>4 DEF CreateOK, Edge, EdgeNext, Enr, EnrNext
  <2>6. ASSUME NEW d \in Caller, d # c PROVE CreateOK(d)'
    <3> HIDE DEF j
    <3> QED
      BY <2>1, <2>2, <2>4, <2>6, CreateKept DEF Edge, EdgeNext, Enr, EnrNext
  <2> QED
    BY <2>5, <2>6
<1>7. ASSUME NEW c \in Caller, View(c) PROVE \A d \in Caller : CreateOK(d)'
  <2> DEFINE j == call[c].job
  <2>1. UNCHANGED <<made, rec, cut, erased>> /\ call[c].pc = "view"
    BY <1>7 DEF View
  <2>2. \A d \in Caller : d # c => call'[d] = call[d]
    BY <1>7, <1>a DEF View, Answer, Refuse
  <2>3. CASE Refuse(c)
    BY <2>1, <2>2, <2>3, <1>c, <1>d
  <2>4. CASE j.kind # "create" /\ ~Refuse(c)
    <3>1. call'[c].job = j
      <4>1. CASE Answer(c)
        BY <4>1, <1>e
      <4>2. CASE ~Answer(c)
        <5>1. PICK seen, op :
                  call' = [call EXCEPT ![c] = [@ EXCEPT !.pc = "lock", !.seen = seen, !.op = op]]
          BY <1>7, <2>4, <4>2 DEF View
        <5> QED
          BY <5>1, <1>a DEF CallType
      <4> QED
        BY <4>1, <4>2
    <3>2. CreateOK(c)'
      BY <2>4, <3>1 DEF CreateOK
    <3> QED
      BY <2>1, <2>2, <3>2, <1>c
  <2>5. CASE j.kind = "create" /\ ~Refuse(c)
    <3>1. rec[j.task].status # "enroll"
      BY <1>a DEF TypeInv, StoreOK, Record, TaskStatus, Open, Closing
    <3>2. call' = [call EXCEPT ![c] = [@ EXCEPT !.pc = "lock", !.seen = rec[j.task],
                                               !.op = OpOf(j, "enter", rec[j.task].enrolled)]]
      BY <1>7, <2>5, <3>1 DEF View, Wanted
    <3>3. /\ call'[c].pc = "lock" /\ call'[c].job = j /\ call'[c].todo = call[c].todo
          /\ call'[c].op.kind = "enter" /\ call'[c].op.task = j.task
      BY <3>2, <1>a DEF CallType, OpOf
    <3>4. CreateOK(c)'
      <4>1. ~\E x : BlockUnderWay(c, x)
        BY <2>1 DEF BlockUnderWay
      <4> HIDE DEF j
      <4> QED
        BY <2>1, <2>5, <3>3, <4>1 DEF CreateOK, Edge, EdgeNext, Enr, EnrNext, j
    <3> QED
      BY <2>1, <2>2, <3>4, <1>c
  <2> QED
    BY <2>3, <2>4, <2>5
<1>8. ASSUME NEW c \in Caller, Lock(c) PROVE \A d \in Caller : CreateOK(d)'
  <2>1. UNCHANGED <<made, rec, cut, erased>> /\ call[c].pc = "lock"
    BY <1>8 DEF Lock
  <2>2. \A d \in Caller : d # c => call'[d] = call[d]
    BY <1>8, <1>a DEF Lock, Refuse
  <2>3. CASE Refuse(c)
    BY <2>1, <2>2, <2>3, <1>c, <1>d
  <2>4. CASE ~Refuse(c)
    <3>1. /\ call'[c].pc = "write" /\ call'[c].job = call[c].job /\ call'[c].op = call[c].op
          /\ call'[c].todo = call[c].todo
      BY <1>8, <2>4, <1>a DEF Lock, CallType
    <3>2. \A x : BlockUnderWay(c, x) => BlockUnderWay(c, x)'
      BY <2>1, <3>1 DEF BlockUnderWay
    <3>3. CreateOK(c)'
      BY <2>1, <3>1, <3>2 DEF CreateOK, Edge, EdgeNext, Enr, EnrNext
    <3> QED
      BY <2>1, <2>2, <3>3, <1>c
  <2> QED
    BY <2>3, <2>4
<1>9. ASSUME NEW c \in Caller, Write(c) PROVE \A d \in Caller : CreateOK(d)'
  <2> DEFINE op == call[c].op
             j == call[c].job
  <2>1. /\ op \in OpType /\ op.kind \in WriteKind /\ made[op.task]
        /\ call[c].base = rec[op.task] /\ call[c].pc = "write"
    BY <1>9, <1>a DEF Write, CallType, TypeInv, CallsOK, LockInv, Prepared
  <2>2. /\ call'[c].pc = "look" /\ call'[c].job = j /\ call'[c].op = op
        /\ call'[c].todo = call[c].todo
        /\ \A d \in Caller : d # c => call'[d] = call[d]
    BY <1>9, <1>a, <2>1 DEF Write, CallType
  <2>3. j.task \in Task /\ j.by \subseteq Task /\ j.blocks \subseteq Task
    BY <1>a, Constants DEF CallType, Wish, NoJob
  <2>0. UNCHANGED made /\ WriteTask(op.task, Applied(op, rec[op.task])) /\ Asked(op)
    BY <1>9, <2>1 DEF Write
  <2> HIDE DEF op, j
  <2>4. /\ \A u, b \in Task : Edge(u, b) => EdgeNext(u, b)
        /\ \A u \in Task : Enr(u) => EnrNext(u)
        /\ op.kind = "enter" => EnrNext(op.task)
        /\ op.kind = "block" => \A b \in op.other : EdgeNext(op.task, b)
    BY <2>0, <2>1, RecordWritten DEF TypeInv
  <2>5. ASSUME NEW d \in Caller, d # c PROVE CreateOK(d)'
    BY <2>0, <2>2, <2>4, <2>5, CreateKept
  <2>6. CreateOK(c)'
    <3>1. ASSUME NEW x \in j.blocks \ call[c].todo, j.kind = "create"
          PROVE  made'[x] /\ EdgeNext(x, j.task)
      <4>1. CASE BlockUnderWay(c, x)
        BY <4>1, <2>0, <2>1, <2>4 DEF BlockUnderWay, op, j
      <4>2. CASE made[x] /\ Edge(x, j.task)
        BY <4>2, <3>1, <2>0, <2>3, <2>4
      <4> QED
        BY <3>1, <4>1, <4>2, <2>1 DEF CreateOK, j
    <3> QED
      BY <2>0, <2>1, <2>2, <2>3, <2>4, <3>1 DEF CreateOK, Edge, EdgeNext, Enr, EnrNext, op, j
  <2> QED
    BY <2>5, <2>6
<1>10. ASSUME NEW c \in Caller, Look(c) PROVE \A d \in Caller : CreateOK(d)'
  <2> DEFINE j == call[c].job
  <2>1. UNCHANGED <<made, rec, cut, erased>> /\ call[c].pc = "look"
    BY <1>10 DEF Look
  <2>2. ~BlockUnderWay(c, 0) /\ \A x : ~BlockUnderWay(c, x)
    BY <2>1 DEF BlockUnderWay
  <2>3. ASSUME Answer(c), j.kind = "create" => call[c].todo = {} /\
                                               (j.enroll => call[c].op.kind = "enter")
        PROVE  CreateOK(c)'
    <3> DEFINE r == [IdleCall EXCEPT !.job = j, !.pc = "ok"]
    <3>1. r.pc = "ok" /\ r.job = j /\ r.todo = {} /\ r.op.kind = "none"
      BY DEF IdleCall, NoOp
    <3>2. call'[c] = r
      BY <2>3, <1>e
    <3> HIDE DEF r, j
    <3> QED
      BY <2>1, <2>2, <2>3, <3>1, <3>2 DEF CreateOK, Edge, EdgeNext, Enr, EnrNext, j
  <2>4. ASSUME NEW x \in call[c].todo, j.kind = "create",
               call' = [call EXCEPT ![c].pc = "lock", ![c].todo = @ \ {x},
                           ![c].op = [kind |-> "block", task |-> x, other |-> {j.task}, enr |-> FALSE]]
        PROVE  CreateOK(c)'
    <3>1. /\ call'[c].pc = "lock" /\ call'[c].job = j /\ call'[c].todo = call[c].todo \ {x}
          /\ call'[c].op = [kind |-> "block", task |-> x, other |-> {j.task}, enr |-> FALSE]
      BY <2>4, <1>a DEF CallType
    <3>2. BlockUnderWay(c, x)'
      BY <3>1 DEF BlockUnderWay
    <3>3. /\ made[j.task] /\ \A b \in j.by : Edge(j.task, b)
          /\ \A y \in j.blocks \ call[c].todo : made[y] /\ Edge(y, j.task)
      BY <2>1, <2>2, <2>4 DEF CreateOK
    <3>4. call'[c].op.kind = "block"
      BY <3>1
    <3> HIDE DEF j
    <3>5. \A y \in j.blocks \ call'[c].todo :
              BlockUnderWay(c, y)' \/ (made'[y] /\ EdgeNext(y, j.task))
      BY <2>1, <3>1, <3>2, <3>3 DEF Edge, EdgeNext, Enr, EnrNext
    <3>6. made'[j.task] /\ \A b \in j.by : EdgeNext(j.task, b)
      BY <2>1, <3>3 DEF Edge, EdgeNext, Enr, EnrNext
    <3> QED
      BY <2>4, <3>1, <3>4, <3>5, <3>6 DEF CreateOK, Edge, EdgeNext, Enr, EnrNext
  <2>5. ASSUME call' = [call EXCEPT ![c].pc = "view"], j.kind = "create" => call[c].todo = {},
               call[c].op.kind # "enter"
        PROVE  CreateOK(c)'
    <3>1. /\ call'[c].pc = "view" /\ call'[c].job = j /\ call'[c].todo = call[c].todo
          /\ call'[c].op = call[c].op
      BY <2>5, <1>a DEF CallType
    <3> HIDE DEF j
    <3> QED
      BY <2>1, <2>2, <2>5, <3>1 DEF CreateOK, Edge, EdgeNext, Enr, EnrNext, j
  <2>6. ASSUME j.kind # "create" PROVE CreateOK(c)'
    <3>1. call'[c].job = j \/ Refuse(c)
      <4>1. Answer(c) => call'[c].job = j
        BY <1>e
      <4>2. call' = [call EXCEPT ![c].pc = "again"] => call'[c].job = j
        BY <1>a DEF CallType
      <4> QED
        BY <1>10, <2>6, <4>1, <4>2 DEF Look
    <3> QED
      BY <2>6, <3>1, <1>d DEF CreateOK
  <2>7. ASSUME j.kind = "create", CreateGoesOn(c) PROVE CreateOK(c)'
    <3>1. CASE Refuse(c)
      BY <3>1, <1>d
    <3>2. CASE Answer(c) /\ ~Refuse(c)
      <4>1. Answer(c) /\ call[c].todo = {} /\ (j.enroll => call[c].op.kind = "enter")
        <5>1. [IdleCall EXCEPT !.job = call[c].job, !.pc = "ok"].pc = "ok"
          BY DEF IdleCall
        <5>2. call'[c].pc = "ok"
          BY <3>2, <5>1, <1>e
        <5>3. ~(call' = [call EXCEPT ![c].pc = "view"])
          BY <5>2, <1>a DEF CallType
        <5>4. ASSUME NEW x \in call[c].todo,
                     call' = [call EXCEPT ![c].pc = "lock", ![c].todo = @ \ {x},
                                 ![c].op = [kind |-> "block", task |-> x, other |-> {j.task}, enr |-> FALSE]]
              PROVE  FALSE
          BY <5>2, <5>4, <1>a DEF CallType
        <5> QED
          BY <2>7, <3>2, <5>3, <5>4 DEF CreateGoesOn
      <4> QED
        BY <4>1, <2>3
    <3>3. CASE ~Answer(c) /\ ~Refuse(c)
      <4>1. CASE call[c].todo # {}
        <5>1. PICK x \in call[c].todo :
                  call' = [call EXCEPT ![c].pc = "lock", ![c].todo = @ \ {x},
                              ![c].op = [kind |-> "block", task |-> x, other |-> {j.task}, enr |-> FALSE]]
          BY <2>7, <3>3, <4>1 DEF CreateGoesOn
        <5> QED
          BY <2>4, <2>7, <5>1
      <4>2. CASE call[c].todo = {}
        <5>1. call' = [call EXCEPT ![c].pc = "view"] /\ call[c].op.kind # "enter"
          BY <2>7, <3>3, <4>2 DEF CreateGoesOn
        <5> QED
          BY <2>5, <4>2, <5>1
      <4> QED
        BY <4>1, <4>2
    <3> QED
      BY <3>1, <3>2, <3>3
  <2>8. CreateOK(c)'
    BY <1>10, <1>d, <2>6, <2>7 DEF Look
  <2>9. \A d \in Caller : d # c => call'[d] = call[d]
    BY <1>10, <1>a DEF Look, CreateGoesOn, Answer, Refuse
  <2> QED
    BY <2>1, <2>8, <2>9, <1>c
<1>11. ASSUME NEW c \in Caller, Again(c) PROVE \A d \in Caller : CreateOK(d)'
  <2>1. /\ UNCHANGED <<made, rec, cut, erased>> /\ call[c].job.kind # "create"
        /\ \A d \in Caller : d # c => call'[d] = call[d]
    BY <1>11, <1>a DEF Again, Answer, CreateOK
  <2>2. call'[c].job = call[c].job
    <3>1. Answer(c) => call'[c].job = call[c].job
      BY <1>e
    <3>2. call' = [call EXCEPT ![c].pc = "lock", ![c].op.kind = call[c].seen.status]
              => call'[c].job = call[c].job
      BY <1>a DEF CallType
    <3> QED
      BY <1>11, <3>1, <3>2 DEF Again
  <2>3. CreateOK(c)'
    BY <2>1, <2>2 DEF CreateOK
  <2> QED
    BY <2>1, <2>3, <1>c
<1>12. ASSUME NEW c \in Caller, Kill(c) PROVE \A d \in Caller : CreateOK(d)'
  <2>1. /\ UNCHANGED <<made, rec, cut, erased>>
        /\ \A d \in Caller : d # c => call'[d] = call[d]
    BY <1>12, <1>a DEF Kill
  <2>2. /\ call'[c].pc = call[c].pc /\ call'[c].job = call[c].job /\ call'[c].op = call[c].op
        /\ call'[c].todo = call[c].todo
    BY <1>12, <1>a DEF Kill, CallType
  <2>3. \A x : BlockUnderWay(c, x) => BlockUnderWay(c, x)'
    BY <2>2 DEF BlockUnderWay
  <2>4. CreateOK(c)'
    BY <2>1, <2>2, <2>3 DEF CreateOK, Edge, EdgeNext, Enr, EnrNext
  <2> QED
    BY <2>1, <2>4, <1>c
<1> QED
  BY <1>1, <1>2, <1>3, <1>4, <1>5, <1>6, <1>7, <1>8, <1>9, <1>10, <1>11, <1>12
     DEF Next, CallStep, SessionStep, ScanStep

-----------------------------------------------------------------------------
(* The inductive invariant of the module. *)
Inv ==
    /\ TypeInv /\ LockInv /\ MakeInv /\ VisitsCounted
    /\ \A c \in Caller : CreateOK(c)

(* It holds in every state there can be. *)
LEMMA Invariant == Spec => []Inv
<1>1. Init => Inv
  <2> SUFFICES ASSUME Init PROVE Inv
    OBVIOUS
  <2>1. TypeInv
    <3>1. StoreOK /\ ScanOK
      BY Constants DEF Init, StoreOK, ScanOK, IdleScan, NoOp
    <3>2. CallsOK /\ SessionsOK
      BY Constants DEF Init, CallsOK, SessionsOK, IdleCall, NoSession
    <3> QED
      BY <3>1, <3>2 DEF TypeInv
  <2>2. LockInv /\ MakeInv
    BY DEF Init, LockInv, MakeInv, Making, IdleCall, NoSession
  <2>3. VisitsCounted
    BY DEF Init, VisitsCounted, NewRecord
  <2>4. \A c \in Caller : CreateOK(c)
    BY DEF Init, CreateOK, IdleCall, NoJob
  <2> QED
    BY <2>1, <2>2, <2>3, <2>4 DEF Inv
<1>2. Inv /\ [Next]_vars => Inv'
  BY TypeStep, LockStep, CreateStep DEF Inv
<1> QED
  BY <1>1, <1>2, PTL DEF Spec

(* step_visits of every task is the number of entries into the step since   *)
(* it was last reset, however many requests and sessions write the task at  *)
(* once: mutateTask reads the record it changes under the task's lock.      *)
THEOREM NoVisitLost == Spec => []VisitsCounted
<1>1. Inv => VisitsCounted
  BY DEF Inv
<1> QED
  BY <1>1, Invariant, PTL

(* A create that was answered has left all it promised: the edges on both   *)
(* sides, unless somebody took them away, and the enrolment, unless a       *)
(* position taken from a view older than it was written over it (runTask).  *)
THEOREM AnsweredIsThere == Spec => []AnswerIsTrue
<1>1. Inv => AnswerIsTrue
  BY DEF Inv, AnswerIsTrue, CreateOK, Edge, Enr, BlockUnderWay
<1> QED
  BY <1>1, Invariant, PTL

-----------------------------------------------------------------------------
(* The tasks a create may hold up, and that nobody closes or reopens one.   *)
Creates == {j \in UNION {Jobs[c] : c \in Caller} : j.kind = "create"}
HeldUp == UNION {j.blocks : j \in Creates}
Apart ==
    \A c \in Caller : \A j \in Jobs[c] :
        j.kind \in {"done", "cancel", "reopen"} => j.task \notin HeldUp

(* Edges go to held up tasks, statuses that requests set to others.         *)
ApartInv ==
    \A c \in Caller :
        /\ InFlight(c) => call[c].job \in Jobs[c] /\ call[c].todo \subseteq call[c].job.blocks
        /\ call[c].op.kind = "block" => call[c].op.task \in HeldUp
        /\ call[c].op.kind \in TaskStatus \/ call[c].pc = "again"
               => call[c].op.task \notin HeldUp

(* The task dispatch found free and unblocked stays so until it is claimed. *)
ScanInv ==
    scan.pc = "create" =>
        /\ made[scan.task] /\ ~HasLive(scan.task) /\ waits[scan.task] = {}
        /\ scan.task \in HeldUp => rec[scan.task].status = "work"

(* It stays so: a request's operation follows from the job it was sent for. *)
LEMMA ApartStep ==
    ASSUME Apart, TypeInv, ApartInv, [Next]_vars
    PROVE  ApartInv'
<1> USE DEF storeVars, histVars
<1>a. \A c \in Caller : call[c] \in CallType
  BY DEF TypeInv, CallsOK
<1>b. DOMAIN call = Caller
  BY DEF TypeInv, CallsOK
<1>c. ASSUME NEW c \in Caller, Answer(c) \/ Refuse(c)
      PROVE  call'[c].pc \in {"idle", "ok"} /\ call'[c].op.kind = "none"
  <2> DEFINE r == [IdleCall EXCEPT !.job = call[c].job, !.pc = "ok"]
  <2>1. r.pc = "ok" /\ r.op.kind = "none" /\ IdleCall.pc = "idle" /\ IdleCall.op.kind = "none"
    BY DEF IdleCall, NoOp
  <2>2. call' = [call EXCEPT ![c] = r] \/ call' = [call EXCEPT ![c] = IdleCall]
    BY <1>c DEF Answer, Refuse
  <2> HIDE DEF r
  <2> QED
    BY <2>1, <2>2, <1>b
<1>d. "none" \notin TaskStatus \cup {"block"} /\ "enter" \notin TaskStatus \cup {"block"}
  BY DEF TaskStatus, Open, Closing
<1>e. ASSUME NEW c \in Caller, \A d \in Caller : d # c => call'[d] = call[d],
             call'[c].pc \notin {"idle", "ok"} =>
                 call'[c].job \in Jobs[c] /\ call'[c].todo \subseteq call'[c].job.blocks,
             call'[c].op.kind = "block" => call'[c].op.task \in HeldUp,
             call'[c].op.kind \in TaskStatus \/ call'[c].pc = "again"
                 => call'[c].op.task \notin HeldUp
      PROVE  ApartInv'
  BY <1>e DEF ApartInv, InFlight
<1>1. CASE UNCHANGED call
  BY <1>1 DEF ApartInv, InFlight
<1>2. ASSUME NEW c \in Caller, NEW j \in Jobs[c], Issue(c, j) PROVE ApartInv'
  <2>1. PICK pc \in {"make", "lock", "view"} : Send(c, j, pc)
    BY <1>2 DEF Issue, TaskCreate, TaskUpdate, TaskEnroll, TaskResume, TaskTerminal,
                TaskReopen, TaskUnblock, MetadataUnset
  <2> DEFINE r == [IdleCall EXCEPT !.job = j, !.todo = j.blocks, !.op = OpOf(j, j.kind, FALSE),
                                   !.pc = pc]
  <2>2. /\ r.job = j /\ r.todo = j.blocks /\ r.pc = pc
        /\ r.op.kind = j.kind /\ r.op.task = j.task
    BY DEF IdleCall, OpOf
  <2>3. call' = [call EXCEPT ![c] = r]
    BY <2>1 DEF Send
  <2> HIDE DEF r
  <2>4. call'[c] = r /\ \A d \in Caller : d # c => call'[d] = call[d]
    BY <2>3, <1>b
  <2>5. j.kind # "block" /\ (j.kind \in TaskStatus => j.task \notin HeldUp)
    BY BacklogAssumption DEF Wish, JobKind, Apart, TaskStatus, Open, Closing
  <2> QED
    BY <2>2, <2>4, <2>5, <1>e
<1>3. ASSUME NEW c \in Caller, Make(c) \/ Write(c) \/ Kill(c) PROVE ApartInv'
  <2>1. /\ \A d \in Caller : d # c => call'[d] = call[d]
        /\ call[c].pc \notin {"idle", "ok"}
        /\ call'[c].op = call[c].op /\ call'[c].job = call[c].job /\ call'[c].todo = call[c].todo
    BY <1>3, <1>a, <1>b DEF Make, Write, Kill, CallType, InFlight
  <2>2. call'[c].pc = "again" => call[c].pc = "again"
    BY <1>3, <1>a, <1>b DEF Make, Write, Kill, CallType
  <2> QED
    BY <2>1, <2>2, <1>e DEF ApartInv, InFlight
<1>4. ASSUME NEW c \in Caller, View(c) PROVE ApartInv'
  <2> DEFINE j == call[c].job
             kind == IF j.kind = "create" THEN "enroll" ELSE j.kind
             op == OpOf(j, Wanted(kind, rec[j.task]), rec[j.task].enrolled)
  <2>1. \A d \in Caller : d # c => call'[d] = call[d]
    BY <1>4, <1>b DEF View, Answer, Refuse
  <2>2. CASE Answer(c) \/ Refuse(c)
    BY <2>1, <2>2, <1>c, <1>d, <1>e
  <2>3. CASE ~(Answer(c) \/ Refuse(c))
    <3>1. call' = [call EXCEPT ![c] = [@ EXCEPT !.pc = "lock", !.seen = rec[j.task], !.op = op]]
      BY <1>4, <2>3 DEF View
    <3>2. /\ call'[c].op = op /\ call'[c].pc = "lock" /\ call'[c].job = j
          /\ call'[c].todo = call[c].todo
      BY <3>1, <1>a, <1>b DEF CallType
    <3>3. j \in Jobs[c] /\ call[c].todo \subseteq j.blocks
      BY <1>4 DEF View, ApartInv, InFlight
    <3>4. /\ op.task = j.task /\ op.kind # "block"
          /\ op.kind \in TaskStatus => j.kind \in {"done", "cancel", "reopen"}
      <4>1. op.task = j.task /\ op.kind = Wanted(kind, rec[j.task])
        BY DEF OpOf
      <4>2. j.kind \in Viewing \cup {"create"}
        BY <1>4 DEF View, TypeInv, CallsOK
      <4> QED
        BY <4>1, <4>2 DEF Wanted, Viewing, Closing, TaskStatus, Open
    <3> HIDE DEF op, j
    <3> QED
      BY <2>1, <3>2, <3>3, <3>4, <1>e DEF Apart
  <2> QED
    BY <2>2, <2>3
<1>5. ASSUME NEW c \in Caller, Lock(c) PROVE ApartInv'
  <2>1. \A d \in Caller : d # c => call'[d] = call[d]
    BY <1>5, <1>b DEF Lock, Refuse
  <2>2. CASE Refuse(c)
    BY <2>1, <2>2, <1>c, <1>d, <1>e
  <2>3. CASE ~Refuse(c)
    <3>1. /\ call'[c].op = call[c].op /\ call'[c].pc = "write" /\ call'[c].job = call[c].job
          /\ call'[c].todo = call[c].todo /\ call[c].pc = "lock"
      BY <1>5, <2>3, <1>a, <1>b DEF Lock, CallType
    <3> QED
      BY <2>1, <3>1, <1>e DEF ApartInv, InFlight
  <2> QED
    BY <2>2, <2>3
<1>6. ASSUME NEW c \in Caller, Look(c) PROVE ApartInv'
  <2> DEFINE j == call[c].job
  <2>1. \A d \in Caller : d # c => call'[d] = call[d]
    BY <1>6, <1>b DEF Look, CreateGoesOn, Answer, Refuse
  <2>2. j \in Jobs[c] /\ call[c].todo \subseteq j.blocks
    BY <1>6 DEF Look, ApartInv, InFlight
  <2>3. CASE Answer(c) \/ Refuse(c)
    BY <2>1, <2>3, <1>c, <1>d, <1>e
  <2>4. ASSUME NEW x \in call[c].todo, j.kind = "create",
               call' = [call EXCEPT ![c].pc = "lock", ![c].todo = @ \ {x},
                           ![c].op = [kind |-> "block", task |-> x, other |-> {j.task}, enr |-> FALSE]]
        PROVE  ApartInv'
    <3>1. /\ call'[c].pc = "lock" /\ call'[c].job = j /\ call'[c].todo = call[c].todo \ {x}
          /\ call'[c].op.kind = "block" /\ call'[c].op.task = x
      BY <2>4, <1>a, <1>b DEF CallType
    <3>2. x \in HeldUp
      BY <2>2, <2>4 DEF HeldUp, Creates
    <3> HIDE DEF j
    <3> QED
      BY <2>1, <2>2, <3>1, <3>2, <1>e DEF TaskStatus, Open, Closing
  <2>5. ASSUME NEW pc \in {"view", "again"}, call' = [call EXCEPT ![c].pc = pc],
               pc = "again" => call[c].op.kind \in Closing
        PROVE  ApartInv'
    <3>1. /\ call'[c].pc = pc /\ call'[c].job = j /\ call'[c].todo = call[c].todo
          /\ call'[c].op = call[c].op
      BY <2>5, <1>a, <1>b DEF CallType
    <3> HIDE DEF j
    <3> QED
      BY <2>1, <2>2, <2>5, <3>1, <1>e DEF ApartInv, TaskStatus
  <2>6. CASE ~(Answer(c) \/ Refuse(c))
    <3>1. CASE j.kind = "create"
      <4>1. CreateGoesOn(c)
        BY <1>6, <2>6, <3>1 DEF Look
      <4>2. CASE call' = [call EXCEPT ![c].pc = "view"]
        BY <4>2, <2>5
      <4>3. CASE ~(call' = [call EXCEPT ![c].pc = "view"])
        <5>1. PICK x \in call[c].todo :
                  call' = [call EXCEPT ![c].pc = "lock", ![c].todo = @ \ {x},
                              ![c].op = [kind |-> "block", task |-> x, other |-> {j.task}, enr |-> FALSE]]
          BY <2>6, <4>1, <4>3 DEF CreateGoesOn
        <5> QED
          BY <2>4, <3>1, <5>1
      <4> QED
        BY <4>2, <4>3
    <3>2. CASE j.kind # "create"
      <4>1. call' = [call EXCEPT ![c].pc = "again"] /\ call[c].op.kind \in Closing
        BY <1>6, <2>6, <3>2 DEF Look
      <4> QED
        BY <4>1, <2>5
    <3> QED
      BY <3>1, <3>2
  <2> QED
    BY <2>3, <2>6
<1>7. ASSUME NEW c \in Caller, Again(c) PROVE ApartInv'
  <2>1. \A d \in Caller : d # c => call'[d] = call[d]
    BY <1>7, <1>b DEF Again, Answer
  <2>2. CASE Answer(c)
    BY <2>1, <2>2, <1>c, <1>d, <1>e
  <2>3. CASE ~Answer(c)
    <3>1. call' = [call EXCEPT ![c].pc = "lock", ![c].op.kind = call[c].seen.status]
      BY <1>7, <2>3 DEF Again
    <3>2. /\ call'[c].pc = "lock" /\ call'[c].job = call[c].job
          /\ call'[c].todo = call[c].todo /\ call'[c].op.task = call[c].op.task
          /\ call'[c].op.kind = call[c].seen.status /\ call[c].pc = "again"
      BY <1>7, <3>1, <1>a, <1>b DEF Again, CallType, OpType
    <3>3. call[c].seen.status # "block"
      BY <1>a DEF CallType, Record, TaskStatus, Open, Closing
    <3> QED
      BY <2>1, <3>2, <3>3, <1>e DEF ApartInv, InFlight
  <2> QED
    BY <2>2, <2>3
<1>8. (\E t \in Task : Vanish(t) \/ Repair(t) \/ Watched(t)) => UNCHANGED call
  BY DEF Vanish, Repair, Watched
<1>9. ASSUME NEW s \in Session PROVE SessionStep(s) \/ DispatchCreate(s) \/ Park(s) => UNCHANGED call
  BY DEF SessionStep, SessionLock, SessionWrite, SessionSeal, DispatchCreate, Park
<1>10. \A s \in Session, k \in {"enter", "done", "human"} : SessionEnds(s, k) => UNCHANGED call
  BY DEF SessionEnds
<1>11. ScanStart \/ ScanRows \/ ScanDone \/ DispatchRow \/ (\E t \in Task : ScanNext(t))
           => UNCHANGED call
  BY DEF ScanStart, ScanRows, ScanDone, DispatchRow, ScanNext
<1>12. UNCHANGED vars => UNCHANGED call
  BY DEF vars
<1> QED
  BY <1>1, <1>2, <1>3, <1>4, <1>5, <1>6, <1>7, <1>8, <1>9, <1>10, <1>11, <1>12
     DEF Next, CallStep, ScanStep

(* A step that reconciles tasks, or opens a file again: what holds a task   *)
(* up goes on doing so.                                                     *)
LEMMA WaitsFrame ==
    ASSUME WaitsInv, UNCHANGED <<made, rec, waits>>,
           \A t \in Task : made[t] /\ readable[t] /\ cached[t] => readable'[t] /\ cached'[t]
    PROVE  WaitsInv'
<1>1. \A t \in Task : \A b \in waits[t] : b \in Task
  BY DEF WaitsInv
<1>2. \A t \in Task : \A b \in waits'[t] : b \in rec'[t].by /\ Holds(b)'
  BY <1>1 DEF WaitsInv, Holds
<1> QED
  BY <1>2 DEF WaitsInv

(* No step takes the blocker from a task that waits for it but one that     *)
(* ends the wait, and none comes between dispatch's look and its claim.     *)
LEMMA WaitStep ==
    ASSUME TypeInv, LockInv, MakeInv, ApartInv, WaitsInv, ScanInv, [Next]_vars
    PROVE  WaitsInv' /\ ScanInv'
<1> USE DEF storeVars, histVars
<1>a. \A c \in Caller : call[c] \in CallType
  BY DEF TypeInv, CallsOK
<1>b. \A s \in Session : sess[s] \in SessionType
  BY DEF TypeInv, SessionsOK
<1>c. scan.task \in Task /\ rec \in [Task -> Record]
  BY DEF TypeInv, ScanOK, StoreOK
<1>d. \A t \in Task : Reconcile(t) =>
          \A u \in Task : made[u] /\ readable[u] /\ cached[u] => readable'[u] /\ cached'[u]
  BY DEF Reconcile, Found, TypeInv, StoreOK
<1>e. ASSUME UNCHANGED <<made, rec, waits>>, scan'.pc = "create" => UNCHANGED scan,
             \A s \in Session : LiveSession(s)' => LiveSession(s) /\ Owner(s)' = Owner(s)
      PROVE  ScanInv'
  BY <1>e DEF ScanInv, HasLive
<1>f. ASSUME NEW s \in Session, NEW r, sess' = [sess EXCEPT ![s] = r],
             r.pc \notin {"none", "sealed"} => LiveSession(s) /\ r.op.task = Owner(s)
      PROVE  \A q \in Session : LiveSession(q)' => LiveSession(q) /\ Owner(q)' = Owner(q)
  <2>1. sess'[s] = r /\ \A q \in Session : q # s => sess'[q] = sess[q]
    BY <1>f DEF TypeInv, SessionsOK
  <2> QED
    BY <1>f, <2>1 DEF LiveSession, Owner
<1>1. CASE UNCHANGED vars
  BY <1>1, <1>e, WaitsFrame DEF vars, LiveSession, Owner
<1>2. ASSUME NEW t \in Task, Vanish(t) PROVE WaitsInv' /\ ScanInv'
  <2>1. /\ \A u \in Task : waits'[u] = waits[u] \ {t} /\ (u # t => readable'[u] = readable[u])
        /\ waits' = [u \in Task |-> waits'[u]]
        /\ UNCHANGED <<made, rec, cached, sess, scan>>
    BY <1>2 DEF Vanish, TypeInv, StoreOK
  <2>2. \A u \in Task : \A b \in waits'[u] : b \in waits[u] /\ b # t /\ b \in Task
    BY <2>1 DEF WaitsInv
  <2>3. \A u \in Task : \A b \in waits'[u] : b \in rec'[u].by /\ Holds(b)'
    BY <2>1, <2>2 DEF WaitsInv, Holds
  <2>4. WaitsInv'
    BY <2>1, <2>2, <2>3 DEF WaitsInv
  <2>5. ScanInv'
    BY <2>1, <1>c DEF ScanInv, HasLive, LiveSession, Owner
  <2> QED
    BY <2>4, <2>5
<1>3. ASSUME NEW t \in Task, Repair(t) PROVE WaitsInv' /\ ScanInv'
  <2>1. UNCHANGED <<made, rec, cached, waits, sess, scan>>
        /\ \A u \in Task : readable[u] => readable'[u]
    BY <1>3 DEF Repair, TypeInv, StoreOK
  <2> QED
    BY <2>1, <1>e, WaitsFrame DEF LiveSession, Owner
<1>4. ASSUME NEW t \in Task, Watched(t) PROVE WaitsInv' /\ ScanInv'
  BY <1>4, <1>d, <1>e, WaitsFrame DEF Watched, LiveSession, Owner
<1>5. ASSUME NEW c \in Caller, NEW j \in Jobs[c], Issue(c, j) PROVE WaitsInv' /\ ScanInv'
  <2>1. UNCHANGED <<storeVars, waits, sess, scan>>
    BY <1>5 DEF Issue, TaskCreate, TaskUpdate, TaskEnroll, TaskResume, TaskTerminal,
                TaskReopen, TaskUnblock, MetadataUnset, Send
  <2> QED
    BY <2>1, <1>e, WaitsFrame DEF LiveSession, Owner
<1>6. ASSUME NEW c \in Caller, View(c) \/ Lock(c) \/ Look(c) PROVE WaitsInv' /\ ScanInv'
  <2>1. PICK t \in Task : Reconcile(t)
    BY <1>6, <1>a, Constants DEF View, Lock, Look, CallType, OpType, Wish, NoJob
  <2>2. UNCHANGED <<made, rec, waits, sess, scan>>
    BY <1>6 DEF View, Lock, Look
  <2> QED
    BY <2>1, <2>2, <1>d, <1>e, WaitsFrame DEF LiveSession, Owner
<1>7. ASSUME NEW c \in Caller, Again(c) \/ Kill(c) PROVE WaitsInv' /\ ScanInv'
  <2>1. UNCHANGED <<storeVars, waits, sess, scan>>
    BY <1>7 DEF Again, Kill
  <2> QED
    BY <2>1, <1>e, WaitsFrame DEF LiveSession, Owner
<1>8. ASSUME NEW c \in Caller, Make(c) PROVE WaitsInv' /\ ScanInv'
  <2> DEFINE t == call[c].job.task
             by == call[c].job.by
  <2>1. t \in Task /\ by \subseteq Task /\ ~made[t]
    BY <1>8, <1>a, Constants DEF Make, MakeInv, Making, CallType, Wish, NoJob
  <2>2. /\ made'[t] /\ rec'[t].by = by /\ waits'[t] = {b \in by : Holds(b)}
        /\ \A u \in Task : u # t =>
               /\ made'[u] = made[u] /\ rec'[u] = rec[u] /\ waits'[u] = waits[u]
               /\ readable'[u] = readable[u] /\ cached'[u] = cached[u]
        /\ UNCHANGED <<sess, scan>>
    BY <1>8, <2>1 DEF Make, Created, NewRecord, TypeInv, StoreOK, WaitsInv
  <2>3. waits' \in [Task -> SUBSET Task]
    BY <1>8, <2>1 DEF Make, WaitsInv
  <2> HIDE DEF t, by
  <2>4. \A b \in Task : Holds(b) => Holds(b)'
    BY <2>1, <2>2 DEF Holds
  <2>5. \A u \in Task : \A b \in waits'[u] : b \in rec'[u].by /\ Holds(b)'
    BY <2>1, <2>2, <2>4 DEF WaitsInv
  <2>6. ScanInv'
    BY <2>1, <2>2, <1>c DEF ScanInv, HasLive, LiveSession, Owner
  <2> QED
    BY <2>3, <2>5, <2>6 DEF WaitsInv
<1>9. ASSUME NEW c \in Caller, Write(c) PROVE WaitsInv' /\ ScanInv'
  <2> DEFINE op == call[c].op
  <2>1. /\ op \in OpType /\ op.kind \in WriteKind /\ made[op.task]
        /\ call[c].base = rec[op.task]
    BY <1>9, <1>a DEF Write, CallType, TypeInv, CallsOK, LockInv, Prepared
  <2>2. /\ UNCHANGED <<made, sess, scan>>
        /\ WriteTask(op.task, Applied(op, rec[op.task])) /\ Asked(op)
    BY <1>9, <2>1 DEF Write
  <2>3. /\ op.kind = "block" => op.task \in HeldUp
        /\ op.kind \in TaskStatus => op.task \notin HeldUp
    BY DEF ApartInv
  <2> HIDE DEF op
  <2>4. /\ WaitsInv'
        /\ \A u \in Task : u # op.task => rec'[u] = rec[u]
        /\ \A u \in Task : \/ waits'[u] \subseteq waits[u]
                           \/ u = op.task /\ op.kind = "block" /\ rec[u].status # "work"
        /\ op.kind \notin TaskStatus /\ rec[op.task].status = "work"
               => rec'[op.task].status = "work"
    BY <2>1, <2>2, RecordWritten DEF TypeInv
  <2>5. ScanInv'
    BY <2>2, <2>3, <2>4, <1>c DEF ScanInv, HasLive, LiveSession, Owner
  <2> QED
    BY <2>4, <2>5
<1>10. ASSUME NEW s \in Session, SessionLock(s) PROVE WaitsInv' /\ ScanInv'
  <2> DEFINE r == [sess[s] EXCEPT !.base = rec[Owner(s)],
                      !.pc = IF Found(Owner(s)) THEN "write"
                             ELSE IF sess[s].pc = "park" THEN "seal" ELSE "stuck"]
  <2>1. UNCHANGED <<made, rec, waits, scan>> /\ Reconcile(Owner(s)) /\ Owner(s) \in Task
    BY <1>10, <1>b DEF SessionLock, Owner, SessionType, OpType
  <2>2. sess' = [sess EXCEPT ![s] = r]
    BY <1>10, <1>b DEF SessionLock, Owner, TypeInv, SessionsOK
  <2>3. r.op = sess[s].op /\ LiveSession(s)
    BY <1>10, <1>b DEF SessionLock, SessionType, LiveSession
  <2> HIDE DEF r
  <2> QED
    BY <2>1, <2>2, <2>3, <1>d, <1>e, <1>f, WaitsFrame DEF Owner
<1>11. ASSUME NEW s \in Session, SessionWrite(s) PROVE WaitsInv' /\ ScanInv'
  <2> DEFINE op == sess[s].op
             r == [sess[s] EXCEPT !.pc = "seal", !.base = NoBase]
  <2>1. /\ op \in OpType /\ op.kind \in WriteKind /\ made[op.task]
        /\ sess[s].base = rec[op.task] /\ LiveSession(s)
    BY <1>11, <1>b DEF SessionWrite, SessionType, TypeInv, SessionsOK, LockInv, Prepared,
                       LiveSession
  <2>2. /\ UNCHANGED <<made, scan>>
        /\ WriteTask(op.task, Applied(op, rec[op.task])) /\ Asked(op)
    BY <1>11, <2>1 DEF SessionWrite, Owner
  <2>3. sess' = [sess EXCEPT ![s] = r] /\ r.op = op
    BY <1>11, <1>b DEF SessionWrite, TypeInv, SessionsOK, SessionType
  <2> HIDE DEF r
  <2>4. \A q \in Session : LiveSession(q)' => LiveSession(q) /\ Owner(q)' = Owner(q)
    BY <2>1, <2>3, <1>f DEF Owner
  <2> HIDE DEF op
  <2>5. /\ WaitsInv'
        /\ \A u \in Task : u # op.task => rec'[u] = rec[u]
        /\ \A u \in Task : \/ waits'[u] \subseteq waits[u]
                           \/ u = op.task /\ op.kind = "block" /\ rec[u].status # "work"
    BY <2>1, <2>2, RecordWritten DEF TypeInv
  <2>6. scan.pc = "create" => scan.task # op.task
    BY <2>1 DEF ScanInv, HasLive, Owner, op
  <2>7. ScanInv'
    BY <2>2, <2>4, <2>5, <2>6, <1>c DEF ScanInv, HasLive
  <2> QED
    BY <2>5, <2>7
<1>12. ASSUME NEW s \in Session, SessionSeal(s) PROVE WaitsInv' /\ ScanInv'
  <2>1. UNCHANGED <<storeVars, waits, scan>>
    BY <1>12 DEF SessionSeal
  <2> DEFINE r == [NoSession EXCEPT !.pc = "sealed"]
  <2>2. r.pc = "sealed" /\ sess' = [sess EXCEPT ![s] = r]
    BY <1>12 DEF SessionSeal, NoSession
  <2> HIDE DEF r
  <2> QED
    BY <2>1, <2>2, <1>e, <1>f, WaitsFrame
<1>13. ASSUME NEW s \in Session, NEW k \in {"enter", "done", "human"}, SessionEnds(s, k)
       PROVE  WaitsInv' /\ ScanInv'
  <2>1. UNCHANGED <<storeVars, waits, scan>> /\ LiveSession(s)
    BY <1>13 DEF SessionEnds, LiveSession
  <2> DEFINE r == [sess[s] EXCEPT !.pc = "lock", !.op = [sess[s].op EXCEPT !.kind = k,
                                                                   !.enr = TRUE]]
  <2>2. sess' = [sess EXCEPT ![s] = r] /\ r.op.task = sess[s].op.task
    BY <1>13, <1>b DEF SessionEnds, TypeInv, SessionsOK, SessionType, OpType
  <2> HIDE DEF r
  <2> QED
    BY <2>1, <2>2, <1>e, <1>f, WaitsFrame DEF Owner
<1>14. CASE ScanStart
  <2>1. /\ UNCHANGED <<made, rec, waits, sess>> /\ scan'.pc # "create"
        /\ \A u \in Task : made[u] /\ readable[u] /\ cached[u] => readable'[u] /\ cached'[u]
    BY <1>14 DEF ScanStart, Found, TypeInv, ScanOK
  <2> QED
    BY <2>1, <1>e, WaitsFrame DEF LiveSession, Owner
<1>15. CASE ScanRows \/ ScanDone \/ \E t \in Task : ScanNext(t)
  <2>1. UNCHANGED <<storeVars, waits, sess>> /\ scan'.pc # "create"
    <3>1. CASE ScanRows
      BY <3>1 DEF ScanRows, IdleScan, TypeInv, ScanOK
    <3>2. CASE ScanDone
      BY <3>2 DEF ScanDone, IdleScan
    <3>3. ASSUME NEW t \in Task, ScanNext(t)
          PROVE  UNCHANGED <<storeVars, waits, sess>> /\ scan'.pc # "create"
      BY <3>3 DEF ScanNext, TypeInv, ScanOK
    <3> QED
      BY <1>15, <3>1, <3>2, <3>3
  <2> QED
    BY <2>1, <1>e, WaitsFrame DEF LiveSession, Owner
<1>16. CASE DispatchRow
  <2>1. UNCHANGED <<made, rec, waits, sess>> /\ Reconcile(scan.task)
    BY <1>16 DEF DispatchRow
  <2>2. CASE scan'.pc # "create"
    BY <2>1, <2>2, <1>c, <1>d, <1>e, WaitsFrame DEF LiveSession, Owner
  <2>3. CASE scan'.pc = "create"
    <3>1. Claimable(scan.task) /\ ~HasLive(scan.task) /\ scan'.task = scan.task
      BY <1>16, <2>3 DEF DispatchRow, NextRow, TypeInv, ScanOK
    <3>2. waits[scan.task] = {}
      BY <3>1, <1>c DEF Claimable, IsBlocked, WaitsInv, Holds
    <3>3. made[scan.task] /\ rec[scan.task].status = "work"
      BY <3>1 DEF Claimable, Found
    <3>4. ScanInv'
      BY <2>1, <3>1, <3>2, <3>3 DEF ScanInv, HasLive, LiveSession, Owner
    <3>5. WaitsInv'
      BY <2>1, <1>c, <1>d, WaitsFrame
    <3> QED
      BY <3>4, <3>5
  <2> QED
    BY <2>2, <2>3
<1>17. ASSUME NEW s \in Session, DispatchCreate(s) PROVE WaitsInv' /\ ScanInv'
  <2>1. UNCHANGED <<storeVars, waits>> /\ scan'.pc # "create"
    BY <1>17 DEF DispatchCreate, NextRow, TypeInv, ScanOK
  <2> QED
    BY <2>1, WaitsFrame DEF ScanInv
<1>18. ASSUME NEW s \in Session, Park(s) PROVE WaitsInv' /\ ScanInv'
  <2> DEFINE r == [sess[s] EXCEPT !.pc = IF Found(Owner(s)) THEN "park" ELSE "seal",
                      !.op = [sess[s].op EXCEPT !.kind = "human",
                                                !.enr = rec[Owner(s)].enrolled]]
  <2>1. UNCHANGED <<made, rec, waits, scan>> /\ Reconcile(Owner(s)) /\ Owner(s) \in Task
    BY <1>18, <1>b DEF Park, Owner, SessionType, OpType
  <2>2. sess' = [sess EXCEPT ![s] = r]
    BY <1>18, <1>b DEF Park, Owner, TypeInv, SessionsOK
  <2>3. r.op.task = sess[s].op.task /\ LiveSession(s)
    BY <1>18, <1>b DEF Park, SessionType, OpType, LiveSession
  <2> HIDE DEF r
  <2> QED
    BY <2>1, <2>2, <2>3, <1>d, <1>e, <1>f, WaitsFrame DEF Owner
<1> QED
  BY <1>1, <1>2, <1>3, <1>4, <1>5, <1>6, <1>7, <1>8, <1>9, <1>10, <1>11, <1>12, <1>13,
     <1>14, <1>15, <1>16, <1>17, <1>18 DEF Next, CallStep, SessionStep, ScanStep

(* A task is not given a session while a task that blocked it before it was *)
(* put to work is still open (dispatch, schedulingRowFor).  Apart is needed:*)
(* between dispatch's look at the row and the session's creation a task can *)
(* be closed or reopened and then given a blocker, and dispatch does not    *)
(* look again.                                                              *)
THEOREM BlockersFirst ==
    ASSUME Apart
    PROVE  Spec => WaitsForBlockers
<1>1. Init => ApartInv /\ WaitsInv /\ ScanInv
  <2> SUFFICES ASSUME Init PROVE ApartInv /\ WaitsInv /\ ScanInv
    OBVIOUS
  <2>1. ApartInv
    <3>1. \A c \in Caller : call[c] = IdleCall
      BY DEF Init
    <3>2. IdleCall.pc = "idle" /\ IdleCall.op.kind = "none"
      BY DEF IdleCall, NoOp
    <3>3. "none" \notin TaskStatus /\ "none" # "block" /\ "idle" # "again"
      BY DEF TaskStatus, Open, Closing
    <3> QED
      BY <3>1, <3>2, <3>3 DEF ApartInv, InFlight
  <2>2. WaitsInv
    BY DEF Init, WaitsInv
  <2>3. ScanInv
    BY DEF Init, ScanInv, IdleScan
  <2> QED
    BY <2>1, <2>2, <2>3
<1>2. Inv /\ ApartInv /\ WaitsInv /\ ScanInv /\ [Next]_vars => ApartInv' /\ WaitsInv' /\ ScanInv'
  BY ApartStep, WaitStep DEF Inv
<1>3. Inv /\ ScanInv /\ [Next]_vars =>
          [\A s \in Session : sess[s].pc = "none" /\ sess'[s].pc = "live"
                                  => waits[sess'[s].op.task] = {}]_vars
  <2> SUFFICES ASSUME TypeInv, ScanInv, Next, NEW s \in Session, sess[s].pc = "none",
                      sess'[s].pc = "live"
               PROVE  waits[sess'[s].op.task] = {}
    BY DEF Inv
  <2>1. DispatchCreate(s)
    <3>1. ~UNCHANGED sess
      OBVIOUS
    <3>2. ASSUME NEW r \in Session, SessionStep(r) PROVE FALSE
      BY <3>2 DEF SessionStep, SessionLock, SessionWrite, SessionSeal, NoSession, TypeInv,
                  SessionsOK, SessionType
    <3>3. ASSUME NEW r \in Session, NEW k \in {"enter", "done", "human"},
                 SessionEnds(r, k) \/ Park(r)
          PROVE  FALSE
      BY <3>3 DEF SessionEnds, Park, TypeInv, SessionsOK, SessionType
    <3>4. ASSUME NEW r \in Session, DispatchCreate(r) PROVE r = s
      BY <3>4 DEF DispatchCreate, TypeInv, SessionsOK, SessionType
    <3>5. \A t \in Task : ~(Vanish(t) \/ Repair(t) \/ Watched(t))
      BY <3>1 DEF Vanish, Repair, Watched
    <3>6. \A c \in Caller : ~(CallStep(c) \/ Kill(c))
      BY <3>1 DEF CallStep, Make, View, Lock, Write, Look, Again, Kill
    <3>7. \A c \in Caller : \A j \in Jobs[c] : ~Issue(c, j)
      BY <3>1 DEF Issue, TaskCreate, TaskUpdate, TaskEnroll, TaskResume, TaskTerminal,
                  TaskReopen, TaskUnblock, MetadataUnset, Send
    <3>8. ~(ScanStart \/ ScanRows \/ ScanDone \/ DispatchRow) /\ \A t \in Task : ~ScanNext(t)
      BY <3>1 DEF ScanStart, ScanRows, ScanDone, DispatchRow, ScanNext
    <3> QED
      BY <3>2, <3>3, <3>4, <3>5, <3>6, <3>7, <3>8 DEF Next, ScanStep
  <2>2. sess'[s].op.task = scan.task /\ waits[scan.task] = {}
    BY <2>1 DEF DispatchCreate, ScanInv, TypeInv, SessionsOK, SessionType, OpType
  <2> QED
    BY <2>2
<1> QED
  BY <1>1, <1>2, <1>3, Invariant, PTL DEF Spec, WaitsForBlockers
===============================================================================
