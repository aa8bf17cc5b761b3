-------------------------------- MODULE Backlog --------------------------------
(***************************************************************************)
(* The task graph of one project and everybody who writes it: the task     *)
(* tools of the agents, through the session's MCP server or through the    *)
(* autosk CLI, the clients, the sessions that end and the scheduler.  A    *)
(* tool call is several store operations, each of which takes the task's   *)
(* lock, reconciles the task with its file and rewrites it.  Task files    *)
(* vanish, or stop parsing, and come back.                                 *)
(*                                                                         *)
(* Module TaskFile has the content of one file; here it is readable or     *)
(* not.  One workflow with one agent step.                                 *)
(***************************************************************************)
EXTENDS Naturals

CONSTANTS
    Task, Existing,  \* task ids, and the tasks there are at the start
    Session,         \* session ids, each used once
    Caller,          \* the tool calls and requests in flight
    Jobs,            \* what each of them asks for
    Nobody,
    MaxCalls,        \* bound: requests
    MaxBreaks,       \* bound: task files that vanish
    MaxEntries       \* bound: counted entries of a task into the step

(* What a tool or a client asks for: its task, the edges of a create, and  *)
(* whether the new task is to be enrolled.                                 *)
JobKind == {"create", "edit", "enroll", "resume", "done", "cancel", "reopen",
            "unblock", "reset"}
Wish == [kind : JobKind, task : Task, by : SUBSET Task, blocks : SUBSET Task,
         enroll : BOOLEAN]

ASSUME BacklogAssumption ==
    /\ Task # {} /\ Existing \subseteq Task
    /\ Nobody \notin Caller \cup Session /\ Caller \cap Session = {}
    /\ \A c \in Caller : \A j \in Jobs[c] :
           j \in Wish /\ j.task \notin j.by \cup j.blocks

VARIABLES
    made, readable,  \* the task exists, and its task.json parses
    rec,             \* the record: status, enrolled, by (blocked_by), visits
    cached,          \* the store has it in its cache
    lock,            \* holder of the task's lock
    call,            \* the requests
    sess,            \* the sessions
    scan,            \* the scheduler
    waits,           \* blockers a task had before it was put to work (history)
    cut,             \* edges taken away again (history)
    entries,         \* counted entries since the count was reset (history)
    erased,          \* tasks whose enrolment a write on an older view took (history)
    calls, breaks    \* bounds
storeVars == <<made, readable, rec, cached, lock>>
histVars == <<waits, cut, entries, erased>>
vars == <<storeVars, call, sess, scan, histVars, calls, breaks>>

Open == {"new", "work", "human"}
Closing == {"done", "cancel"}
NewRecord(by) == [status |-> "new", enrolled |-> FALSE, by |-> by, visits |-> 0]

NoOp == [kind |-> "none", task |-> CHOOSE t \in Task : TRUE, other |-> {},
         enr |-> FALSE]
NoBase == NewRecord({})
NoJob == [kind |-> "none", task |-> CHOOSE t \in Task : TRUE, by |-> {},
          blocks |-> {}, enroll |-> FALSE]
IdleCall == [pc |-> "idle", job |-> NoJob, todo |-> {}, killed |-> FALSE,
             op |-> NoOp, base |-> NoBase, seen |-> NoBase]
NoSession == [pc |-> "none", op |-> NoOp, base |-> NoBase]
IdleScan == [pc |-> "idle", todo |-> {}, task |-> NoOp.task]

-----------------------------------------------------------------------------
(* Sessions, as the store's index has them. *)

Owner(s) == sess[s].op.task
LiveSession(s) == sess[s].pc \notin {"none", "sealed"}
HasLive(t) == \E s \in Session : LiveSession(s) /\ Owner(s) = t

(* Mutant: only a task that is being worked on blocks. *)
WorkBlocks(t) == \E b \in rec[t].by : cached[b] /\ rec[b].status = "work"

(* schedulingRowFor: from the cached records; a blocker without one does   *)
(* not block.                                                              *)
IsBlocked(t) == \E b \in rec[t].by : cached[b] /\ rec[b].status \in Open

-----------------------------------------------------------------------------
(* The store.  reconcileLocked drops a task whose file is gone or does not *)
(* parse, but writes it back while a session is live.                      *)

Restores(t) == made[t] /\ ~readable[t] /\ cached[t] /\ HasLive(t)
Found(t) == made[t] /\ (readable[t] \/ Restores(t))

Reconcile(t) ==
    /\ readable' = [readable EXCEPT ![t] = Found(t)]
    /\ cached' = [cached EXCEPT ![t] = Found(t)]

(* Mutant: the locks are not asked for. *)
Unguarded(t) == TRUE

Unlocked(t) == lock[t] = Nobody

(* The store's operations, as what they make of the record.  A position is *)
(* written whole: enr says whether it names a workflow and a step.         *)
Block(r, bs)     == [r EXCEPT !.by = @ \cup bs]
Unblock(r, bs)   == [r EXCEPT !.by = @ \ bs]
UnsetVisits(r)   == [r EXCEPT !.visits = 0]
BumpStepVisit(r) == [r EXCEPT !.visits = @ + 1]
UpdateTask(r)    == r
SetPosition(r, status, enr) == [r EXCEPT !.status = status, !.enrolled = enr]

Applied(op, r) ==
    CASE op.kind = "block"   -> Block(r, op.other)
      [] op.kind = "unblock" -> Unblock(r, op.other)
      [] op.kind = "reset"   -> UnsetVisits(r)
      [] op.kind = "edit"    -> UpdateTask(r)
      [] op.kind = "enter"   -> BumpStepVisit(SetPosition(r, "work", TRUE))
      [] OTHER               -> SetPosition(r, op.kind, op.enr)

Holds(b) == made[b] /\ readable[b] /\ cached[b] /\ rec[b].status \in Open

Erases(op) ==
    /\ op.kind \in Open \cup Closing
    /\ ~op.enr /\ rec[op.task].enrolled

(* The histories follow what was asked for, not what the file says. *)
Asked(op) ==
    LET t == op.task IN
    /\ cut' = CASE op.kind = "unblock" -> cut \cup {<<t, b>> : b \in op.other}
                [] op.kind = "block"   -> cut \ {<<t, b>> : b \in op.other}
                [] OTHER               -> cut
    /\ entries' = [entries EXCEPT ![t] =
                      CASE op.kind = "enter" -> @ + 1
                        [] op.kind = "reset" -> 0
                        [] OTHER             -> @]
    /\ erased' = IF op.kind = "enter" THEN erased \ {t}
                 ELSE IF Erases(op) THEN erased \cup {t} ELSE erased
    /\ waits' = [u \in Task |->
          CASE u = t /\ op.kind = "unblock" -> waits[u] \ op.other
            [] u = t /\ op.kind = "block" /\ rec[t].status # "work" ->
                 waits[u] \cup {b \in op.other : Holds(b)}
            [] op.kind \in {"done", "cancel"} -> waits[u] \ {t}
            [] OTHER -> waits[u]]

TakeLock(x, t) == lock' = IF Found(t) THEN [lock EXCEPT ![t] = x] ELSE lock

WriteTask(t, r) ==
    /\ rec' = [rec EXCEPT ![t] = r]
    /\ readable' = [readable EXCEPT ![t] = TRUE]
    /\ cached' = [cached EXCEPT ![t] = TRUE]
    /\ lock' = [lock EXCEPT ![t] = Nobody]

(* The operator deletes or breaks a task.json, and brings it back. *)
Vanish(t) ==
    /\ breaks < MaxBreaks /\ made[t] /\ readable[t]
    /\ readable' = [readable EXCEPT ![t] = FALSE]
    /\ breaks' = breaks + 1
    /\ waits' = [u \in Task |-> waits[u] \ {t}]
    /\ UNCHANGED <<made, rec, cached, lock, call, sess, scan, cut, entries,
                   erased, calls>>

Repair(t) ==
    /\ made[t] /\ ~readable[t]
    /\ readable' = [readable EXCEPT ![t] = TRUE]
    /\ UNCHANGED <<made, rec, cached, lock, call, sess, scan, histVars, calls,
                   breaks>>

(* The watcher. *)
Watched(t) ==
    /\ made[t] /\ cached[t] # readable[t] /\ Unlocked(t)
    /\ Reconcile(t)
    /\ UNCHANGED <<made, rec, lock, call, sess, scan, histVars, calls, breaks>>

-----------------------------------------------------------------------------
(* Requests.  job is what was asked; op the store operation under way, base *)
(* the record it read, seen the record its view showed; todo the edges a   *)
(* create has yet to write.                                                 *)

InFlight(c) == call[c].pc \notin {"idle", "ok"}

Viewing == {"enroll", "resume", "done", "cancel", "reopen"}

OpOf(j, kind, enr) == [kind |-> kind, task |-> j.task, other |-> j.by, enr |-> enr]

Answer(c) ==
    call' = [call EXCEPT ![c] =
        [IdleCall EXCEPT !.job = call[c].job, !.pc = "ok"]]

(* A request that failed: nothing of it is kept. *)
Refuse(c) == call' = [call EXCEPT ![c] = IdleCall]

(* A caller sends what it wants done: a tool call in an agent's turn, or a *)
(* client's request. The answer of the last one is dropped.                *)
Send(c, j, pc) ==
    /\ ~InFlight(c) /\ calls < MaxCalls
    /\ call' = [call EXCEPT ![c] =
          [IdleCall EXCEPT !.job = j, !.todo = j.blocks, !.op = OpOf(j, j.kind, FALSE),
                       !.pc = pc]]
    /\ calls' = calls + 1
    /\ UNCHANGED <<storeVars, sess, scan, histVars, breaks>>

(* createTask draws the new id itself. *)
TaskCreate(c, j) ==
    /\ j.kind = "create" /\ ~made[j.task]
    /\ \A d \in Caller : InFlight(d) /\ call[d].job.kind = "create"
                            => call[d].job.task # j.task
    /\ Send(c, j, "make")
TaskUpdate(c, j) == j.kind = "edit" /\ Send(c, j, "lock")
TaskEnroll(c, j) == j.kind = "enroll" /\ Send(c, j, "view")
TaskResume(c, j) == j.kind = "resume" /\ Send(c, j, "view")
TaskTerminal(c, j) == j.kind \in Closing /\ Send(c, j, "view")
TaskReopen(c, j) == j.kind = "reopen" /\ Send(c, j, "view")
TaskUnblock(c, j) == j.kind = "unblock" /\ Send(c, j, "lock")
MetadataUnset(c, j) == j.kind = "reset" /\ Send(c, j, "lock")
Issue(c, j) ==
    \/ TaskCreate(c, j)
    \/ /\ made[j.task]
       /\ \/ TaskUpdate(c, j) \/ TaskEnroll(c, j) \/ TaskResume(c, j) \/ TaskTerminal(c, j)
          \/ TaskReopen(c, j) \/ TaskUnblock(c, j) \/ MetadataUnset(c, j)

Created(j) == NewRecord(j.by)

(* store.createTask, up to the view it returns. *)
Make(c) ==
    LET j == call[c].job IN
    /\ call[c].pc = "make"
    /\ made' = [made EXCEPT ![j.task] = TRUE]
    /\ rec' = [rec EXCEPT ![j.task] = Created(j)]
    /\ readable' = [readable EXCEPT ![j.task] = TRUE]
    /\ cached' = [cached EXCEPT ![j.task] = TRUE]
    /\ waits' = [waits EXCEPT ![j.task] = {b \in j.by : Holds(b)}]
    /\ call' = [call EXCEPT ![c].pc = "look"]
    /\ UNCHANGED <<lock, sess, scan, cut, entries, erased, calls,
                   breaks>>

(* requireTask or getTaskView, and what the request makes of the view.     *)
Enrollable(r) == r.status \in {"new", "cancel", "human"}
Resumable(r) == r.status \in {"human", "cancel"} /\ r.enrolled
Reopenable(r) == r.status \in Closing
Closable(t, r, status) == r.status # status /\ ~HasLive(t)

Wanted(kind, r) ==
    CASE kind \in {"enroll", "resume"} -> "enter"
      [] kind = "reopen" -> IF r.enrolled THEN "human" ELSE "new"
      [] OTHER -> kind

(* Mutant: the record is the one the view showed. *)
ViewedBase(c, t) == IF call[c].job.kind \in Viewing THEN call[c].seen ELSE rec[t]

LockedBase(c, t) == rec[t]

View(c) ==
    LET j == call[c].job
        kind == IF j.kind = "create" THEN "enroll" ELSE j.kind
        t == j.task
        may == Found(t) /\ CASE kind = "enroll" -> Enrollable(rec[t])
                             [] kind = "resume" -> Resumable(rec[t])
                             [] kind = "reopen" -> Reopenable(rec[t])
                             [] OTHER -> Closable(t, rec[t], kind) IN
    /\ call[c].pc = "view" /\ Unlocked(t)
    /\ Reconcile(t)
    /\ \/ /\ may
          /\ call' = [call EXCEPT ![c] =
                [@ EXCEPT !.pc = "lock", !.seen = rec[t],
                          !.op = OpOf(j, Wanted(kind, rec[t]), rec[t].enrolled)]]
       \/ /\ ~may
          /\ IF Found(t) /\ kind = rec[t].status THEN Answer(c) ELSE Refuse(c)
    /\ UNCHANGED <<made, rec, lock, sess, scan, histVars, calls, breaks>>

(* mutateTask: the lock and requireLocked, then the write. *)
Lock(c) ==
    LET t == call[c].op.task IN
    /\ call[c].pc = "lock" /\ Unlocked(t)
    /\ Reconcile(t)
    /\ TakeLock(c, t)
    /\ IF Found(t)
       THEN call' = [call EXCEPT ![c].pc = "write", ![c].base = LockedBase(c, t)]
       ELSE Refuse(c)
    /\ UNCHANGED <<made, rec, sess, scan, histVars, calls, breaks>>

Write(c) ==
    LET op == call[c].op IN
    /\ call[c].pc = "write"
    /\ WriteTask(op.task, Applied(op, call[c].base))
    /\ Asked(op)
    /\ call' = [call EXCEPT ![c].pc = "look", ![c].base = NoBase]
    /\ UNCHANGED <<made, sess, scan, calls, breaks>>

(* The next operation of a create: an edge of blocks, the enrolment, or    *)
(* the answer.  A CLI that was killed asks for nothing more.               *)
GivenUp(c) == call[c].killed
CreateGoesOn(c) ==
    LET j == call[c].job IN
    IF GivenUp(c)
    THEN Refuse(c)
    ELSE IF call[c].todo # {}
    THEN \E x \in call[c].todo :
            call' = [call EXCEPT
               ![c].pc = "lock", ![c].todo = @ \ {x},
               ![c].op = [kind |-> "block", task |-> x, other |-> {j.task}, enr |-> FALSE]]
    ELSE IF j.enroll /\ call[c].op.kind # "enter"
    THEN call' = [call EXCEPT ![c].pc = "view"]
    ELSE Answer(c)

(* A mutation returns the view of its task: not found if it is gone.       *)
Look(c) ==
    LET t == call[c].op.task
        j == call[c].job IN
    /\ call[c].pc = "look" /\ Unlocked(t)
    /\ Reconcile(t)
    /\ IF ~Found(t) THEN Refuse(c)
       ELSE IF j.kind = "create" THEN CreateGoesOn(c)
       ELSE IF j.kind \notin Closing THEN Answer(c)
       ELSE IF call[c].op.kind # j.kind THEN Refuse(c)
       ELSE call' = [call EXCEPT ![c].pc = "again"]
    /\ UNCHANGED <<made, rec, lock, sess, scan, histVars, calls, breaks>>

(* taskTerminal looks for a session a second time, and takes the position  *)
(* back to the one it has seen when there is one.                          *)
Again(c) ==
    /\ call[c].pc = "again"
    /\ IF HasLive(call[c].job.task)
       THEN call' = [call EXCEPT ![c].pc = "lock",
                                 ![c].op.kind = call[c].seen.status]
       ELSE Answer(c)
    /\ UNCHANGED <<storeVars, sess, scan, histVars, calls, breaks>>

(* An autosk process is killed: after 30 s, or because the turn that wanted *)
(* it is aborted.  The request that is under way in the daemon goes on, and *)
(* so does the whole of a create that came through the session's MCP server.*)
Kill(c) ==
    /\ InFlight(c) /\ call[c].job.kind = "create" /\ ~call[c].killed
    /\ call' = [call EXCEPT ![c].killed = TRUE]
    /\ UNCHANGED <<storeVars, sess, scan, histVars, calls, breaks>>

-----------------------------------------------------------------------------
(* Sessions: they end with a transit, which names the session's workflow... *)

SessionEnds(s, kind) ==
    LET t == Owner(s) IN
    /\ sess[s].pc = "live"
    /\ kind = "enter" => entries[t] < MaxEntries
    /\ sess' = [sess EXCEPT ![s].pc = "lock", ![s].op.kind = kind, ![s].op.enr = TRUE]
    /\ UNCHANGED <<storeVars, call, scan, histVars, calls, breaks>>

(* ... or are failed and parked, where the position is the one a view      *)
(* showed; no view, no park.                                               *)
Park(s) ==
    LET t == Owner(s) IN
    /\ sess[s].pc = "live" /\ Unlocked(t)
    /\ Reconcile(t)
    /\ sess' = [sess EXCEPT ![s].pc = IF Found(t) THEN "park" ELSE "seal",
                            ![s].op.kind = "human", ![s].op.enr = rec[t].enrolled]
    /\ UNCHANGED <<made, rec, lock, call, scan, histVars, calls, breaks>>

(* Not found: the transit has thrown and the session is not sealed; a park *)
(* that throws is passed over.                                             *)
SessionLock(s) ==
    LET t == Owner(s) IN
    /\ sess[s].pc \in {"lock", "park"} /\ Unlocked(t)
    /\ Reconcile(t)
    /\ TakeLock(s, t)
    /\ sess' = [sess EXCEPT ![s].base = rec[t],
           ![s].pc = IF Found(t) THEN "write" ELSE IF @ = "park" THEN "seal" ELSE "stuck"]
    /\ UNCHANGED <<made, rec, call, scan, histVars, calls, breaks>>

SessionWrite(s) ==
    /\ sess[s].pc = "write"
    /\ WriteTask(Owner(s), Applied(sess[s].op, sess[s].base))
    /\ Asked(sess[s].op)
    /\ sess' = [sess EXCEPT ![s].pc = "seal", ![s].base = NoBase]
    /\ UNCHANGED <<made, call, scan, calls, breaks>>

SessionSeal(s) ==
    /\ sess[s].pc = "seal"
    /\ sess' = [sess EXCEPT ![s] = [NoSession EXCEPT !.pc = "sealed"]]
    /\ UNCHANGED <<storeVars, call, scan, histVars, calls, breaks>>

-----------------------------------------------------------------------------
(* The scheduler. *)

(* listSchedulable reconciles the whole project, here in one step, and     *)
(* lists the work there is; blocked rows are passed over.                  *)
ScanStart ==
    /\ scan.pc = "idle"
    /\ \A t \in Task : Unlocked(t)
    /\ readable' = [t \in Task |-> Found(t)]
    /\ cached' = [t \in Task |-> Found(t)]
    /\ scan' = [scan EXCEPT !.pc = "list"]
    /\ UNCHANGED <<made, rec, lock, call, sess, histVars, calls, breaks>>

ScanRows ==
    /\ scan.pc = "list"
    /\ scan' = [scan EXCEPT !.pc = "rows",
                   !.todo = {t \in Task : /\ cached[t] /\ rec[t].status = "work"
                                          /\ rec[t].enrolled /\ ~IsBlocked(t)}]
    /\ UNCHANGED <<storeVars, call, sess, histVars, calls, breaks>>

ScanNext(t) ==
    /\ scan.pc = "rows" /\ t \in scan.todo
    /\ scan' = [scan EXCEPT !.todo = @ \ {t},
                            !.task = IF HasLive(t) THEN @ ELSE t,
                            !.pc = IF HasLive(t) THEN "rows" ELSE "fresh"]
    /\ UNCHANGED <<storeVars, call, sess, histVars, calls, breaks>>

ScanDone ==
    /\ scan.pc = "rows" /\ scan.todo = {}
    /\ scan' = IdleScan
    /\ UNCHANGED <<storeVars, call, sess, histVars, calls, breaks>>

NextRow == [scan EXCEPT !.pc = "rows", !.task = NoOp.task]

Claimable(t) == Found(t) /\ rec[t].status = "work" /\ rec[t].enrolled
                         /\ ~IsBlocked(t)

(* dispatch: schedulingRow reconciles the task, and the conditions are     *)
(* evaluated again on what it finds.                                       *)
DispatchRow ==
    LET t == scan.task IN
    /\ scan.pc = "fresh" /\ Unlocked(t)
    /\ Reconcile(t)
    /\ scan' = IF Claimable(t) /\ ~HasLive(t) THEN [scan EXCEPT !.pc = "create"]
               ELSE NextRow
    /\ UNCHANGED <<made, rec, lock, call, sess, histVars, calls, breaks>>

(* sessions.create has written the session's files: now it is live. *)
DispatchCreate(s) ==
    /\ scan.pc = "create" /\ sess[s].pc = "none"
    /\ sess' = [sess EXCEPT ![s].pc = "live", ![s].op.task = scan.task]
    /\ scan' = NextRow
    /\ UNCHANGED <<storeVars, call, histVars, calls, breaks>>

-----------------------------------------------------------------------------
Init ==
    /\ made = [t \in Task |-> t \in Existing]
    /\ readable = made /\ cached = made
    /\ rec = [t \in Task |-> NewRecord({})]
    /\ lock = [t \in Task |-> Nobody]
    /\ call = [c \in Caller |-> IdleCall]
    /\ sess = [s \in Session |-> NoSession]
    /\ scan = IdleScan
    /\ waits = [t \in Task |-> {}] /\ cut = {} /\ erased = {}
    /\ entries = [t \in Task |-> 0]
    /\ calls = 0 /\ breaks = 0

CallStep(c) == Make(c) \/ View(c) \/ Lock(c) \/ Write(c) \/ Look(c) \/ Again(c)

SessionStep(s) == SessionLock(s) \/ SessionWrite(s) \/ SessionSeal(s)

ScanStep ==
    \/ ScanRows \/ ScanDone \/ DispatchRow
    \/ \E t \in Task : ScanNext(t)
    \/ \E s \in Session : DispatchCreate(s)

Next ==
    \/ \E t \in Task : Vanish(t) \/ Repair(t) \/ Watched(t)
    \/ \E c \in Caller : CallStep(c) \/ Kill(c)
    \/ \E c \in Caller : \E j \in Jobs[c] : Issue(c, j)
    \/ \E s \in Session : SessionStep(s) \/ Park(s)
    \/ \E s \in Session, k \in {"enter", "done", "human"} : SessionEnds(s, k)
    \/ ScanStart \/ ScanStep

Spec == Init /\ [][Next]_vars

-----------------------------------------------------------------------------
(* A task is not given a session while a task that blocked it before it    *)
(* was put to work is still open, still blocks it, and its file could be   *)
(* read all the time: createTask writes blocked_by before enroll is asked, *)
(* and dispatch reads the row again.                                       *)
WaitsForBlockers ==
    [][\A s \in Session :
          sess[s].pc = "none" /\ sess'[s].pc = "live"
              => waits[sess'[s].op.task] = {}]_vars

(* What a create that was answered promised is there: each task it blocks  *)
(* has the edge, unless somebody took it away, and the new task has its    *)
(* own edges and is enrolled, unless a close, a reopen or a park that saw  *)
(* the task before its enrolment wrote after it (runTask; create.go).      *)
AnswerIsTrue ==
    \A c \in Caller :
        LET j == call[c].job IN
        call[c].pc = "ok" /\ j.kind = "create" =>
            /\ \A x \in j.blocks : j.task \in rec[x].by \/ <<x, j.task>> \in cut
            /\ \A b \in j.by : b \in rec[j.task].by \/ <<j.task, b>> \in cut
            /\ j.enroll => rec[j.task].enrolled \/ j.task \in erased

(* step_visits is the number of entries since it was last reset, whatever  *)
(* else is written to the task at the same time (setPosition, countVisit). *)
VisitsCounted == \A t \in Task : rec[t].visits = entries[t]
=============================================================================
