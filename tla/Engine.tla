------------------------------- MODULE Engine -------------------------------
(***************************************************************************)
(* The task scheduler of autoskd: one project of an Engine, the sessions   *)
(* it dispatches, the client requests that move a task, crash recovery,    *)
(* and the process being stopped, killed and started again.                *)
(*                                                                         *)
(* JavaScript runs a function atomically from one await to the next, so    *)
(* one action is one such stretch: the completion of an awaited read or    *)
(* write together with the code that runs up to the next await.            *)
(***************************************************************************)
EXTENDS Integers, Sequences, FiniteSets

CONSTANTS
    Task,        \* the tasks of the project
    Session,     \* session ids, each used once
    Client,      \* connections, each with at most one request in flight
    Step,        \* the steps the workflow declares
    StepStatus,  \* "work" for an agent step, the status of a status step
    Blockers,    \* the blocked_by edges
    Workers,     \* size of the worker pool
    Requests,    \* the request kinds the clients send
    Targets,     \* the transition targets agents and clients name
    NoTask, NoStep,
    MaxVisit,    \* bound: counted entries of a task into a step
    MaxCrash,    \* bound: process ends
    MaxFault,    \* bound: failing store operations
    MaxReload    \* bound: registry swaps

TaskStatus == {"new", "work", "human", "done", "cancel"}
EndStatus  == {"done", "cancel", "human"}
Open == {"new", "work", "human"}

ASSUME ConstantsAssumption ==
    /\ NoTask \notin Task
    /\ NoStep \notin Step
    /\ Step \cap EndStatus = {}
    /\ StepStatus \in [Step -> EndStatus \cup {"work"}]
    /\ Blockers \in [Task -> SUBSET Task]
    /\ Targets \subseteq Step \cup EndStatus
    /\ Workers \in Nat \ {0}
    /\ MaxVisit \in Nat /\ MaxCrash \in Nat /\ MaxFault \in Nat
    /\ MaxReload \in Nat

VARIABLES
    \* on disk: task.json
    status, step,
    visits,      \* sum of metadata.step_visits
    \* on disk: sessions/<id>.json
    meta, owner, at,   \* status, task_id, step
    claim,       \* visits[owner] when the session was created (history)
    \* the process
    up, stopped, known,
    queue, active, scan, rec,
    \* the session runtimes
    run,         \* where run() is
    wf,          \* the steps of the workflow definition it captured
    transit,     \* target of the ctx.transit call inside onTransit, or NoStep
    abort,       \* "no", "hook" (inside onAbort), "yes"
    fin,         \* "no" until settled, then the next write of the settler
    outcome,     \* status the settler seals
    target,      \* what the settler writes: transit target, or viewed step
    \* the client requests
    req,
    \* bounds
    crashes, faults, reloads

taskVars == <<status, step, visits>>
metaVars == <<meta, owner, at, claim>>
rtVars   == <<run, wf, transit, abort, fin, outcome, target>>
poolVars == <<queue, active>>
vars == <<taskVars, metaVars, up, stopped, known, poolVars, scan, rec,
          rtVars, req, crashes, faults, reloads>>

LiveStatus == {"queued", "running"}
Terminal   == {"done", "failed", "aborted"}
NoRequest  == [pc |-> "idle", task |-> NoTask, status |-> "new",
               step |-> NoStep, to |-> NoStep]
IdleScan   == [pc |-> "idle", todo |-> {}, task |-> NoTask, step |-> NoStep,
               again |-> FALSE]
NoRecovery == [pc |-> "no", todo |-> {}, task |-> NoTask, step |-> NoStep]

Live(s)        == meta[s] \in LiveStatus
(* Mutant: a queued session does not count as live. *)
HasRunning(t)  == \E s \in Session : owner[s] = t /\ meta[s] = "running"
HasLive(t)     == \E s \in Session : owner[s] = t /\ Live(s)
Settled(s)     == fin[s] # "no"
Registered(s)  == run[s] \in {"queued", "claim", "on", "await", "back"}
InJob(s)       == run[s] \in {"claim", "on", "await", "back"}
Blocked(t)     == \E b \in Blockers[t] : status[b] \in Open

-----------------------------------------------------------------------------
(* Positions. *)

PositionFor(current, to) ==
    IF to \in Step THEN [status |-> StepStatus[to], step |-> to]
                   ELSE [status |-> to, step |-> current]

SetPosition(t, pos, countVisit) ==
    /\ status' = [status EXCEPT ![t] = pos.status]
    /\ step'   = [step EXCEPT ![t] = pos.step]
    /\ visits' = [visits EXCEPT ![t] = IF countVisit THEN @ + 1 ELSE @]

(* park, with the step its view had. *)
ParkTask(t, viewed) ==
    SetPosition(t, [status |-> "human", step |-> viewed], FALSE)

MayEnter(t, to) == to \in Step => visits[t] < MaxVisit

(* One store operation fails: ENOSPC, EACCES, a deleted file. *)
Fault == faults < MaxFault /\ faults' = faults + 1

-----------------------------------------------------------------------------
(* kickScan: starts a drain, or asks the one under way to scan again. *)

(* Mutant: a kick that finds a scan under way is dropped. *)
KickedWhenIdle(sc) ==
    IF ~stopped /\ rec.pc # "no" /\ sc.pc = "idle"
    THEN [sc EXCEPT !.pc = "list"] ELSE sc

Kicked(sc) ==
    IF stopped \/ rec.pc = "no" THEN sc
    ELSE IF sc.pc = "idle" THEN [sc EXCEPT !.pc = "list", !.again = FALSE]
    ELSE [sc EXCEPT !.again = TRUE]

Kick == scan' = Kicked(scan)

(* Mutants: the pool takes one worker too many, or one too few. *)
PoolOverfull(n) == n > Workers
PoolShort(n)    == n + 1 >= Workers

PoolFull(n) == n >= Workers

DropTaken(n) == SubSeq(queue, n + 1, Len(queue))

(* How many entries pump takes off the queue when busy slots are taken: it *)
(* stops as soon as the pool is full, and a runtime settled while it was   *)
(* queued takes no slot.                                                   *)
Unsettled(i) == {j \in 1..i : ~Settled(queue[j])}

TakenBy(busy) ==
    Cardinality({i \in 1..Len(queue) :
        ~stopped /\ ~PoolFull(busy + Cardinality(Unsettled(i - 1)))})

(* pump, called with busy slots taken and the runtimes at base. *)
Pump(busy, base) ==
    LET n == TakenBy(busy)
        taken == {queue[j] : j \in 1..n}
    IN  /\ queue' = DropTaken(n)
        /\ active' = busy + Cardinality(Unsettled(n))
        /\ run' = [s \in Session |->
                      IF s \notin taken THEN base[s]
                      ELSE IF Settled(s) THEN "out" ELSE "claim"]

-----------------------------------------------------------------------------
(* The scanner: drainScans, scanAll, scanProject, dispatch. *)

(* The safety rescan, and whatever other project kicks the engine. *)
Rescan ==
    /\ up
    /\ Kick /\ scan' # scan
    /\ UNCHANGED <<taskVars, metaVars, up, stopped, known, poolVars, rec,
                   rtVars, req, crashes, faults, reloads>>

(* listSchedulable returns the work tasks; blocked rows and rows with a    *)
(* live session are passed over one by one.                                *)
ScanList ==
    /\ scan.pc = "list"
    /\ \/ scan' = [scan EXCEPT !.pc = "rows",
                      !.todo = {t \in Task : status[t] = "work" /\ ~Blocked(t)
                                             /\ step[t] # NoStep}]
          /\ UNCHANGED faults
       \/ Fault /\ scan' = [scan EXCEPT !.pc = "idle"]
    /\ UNCHANGED <<taskVars, metaVars, up, stopped, known, poolVars, rec,
                   rtVars, req, crashes, reloads>>

ScanRow(t) ==
    /\ scan.pc = "rows" /\ ~stopped
    /\ t \in scan.todo
    /\ scan' = [scan EXCEPT !.todo = @ \ {t},
                            !.pc = IF HasLive(t) THEN "rows" ELSE "fresh",
                            !.task = IF HasLive(t) THEN NoTask ELSE t]
    /\ UNCHANGED <<taskVars, metaVars, up, stopped, known, poolVars, rec,
                   rtVars, req, crashes, faults, reloads>>

NextRow == [scan EXCEPT !.pc = "rows", !.task = NoTask, !.step = NoStep]

(* dispatch, up to the await of sessions.create or of park: the row is     *)
(* read afresh and every condition is evaluated again.                     *)
DispatchRow ==
    LET t == scan.task IN
    /\ scan.pc = "fresh"
    /\ \/ /\ status[t] # "work" \/ Blocked(t) \/ step[t] = NoStep
          /\ scan' = NextRow
       \/ /\ status[t] = "work" /\ ~Blocked(t) /\ step[t] # NoStep
          /\ step[t] \notin known
          /\ scan' = [scan EXCEPT !.pc = "parkView"]
       \/ /\ status[t] = "work" /\ ~Blocked(t) /\ step[t] \in known
          /\ \/ /\ StepStatus[step[t]] # "work" \/ HasLive(t)
                /\ scan' = NextRow
             \/ /\ StepStatus[step[t]] = "work" /\ ~HasLive(t)
                /\ scan' = [scan EXCEPT !.pc = "create", !.step = step[t]]
    /\ UNCHANGED <<taskVars, metaVars, up, stopped, known, poolVars, rec,
                   rtVars, req, crashes, faults, reloads>>

(* sessions.create returns: the session is live, its runtime is registered *)
(* and queued.                                                             *)
DispatchCreate(s) ==
    LET t == scan.task IN
    /\ scan.pc = "create"
    /\ meta[s] = "none"
    /\ meta'  = [meta EXCEPT ![s] = "queued"]
    /\ owner' = [owner EXCEPT ![s] = t]
    /\ at'    = [at EXCEPT ![s] = scan.step]
    /\ claim' = [claim EXCEPT ![s] = visits[t]]
    /\ run'   = [run EXCEPT ![s] = "queued"]
    /\ wf'    = [wf EXCEPT ![s] = known]
    /\ queue' = Append(queue, s)
    /\ scan'  = NextRow
    /\ UNCHANGED <<taskVars, up, stopped, known, active, rec, transit, abort,
                   fin, outcome, target, req, crashes, faults, reloads>>

(* park of a task whose workflow or step is gone. *)
DispatchParkView ==
    /\ scan.pc = "parkView"
    /\ scan' = [scan EXCEPT !.pc = "parkWrite", !.step = step[scan.task]]
    /\ UNCHANGED <<taskVars, metaVars, up, stopped, known, poolVars, rec,
                   rtVars, req, crashes, faults, reloads>>

DispatchPark ==
    /\ scan.pc = "parkWrite"
    /\ ParkTask(scan.task, scan.step)
    /\ scan' = NextRow
    /\ UNCHANGED <<metaVars, up, stopped, known, poolVars, rec, rtVars, req,
                   crashes, faults, reloads>>

(* sessions.create, the position write of park or the comment after it     *)
(* throws: the scan is over, and the projects after this one, and pump,    *)
(* are skipped.                                                            *)
DispatchFails ==
    /\ scan.pc \in {"create", "parkWrite"}
    /\ Fault
    /\ \/ UNCHANGED taskVars
       \/ scan.pc = "parkWrite" /\ ParkTask(scan.task, scan.step)
    /\ scan' = [IdleScan EXCEPT !.again = scan.again]
    /\ UNCHANGED <<metaVars, up, stopped, known, poolVars, rec, rtVars, req,
                   crashes, reloads>>

(* The end of scanAll and of a turn of drainScans. *)
ScanEnd ==
    /\ scan.pc = "rows"
    /\ scan.todo = {} \/ stopped
    /\ scan' = IF scan.again /\ ~stopped THEN [IdleScan EXCEPT !.pc = "list"]
               ELSE [IdleScan EXCEPT !.again = scan.again]
    /\ Pump(active, run)
    /\ UNCHANGED <<taskVars, metaVars, up, stopped, known, rec, wf, transit,
                   abort, fin, outcome, target, req, crashes, faults, reloads>>

-----------------------------------------------------------------------------
(* The session runtime. *)

(* Mutant: the finaliser seals the session and leaves the task in work. *)
SettleUnparked(s, how) ==
    /\ fin' = [fin EXCEPT ![s] = "seal"]
    /\ outcome' = [outcome EXCEPT ![s] = how]

(* settleOnce by a finaliser: the task is parked, then the meta is sealed. *)
SettlePark(s, how) ==
    /\ fin' = [fin EXCEPT ![s] = "view"]
    /\ outcome' = [outcome EXCEPT ![s] = how]

AfterClaim(s) == IF Settled(s) THEN "back" ELSE "on"

(* run: the conditional queued -> running write and the code up to onRun.  *)
RunClaim(s) ==
    /\ run[s] = "claim"
    /\ \/ /\ meta[s] = "queued"
          /\ meta' = [meta EXCEPT ![s] = "running"]
          /\ run' = [run EXCEPT ![s] = AfterClaim(s)]
          /\ UNCHANGED <<fin, outcome, faults>>
       \/ /\ meta[s] # "queued"
          /\ run' = [run EXCEPT ![s] = "back"]
          /\ UNCHANGED <<meta, fin, outcome, faults>>
       \/ /\ Fault
          /\ IF Settled(s)
             THEN /\ run' = [run EXCEPT ![s] = "back"]
                  /\ UNCHANGED <<fin, outcome>>
             ELSE /\ run' = [run EXCEPT ![s] = "await"]
                  /\ SettlePark(s, "failed")
          /\ UNCHANGED meta
    /\ UNCHANGED <<taskVars, owner, at, claim, up, stopped, known, poolVars,
                   scan, rec, wf, transit, abort, target, req, crashes,
                   reloads>>

(* ctx.transit up to the await of onTransit; an unknown target throws.     *)
TransitCall(s, to) ==
    /\ run[s] = "on" /\ ~Settled(s) /\ transit[s] = NoStep
    /\ to \in Targets \cap (wf[s] \cup EndStatus)
    /\ MayEnter(owner[s], to)
    /\ transit' = [transit EXCEPT ![s] = to]
    /\ UNCHANGED <<taskVars, metaVars, up, stopped, known, poolVars, scan, rec,
                   run, wf, abort, fin, outcome, target, req, crashes, faults,
                   reloads>>

(* onTransit approved, and the session has not ended in the meantime.      *)
TransitSettle(s) ==
    /\ transit[s] # NoStep /\ ~Settled(s)
    /\ transit' = [transit EXCEPT ![s] = NoStep]
    /\ fin' = [fin EXCEPT ![s] = "commit"]
    /\ outcome' = [outcome EXCEPT ![s] = "done"]
    /\ target' = [target EXCEPT ![s] = transit[s]]
    /\ UNCHANGED <<taskVars, metaVars, up, stopped, known, poolVars, scan, rec,
                   run, wf, abort, req, crashes, faults, reloads>>

(* onTransit threw, or the session ended while it ran: transit throws.     *)
TransitReject(s) ==
    /\ transit[s] # NoStep
    /\ transit' = [transit EXCEPT ![s] = NoStep]
    /\ UNCHANGED <<taskVars, metaVars, up, stopped, known, poolVars, scan, rec,
                   run, wf, abort, fin, outcome, target, req, crashes, faults,
                   reloads>>

(* onRun returned or threw: onRunSettled, up to its finaliser's first await *)
OnRunReturns(s) ==
    /\ run[s] = "on"
    /\ IF Settled(s)
       THEN run' = [run EXCEPT ![s] = "back"] /\ UNCHANGED <<fin, outcome>>
       ELSE /\ run' = [run EXCEPT ![s] = "await"]
            /\ SettlePark(s, IF abort[s] = "no" THEN "failed" ELSE "aborted")
    /\ UNCHANGED <<taskVars, metaVars, up, stopped, known, poolVars, scan, rec,
                   wf, transit, abort, target, req, crashes, faults, reloads>>

(* The finally of runJob. *)
RunOut(s) ==
    /\ run[s] = "back" \/ (run[s] = "await" /\ fin[s] \in {"sealed", "lost"})
    /\ Pump(active - 1, [run EXCEPT ![s] = "out"])
    /\ wf' = [wf EXCEPT ![s] = {}]
    /\ Kick
    /\ UNCHANGED <<taskVars, metaVars, up, stopped, known, rec, transit, abort,
                   fin, outcome, target, req, crashes, faults, reloads>>

(* abort of a registered runtime: onAbort runs only if the run had started *)
(* and the agent declares it.                                              *)
AbortCall(s) ==
    /\ "abort" \in Requests
    /\ Registered(s) /\ ~Settled(s) /\ abort[s] = "no"
    /\ \/ /\ run[s] = "on"
          /\ abort' = [abort EXCEPT ![s] = "hook"]
          /\ UNCHANGED <<fin, outcome>>
       \/ /\ abort' = [abort EXCEPT ![s] = "yes"]
          /\ SettlePark(s, "aborted")
    /\ UNCHANGED <<taskVars, metaVars, up, stopped, known, poolVars, scan, rec,
                   run, wf, transit, target, req, crashes, faults, reloads>>

(* Mutant: the finaliser does not ask settleOnce. *)
AbortHookSettlesAgain(s) ==
    /\ abort[s] = "hook"
    /\ abort' = [abort EXCEPT ![s] = "yes"]
    /\ SettlePark(s, "aborted")
    /\ UNCHANGED <<taskVars, metaVars, up, stopped, known, poolVars, scan, rec,
                   run, wf, transit, target, req, crashes, faults, reloads>>

AbortHookReturns(s) ==
    /\ abort[s] = "hook"
    /\ abort' = [abort EXCEPT ![s] = "yes"]
    /\ IF Settled(s) THEN UNCHANGED <<fin, outcome>>
                     ELSE SettlePark(s, "aborted")
    /\ UNCHANGED <<taskVars, metaVars, up, stopped, known, poolVars, scan, rec,
                   run, wf, transit, target, req, crashes, faults, reloads>>

-----------------------------------------------------------------------------
(* The settler's writes. *)

(* commitTransit: the position is written while the session is still live. *)
FinCommit(s) ==
    /\ fin[s] = "commit"
    /\ \/ /\ SetPosition(owner[s], PositionFor(at[s], target[s]),
                         target[s] \in Step)
          /\ fin' = [fin EXCEPT ![s] = "seal"]
          /\ UNCHANGED faults
       \/ /\ Fault
          /\ fin' = [fin EXCEPT ![s] = "lost"]
          /\ UNCHANGED taskVars
    /\ target' = [target EXCEPT ![s] = NoStep]
    /\ UNCHANGED <<metaVars, up, stopped, known, poolVars, scan, rec, run, wf,
                   transit, abort, outcome, req, crashes, reloads>>

(* park reads the view; a missing task is not an error. *)
FinView(s) ==
    /\ fin[s] = "view"
    /\ \/ /\ fin' = [fin EXCEPT ![s] = "park"]
          /\ target' = [target EXCEPT ![s] = step[owner[s]]]
          /\ UNCHANGED faults
       \/ /\ Fault
          /\ fin' = [fin EXCEPT ![s] = "seal"]
          /\ UNCHANGED target
    /\ UNCHANGED <<taskVars, metaVars, up, stopped, known, poolVars, scan, rec,
                   run, wf, transit, abort, outcome, req, crashes, reloads>>

(* A finaliser goes on to the seal when its park throws. *)
FinPark(s) ==
    /\ fin[s] = "park"
    /\ fin' = [fin EXCEPT ![s] = "seal"]
    /\ \/ /\ ParkTask(owner[s], target[s])
          /\ UNCHANGED faults
       \/ Fault /\ UNCHANGED taskVars
    /\ target' = [target EXCEPT ![s] = NoStep]
    /\ UNCHANGED <<metaVars, up, stopped, known, poolVars, scan, rec, run, wf,
                   transit, abort, outcome, req, crashes, reloads>>

(* Mutant: the seal is conditional on the meta being running. *)
SealIfRunning(s) ==
    meta' = [meta EXCEPT ![s] = IF @ = "running" THEN outcome[s] ELSE @]

Seal(s) == meta' = [meta EXCEPT ![s] = outcome[s]]

FinSeal(s) ==
    /\ fin[s] = "seal"
    /\ \/ /\ Seal(s)
          /\ fin' = [fin EXCEPT ![s] = "sealed"]
          /\ outcome' = [outcome EXCEPT ![s] = "none"]
          /\ Kick
          /\ UNCHANGED faults
       \/ /\ Fault
          /\ fin' = [fin EXCEPT ![s] = "lost"]
          /\ UNCHANGED <<meta, outcome, scan>>
    /\ UNCHANGED <<taskVars, owner, at, claim, up, stopped, known, poolVars,
                   rec, run, wf, transit, abort, target, req, crashes,
                   reloads>>

-----------------------------------------------------------------------------
(* The client requests that move a task. *)

Serving == rec.pc # "no"

Request(c, pc, t, to) ==
    req' = [req EXCEPT ![c] = [pc |-> pc, task |-> t, status |-> status[t],
                               step |-> step[t], to |-> to]]

reqFrame == <<metaVars, up, stopped, known, poolVars, rec, rtVars, crashes,
              faults, reloads>>

(* engine.enroll up to the await of onTransit or setPosition. *)
Enroll(c, t, to) ==
    /\ Serving /\ "enroll" \in Requests /\ req[c].pc = "idle"
    /\ status[t] \in {"new", "cancel", "human"}
    /\ to \in Targets \cap known /\ MayEnter(t, to)
    /\ Request(c, "move", t, to)
    /\ UNCHANGED <<taskVars, scan, reqFrame>>

Resumable(t) == status[t] \in {"human", "cancel"}

(* engine.resume, likewise. *)
Resume(c, t, to) ==
    /\ Serving /\ "resume" \in Requests /\ req[c].pc = "idle"
    /\ Resumable(t)
    /\ step[t] # NoStep /\ known # {}
    /\ to \in Targets \cap (known \cup EndStatus) /\ MayEnter(t, to)
    /\ Request(c, "move", t, to)
    /\ UNCHANGED <<taskVars, scan, reqFrame>>

(* onTransit approved and setPosition wrote. *)
Move(c) ==
    LET r == req[c] IN
    /\ r.pc = "move"
    /\ SetPosition(r.task, PositionFor(r.step, r.to), r.to \in Step)
    /\ Kick
    /\ req' = [req EXCEPT ![c] = NoRequest]
    /\ UNCHANGED reqFrame

(* onTransit threw: the request is rejected. *)
MoveRejected(c) ==
    /\ req[c].pc = "move"
    /\ req' = [req EXCEPT ![c] = NoRequest]
    /\ UNCHANGED <<taskVars, scan, reqFrame>>

(* task.done and task.cancel: taskTerminal reads the view, ... *)
Close(c, t, to) ==
    /\ Serving /\ to \in Requests \cap {"done", "cancel"}
    /\ req[c].pc = "idle"
    /\ status[t] # to
    /\ Request(c, "check", t, to)
    /\ UNCHANGED <<taskVars, scan, reqFrame>>

(* ... refuses while a session is live, ... *)
CloseCheck(c) ==
    /\ req[c].pc = "check"
    /\ req' = [req EXCEPT ![c] = IF HasLive(req[c].task) THEN NoRequest
                                 ELSE [@ EXCEPT !.pc = "write"]]
    /\ UNCHANGED <<taskVars, scan, reqFrame>>

(* ... writes, ... *)
CloseWrite(c) ==
    LET r == req[c] IN
    /\ r.pc = "write"
    /\ SetPosition(r.task, [status |-> r.to, step |-> r.step], FALSE)
    /\ req' = [req EXCEPT ![c].pc = "recheck"]
    /\ UNCHANGED <<scan, reqFrame>>

(* ... looks again, ... *)
CloseRecheck(c) ==
    /\ req[c].pc = "recheck"
    /\ req' = [req EXCEPT ![c] = IF HasLive(req[c].task)
                                 THEN [@ EXCEPT !.pc = "rollback"]
                                 ELSE NoRequest]
    /\ UNCHANGED <<taskVars, scan, reqFrame>>

(* ... and rolls back to the view it read first. *)
CloseRollback(c) ==
    LET r == req[c] IN
    /\ r.pc = "rollback"
    /\ SetPosition(r.task, [status |-> r.status, step |-> r.step], FALSE)
    /\ req' = [req EXCEPT ![c] = NoRequest]
    /\ UNCHANGED <<scan, reqFrame>>

(* task.reopen reads the view, ... *)
Reopen(c, t) ==
    /\ Serving /\ "reopen" \in Requests /\ req[c].pc = "idle"
    /\ status[t] \in {"done", "cancel"}
    /\ Request(c, "reopen", t, NoStep)
    /\ UNCHANGED <<taskVars, scan, reqFrame>>

(* ... then parks an enrolled task, or puts it back in the backlog. *)
ReopenWrite(c) ==
    LET r == req[c] IN
    /\ r.pc = "reopen"
    /\ SetPosition(r.task, [status |-> IF r.step = NoStep THEN "new" ELSE "human",
                            step |-> r.step], FALSE)
    /\ req' = [req EXCEPT ![c] = NoRequest]
    /\ UNCHANGED <<scan, reqFrame>>

-----------------------------------------------------------------------------
(* Start, recovery, registry swap, stop and crash of the process. *)

recFrame == <<up, stopped, known, poolVars, rtVars, req, crashes, reloads>>

(* Mutant: recovery overlooks the queued metas. *)
RunningOrphans == {s \in Session : meta[s] = "running"}

Orphans == {s \in Session : Live(s)}

(* addProject: the project is registered, then recoverProject takes its    *)
(* snapshot of the metas.                                                  *)
AddProject ==
    /\ ~up
    /\ up' = TRUE
    /\ rec' = [NoRecovery EXCEPT !.pc = "next", !.todo = Orphans]
    /\ UNCHANGED <<taskVars, metaVars, stopped, known, poolVars, scan, rtVars,
                   req, crashes, faults, reloads>>

(* The interrupted session is sealed before its task is looked at. A write *)
(* that throws ends the recovery, and the project stays registered.        *)
RecoverSeal(s) ==
    /\ rec.pc = "next" /\ s \in rec.todo
    /\ \/ /\ meta' = [meta EXCEPT ![s] = "failed"]
          /\ rec' = [rec EXCEPT !.pc = "check", !.todo = @ \ {s},
                                !.task = owner[s]]
          /\ UNCHANGED faults
       \/ /\ Fault
          /\ rec' = [NoRecovery EXCEPT !.pc = "done"]
          /\ UNCHANGED meta
    /\ UNCHANGED <<taskVars, owner, at, claim, scan, recFrame>>

RecoverCheck ==
    /\ rec.pc = "check"
    /\ rec' = [rec EXCEPT !.pc = IF status[rec.task] = "work" THEN "parkView"
                                 ELSE "next"]
    /\ UNCHANGED <<taskVars, metaVars, scan, faults, recFrame>>

RecoverParkView ==
    /\ rec.pc = "parkView"
    /\ rec' = [rec EXCEPT !.pc = "parkWrite", !.step = step[rec.task]]
    /\ UNCHANGED <<taskVars, metaVars, scan, faults, recFrame>>

RecoverPark ==
    /\ rec.pc = "parkWrite"
    /\ \/ /\ ParkTask(rec.task, rec.step)
          /\ rec' = [rec EXCEPT !.pc = "next", !.task = NoTask, !.step = NoStep]
          /\ UNCHANGED faults
       \/ /\ Fault
          /\ rec' = [NoRecovery EXCEPT !.pc = "done"]
          /\ ParkTask(rec.task, rec.step) \/ UNCHANGED taskVars
    /\ UNCHANGED <<metaVars, scan, recFrame>>

RecoverEnd ==
    /\ rec.pc = "next" /\ rec.todo = {}
    /\ rec' = [NoRecovery EXCEPT !.pc = "done"]
    /\ Kick
    /\ UNCHANGED <<taskVars, metaVars, faults, recFrame>>

(* setProjectRegistry. *)
SetProjectRegistry(steps) ==
    /\ Serving /\ reloads < MaxReload
    /\ reloads' = reloads + 1
    /\ known' = steps
    /\ Kick
    /\ UNCHANGED <<taskVars, metaVars, up, stopped, poolVars, rec, rtVars, req,
                   crashes, faults>>

(* stop: the queue is dropped and every unsettled runtime detached. *)
Stop ==
    /\ up /\ ~stopped /\ crashes < MaxCrash
    /\ stopped' = TRUE
    /\ queue' = <<>>
    /\ fin' = [s \in Session |-> IF Registered(s) /\ ~Settled(s)
                                 THEN "detached" ELSE fin[s]]
    /\ UNCHANGED <<taskVars, metaVars, up, known, active, scan, rec, run, wf,
                   transit, abort, outcome, target, req, crashes, faults,
                   reloads>>

(* The process ends, orderly or not: only the files remain. *)
Crash ==
    /\ up /\ crashes < MaxCrash
    /\ crashes' = crashes + 1
    /\ up' = FALSE /\ stopped' = FALSE
    /\ known' = Step
    /\ queue' = <<>> /\ active' = 0
    /\ scan' = IdleScan /\ rec' = NoRecovery
    /\ run' = [s \in Session |-> "none"]
    /\ wf' = [s \in Session |-> {}]
    /\ transit' = [s \in Session |-> NoStep]
    /\ abort' = [s \in Session |-> "no"]
    /\ fin' = [s \in Session |-> "no"]
    /\ outcome' = [s \in Session |-> "none"]
    /\ target' = [s \in Session |-> NoStep]
    /\ req' = [c \in Client |-> NoRequest]
    /\ UNCHANGED <<taskVars, metaVars, faults, reloads>>

-----------------------------------------------------------------------------
Init ==
    /\ status \in [Task -> {"new", "work"}]
    /\ \E first \in Step :
           /\ StepStatus[first] = "work"
           /\ step = [t \in Task |-> IF status[t] = "work" THEN first ELSE NoStep]
    /\ visits = [t \in Task |-> IF status[t] = "work" THEN 1 ELSE 0]
    /\ meta = [s \in Session |-> "none"]
    /\ owner = [s \in Session |-> NoTask]
    /\ at = [s \in Session |-> NoStep]
    /\ claim = [s \in Session |-> 0]
    /\ up = FALSE /\ stopped = FALSE /\ known = Step
    /\ queue = <<>> /\ active = 0
    /\ scan = IdleScan /\ rec = NoRecovery
    /\ run = [s \in Session |-> "none"]
    /\ wf = [s \in Session |-> {}]
    /\ transit = [s \in Session |-> NoStep]
    /\ abort = [s \in Session |-> "no"]
    /\ fin = [s \in Session |-> "no"]
    /\ outcome = [s \in Session |-> "none"]
    /\ target = [s \in Session |-> NoStep]
    /\ req = [c \in Client |-> NoRequest]
    /\ crashes = 0 /\ faults = 0 /\ reloads = 0

Scanner ==
    \/ ScanList \/ DispatchRow \/ DispatchFails \/ DispatchParkView
    \/ DispatchPark \/ ScanEnd
    \/ \E t \in Task : ScanRow(t)
    \/ \E s \in Session : DispatchCreate(s)

Settler(s) == FinCommit(s) \/ FinView(s) \/ FinPark(s) \/ FinSeal(s)

Agent(s) ==
    \/ \E to \in Targets : TransitCall(s, to)
    \/ TransitSettle(s) \/ TransitReject(s) \/ OnRunReturns(s)

Runtime(s) ==
    \/ RunClaim(s) \/ RunOut(s) \/ AbortCall(s) \/ AbortHookReturns(s)

Clients ==
    \E c \in Client :
        \/ \E t \in Task, to \in Targets : Enroll(c, t, to)
        \/ \E t \in Task, to \in Targets : Resume(c, t, to)
        \/ \E t \in Task, to \in {"done", "cancel"} : Close(c, t, to)
        \/ \E t \in Task : Reopen(c, t)
        \/ Move(c) \/ MoveRejected(c) \/ CloseCheck(c) \/ CloseWrite(c)
        \/ CloseRecheck(c) \/ CloseRollback(c) \/ ReopenWrite(c)

Recovery ==
    \/ AddProject \/ RecoverCheck \/ RecoverParkView \/ RecoverPark \/ RecoverEnd
    \/ \E s \in Session : RecoverSeal(s)

Next ==
    \/ Scanner
    \/ Rescan
    \/ \E s \in Session : Settler(s) \/ Agent(s) \/ Runtime(s)
    \/ Clients
    \/ Recovery
    \/ \E steps \in SUBSET Step : SetProjectRegistry(steps)
    \/ Stop
    \/ Crash

Spec == Init /\ [][Next]_vars

(* The event loop runs every pending completion, a stopped daemon exits    *)
(* and is started again, and the hooks of an agent and of the workflow     *)
(* return. Neither the rescan timer nor onRun is assumed here: the loop is *)
(* event-driven, and an agent may work for ever.                           *)
Fairness ==
    /\ WF_vars(Scanner)
    /\ WF_vars(Recovery)
    /\ WF_vars(stopped /\ Crash)
    /\ \A s \in Session :
           /\ WF_vars(Settler(s))
           /\ WF_vars(RunClaim(s))
           /\ WF_vars(RunOut(s))
           /\ WF_vars(AbortHookReturns(s))
           /\ WF_vars(TransitSettle(s) \/ TransitReject(s))

FairSpec == Spec /\ Fairness

-----------------------------------------------------------------------------
RunPc == {"none", "queued", "claim", "on", "await", "back", "out"}
ScanPc == {"idle", "list", "rows", "fresh", "create", "parkView", "parkWrite"}
RecoveryPc == {"no", "next", "check", "parkView", "parkWrite", "done"}
RequestPc == {"idle", "move", "check", "write", "recheck", "rollback", "reopen"}
Settling == {"commit", "view", "park", "seal"}
Target == Step \cup EndStatus \cup {NoStep}
StepOrNone == Step \cup {NoStep}
TaskOrNone == Task \cup {NoTask}

TasksOK ==
    /\ status \in [Task -> TaskStatus]
    /\ step \in [Task -> StepOrNone]
    /\ visits \in [Task -> Nat]

SessionsOK ==
    /\ meta \in [Session -> {"none"} \cup LiveStatus \cup Terminal]
    /\ owner \in [Session -> TaskOrNone]
    /\ \A s \in Session : meta[s] # "none" => owner[s] \in Task
    /\ at \in [Session -> StepOrNone]
    /\ claim \in [Session -> Nat]

ProcessOK ==
    /\ up \in BOOLEAN /\ stopped \in BOOLEAN
    /\ known \in SUBSET Step
    /\ crashes \in Nat /\ faults \in Nat /\ reloads \in Nat

PoolOK == queue \in Seq(Session) /\ active \in Int

ScanOK ==
    /\ scan \in [pc : ScanPc, todo : SUBSET Task, task : TaskOrNone,
                 step : StepOrNone, again : BOOLEAN]
    /\ scan.pc \in {"fresh", "create", "parkView", "parkWrite"} => scan.task \in Task

RecoveryOK ==
    /\ rec \in [pc : RecoveryPc, todo : SUBSET Session, task : TaskOrNone,
                step : StepOrNone]
    /\ rec.pc \in {"check", "parkView", "parkWrite"} => rec.task \in Task

RuntimesOK ==
    /\ run \in [Session -> RunPc]
    /\ wf \in [Session -> SUBSET Step]
    /\ transit \in [Session -> Target]
    /\ abort \in [Session -> {"no", "hook", "yes"}]
    /\ fin \in [Session -> {"no", "sealed", "lost", "detached"} \cup Settling]
    /\ outcome \in [Session -> {"none"} \cup Terminal]
    /\ target \in [Session -> Target]
    /\ \A s \in Session :
           /\ fin[s] = "commit" => target[s] \in Step \cup EndStatus
           /\ fin[s] = "park" => target[s] \in StepOrNone
           /\ fin[s] \in Settling => outcome[s] \in Terminal

RequestsOK ==
    /\ req \in [Client -> [pc : RequestPc, task : TaskOrNone, status : TaskStatus,
                           step : StepOrNone, to : Target]]
    /\ \A c \in Client :
           /\ req[c].pc = "move" => req[c].to \in Step \cup EndStatus
           /\ req[c].pc \in {"check", "write", "recheck", "rollback"} =>
                  req[c].to \in {"done", "cancel"}

(* Every variable holds a value of its type, and what a settler or a       *)
(* request carries is what its next write needs.                           *)
TypeOK ==
    /\ TasksOK /\ SessionsOK /\ ProcessOK /\ PoolOK
    /\ ScanOK /\ RecoveryOK /\ RuntimesOK /\ RequestsOK

(* A task has at most one live session, whatever the clients, the workers, *)
(* crashes and failing writes do: scans never overlap and the session file *)
(* is the claim (engine.ts, the module comment).                           *)
OneLiveSession ==
    \A s1, s2 \in Session :
        Live(s1) /\ Live(s2) /\ owner[s1] = owner[s2] => s1 = s2

(* The scanner parks a task whose workflow or step is gone without looking *)
(* for a live session again: the comment in dispatch says none can exist.  *)
ScannerParksNoLiveTask ==
    scan.pc \in {"parkView", "parkWrite"} => ~HasLive(scan.task)

(* Two sessions never run the same entry of a task into a step: a closing  *)
(* session stays live until the new position is written, so the position   *)
(* it claimed is never dispatched a second time.                           *)
NoDoubleDispatch ==
    \A s1, s2 \in Session :
        /\ meta[s1] # "none" /\ meta[s2] # "none" /\ s1 # s2
        /\ owner[s1] = owner[s2]
        => claim[s1] # claim[s2]

(* Until it settles, the session that holds a task finds the task where it *)
(* claimed it: in work, at the step it runs, at the entry it was claimed.  *)
SessionOnItsStep ==
    \A s \in Session :
        Registered(s) /\ ~Settled(s) =>
            /\ status[owner[s]] = "work"
            /\ step[owner[s]] = at[s]
            /\ visits[owner[s]] = claim[s]

(* The slots taken are the workers inside runJob, and the pool is never    *)
(* over its size: no finally is missed and no dropped runtime is counted.  *)
PoolAccounting ==
    /\ active = Cardinality({s \in Session : InJob(s)})
    /\ active <= Workers

(* A sealed session stays as it was sealed: no late write of run, of a     *)
(* second finaliser or of recovery changes a terminal meta.                *)
SealedStays ==
    [][\A s \in Session : meta[s] \in Terminal => meta'[s] = meta[s]]_vars

(* What the sessions look like to everything but the engine. *)
Claims == INSTANCE SessionClaims WITH
              Task <- Task, Session <- Session, NoTask <- NoTask,
              meta <- meta, owner <- owner

(* The engine implements the session life cycle: see SessionClaims.        *)
ImplementsSessionClaims == Claims!Spec

-----------------------------------------------------------------------------
(* Liveness. *)

Schedulable(t) ==
    status[t] = "work" /\ step[t] \in known /\ StepStatus[step[t]] = "work"
    /\ ~Blocked(t)

(* A schedulable task gets a session, or stops being schedulable: no       *)
(* wake-up is lost between a kick and the scan that is under way.          *)
EverySchedulableTaskIsClaimed ==
    \A t \in Task : Schedulable(t) ~>
        (HasLive(t) \/ ~Schedulable(t) \/ \A s \in Session : meta[s] # "none")

(* A settled session reaches its terminal meta.                            *)
SettledIsSealed ==
    \A s \in Session : fin[s] \in {"commit", "view", "park", "seal"} ~>
                           (meta[s] \in Terminal)

(* Every session a dead process left live is sealed after the restart.     *)
OrphansAreReaped ==
    \A s \in Session : (Live(s) /\ run[s] = "none") ~> ~Live(s)

(* With agents that return, a queued session does not wait forever.        *)
QueuedSessionIsServed ==
    (\A s \in Session : WF_vars(OnRunReturns(s))) =>
        \A s \in Session : run[s] = "queued" ~> run[s] # "queued"
=============================================================================
