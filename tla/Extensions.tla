------------------------------ MODULE Extensions ------------------------------
(***************************************************************************)
(* Extensions of the daemon: settings.json and the npm packages behind it  *)
(* (first-run bootstrap, reconcile, ext add, remove, update), the registry *)
(* a project loads from them, its hot reload, and what both do to a task   *)
(* whose code goes away.                                                   *)
(*                                                                         *)
(* One scope (the global one), one project and one task at a step of the   *)
(* workflow of Job. An extension is its npm name or its local path, and    *)
(* registers one workflow; StepUntil is the last version of it that still  *)
(* has the step of the task. npm, the registry and the user are external.  *)
(***************************************************************************)
EXTENDS Integers, Sequences

CONSTANTS
    Name, Local,   \* extensions; those that are local paths
    Job,           \* the one that registers the task's workflow
    Default,       \* the one the bootstrap installs
    StepUntil,     \* last version of Job with the task's step
    Call,          \* RPC calls of the extension methods
    MaxVersion,    \* bound: versions published
    MaxRestarts,   \* bound: restarts of the daemon
    FirstRun       \* whether settings.json may be absent to begin with

ASSUME ExtensionAssumption ==
    /\ Local \subseteq Name /\ Job \in Name /\ Default \in Name \ Local
    /\ {StepUntil, MaxVersion, MaxRestarts} \subseteq Nat /\ MaxVersion > 0
    /\ FirstRun \in BOOLEAN
    /\ "open" \notin Call

VARIABLES
    settings,   \* settings.json: whether it exists, and the spec listed for each name
    pkg,        \* version present for each name, 0 for none
    latest,     \* newest version published
    boot,       \* ensureBootstrap: where it is, and what it is installing
    installs,   \* calls in the installLocks queue, the head holds the lock
    call,       \* the RPC calls
    cache,      \* version of each module this process has imported, 0 for none
    opens,      \* callers in the openLocks queue, the head holds the lock
    body,       \* what the head is doing
    handle,     \* the registry of the project's handle, if it is open
    engine,     \* the registry of the engine's project, if it is registered
    task,       \* its status, and its session: "no", "live", "sealing"
    disp,       \* the dispatch of the task: "no", "row", "park", "create"
    failed,     \* a store write of the hazard guard has failed
    restarts

diskVars == <<settings, pkg, latest>>
openVars == <<cache, opens, body, handle>>
taskVars == <<task, disp>>
vars == <<diskVars, boot, installs, call, openVars, engine, taskVars, failed, restarts>>

NotListed == -1
Floating == 0
Listed(n) == settings.spec[n] # NotListed
Closed == [n \in {} |-> 0]          \* no registry: the project is not open
Version(n, spec) == IF spec = Floating THEN latest ELSE spec
-----------------------------------------------------------------------------
(* The registry: every listed extension that resolves, each imported once  *)
(* in the life of the process.                                             *)
Kind(n) == IF n \in Local THEN "local" ELSE "npm"
DeclaresExtension(n) == pkg[n] > 0
ResolvePackageEntries(n) == Kind(n) = "npm" /\ DeclaresExtension(n)
ResolveLocalPath(n) == Kind(n) = "local" /\ DeclaresExtension(n)
Resolves(n) == ResolvePackageEntries(n) \/ ResolveLocalPath(n)
ResolveEntries == {n \in Name : Listed(n) /\ Resolves(n)}
ListExtensionEntries == [n \in {x \in Name : Listed(x)} |-> Resolves(n)]
Imported(names) == [n \in Name |-> IF n \in names /\ cache[n] = 0 THEN pkg[n] ELSE cache[n]]
Registry(names, modules) == [n \in Name |-> IF n \in names THEN modules[n] ELSE 0]
ValidPosition(registry) == registry[Job] \in 1..StepUntil
-----------------------------------------------------------------------------
(* npm install brings every package it is given, at the version asked for; *)
(* one that fails leaves what was there.                                   *)
Install(specs) ==
    pkg' = [n \in Name |-> IF specs[n] = NotListed THEN pkg[n] ELSE Version(n, specs[n])]
Publish ==
    /\ latest < MaxVersion /\ latest' = latest + 1
    /\ UNCHANGED <<settings, pkg, boot, installs, call, openVars, engine, taskVars, failed,
                   restarts>>

(* ensureGlobalBootstrap, then ensureExtensionsInstalled.                  *)
BootOnly == UNCHANGED <<latest, installs, call, openVars, engine, taskVars, failed, restarts>>
None == [n \in Name |-> NotListed]
DefaultPackages == [None EXCEPT ![Default] = Floating]
GlobalBootstrap ==
    /\ boot.pc = "start"
    /\ boot' = IF settings.exists THEN [boot EXCEPT !.pc = "reconcile"]
               ELSE [pc |-> "npm", want |-> DefaultPackages]
    /\ BootOnly /\ UNCHANGED <<settings, pkg>>
Bootstrapped ==
    /\ boot.pc = "npm"
    /\ boot' = [pc |-> "reconcile", want |-> None]
    /\ \/ /\ Install(boot.want)
          /\ settings' = [exists |-> TRUE, spec |-> boot.want]
       \/ UNCHANGED <<settings, pkg>>
    /\ BootOnly
Missing == [n \in Name |-> IF Kind(n) = "local" \/ pkg[n] > 0 THEN NotListed ELSE settings.spec[n]]
ReconcileStarts ==
    /\ boot.pc = "reconcile"
    /\ boot' = IF Missing = None THEN [boot EXCEPT !.pc = "done"]
               ELSE [pc |-> "install", want |-> Missing]
    /\ BootOnly /\ UNCHANGED <<settings, pkg>>
Reconciled ==
    /\ boot.pc = "install"
    /\ boot' = [pc |-> "done", want |-> None]
    /\ Install(boot.want) \/ UNCHANGED pkg
    /\ BootOnly /\ UNCHANGED settings
Bootstrap == GlobalBootstrap \/ Bootstrapped \/ ReconcileStarts \/ Reconciled
-----------------------------------------------------------------------------
(* The RPC calls. A call of ext add, remove or update waits for the        *)
(* install lock; an add or a remove goes on to reload.                     *)
Upsert(n, spec) == [exists |-> TRUE, spec |-> [settings.spec EXCEPT ![n] = spec]]
RemoveEntry(n) == IF Listed(n) THEN Upsert(n, NotListed) ELSE settings
Answered(pc, applied) == [pc |-> pc, op |-> "none", name |-> Job, spec |-> Floating,
                          want |-> None, applied |-> applied]
CallOnly == UNCHANGED <<latest, boot, engine, taskVars, failed, restarts>>
Enqueue(c) == installs' = Append(installs, c)

(* An update lists its candidates, with the version each has, before it    *)
(* has the lock. The newest version is looked up; a package whose lookup   *)
(* fails is updated.                                                       *)
InstalledVersion(n) == pkg[n]
Candidates == [n \in Name |-> IF Kind(n) = "local" \/ settings.spec[n] # Floating THEN NotListed
                              ELSE InstalledVersion(n)]
Stale(checked, viewFailed) ==
    [n \in Name |-> IF checked[n] # NotListed /\ (viewFailed \/ checked[n] # latest)
                    THEN Floating ELSE NotListed]
Called(c, op, n, spec, want, pc) ==
    call' = [call EXCEPT ![c] = [op |-> op, name |-> n, spec |-> spec, applied |-> FALSE,
                                 want |-> want, pc |-> pc]]
InstallExtension(c, n, spec) ==
    /\ Kind(n) = "local" => spec = Floating
    /\ Called(c, "add", n, spec, [None EXCEPT ![n] = spec], "lock")
    /\ Enqueue(c)
RemoveExtension(c, n) ==
    /\ Called(c, "remove", n, Floating, None, "lock")
    /\ Enqueue(c)
UpdateExtensions(c) ==
    /\ Called(c, "update", Job, Floating, Candidates, "view")
    /\ UNCHANGED installs
Request(c) ==
    /\ call[c].pc = "idle"
    /\ \/ \E n \in Name, spec \in {Floating, StepUntil} : InstallExtension(c, n, spec)
       \/ \E n \in Name : RemoveExtension(c, n)
       \/ UpdateExtensions(c)
    /\ CallOnly /\ UNCHANGED <<settings, pkg, openVars>>

ViewVersion(c) ==
    /\ call[c].pc = "view"
    /\ \E viewFailed \in BOOLEAN :
       LET stale == Stale(call[c].want, viewFailed)
       IN  /\ call' = [call EXCEPT ![c] = IF stale = None THEN Answered("done", FALSE)
                                          ELSE [@ EXCEPT !.want = stale, !.pc = "lock"]]
           /\ IF stale = None THEN UNCHANGED installs ELSE Enqueue(c)
    /\ CallOnly /\ UNCHANGED <<settings, pkg, openVars>>

Leave(c, pc) ==
    /\ installs' = Tail(installs)
    /\ call' = [call EXCEPT ![c] = Answered(pc, FALSE)]
Holds(c) == installs # <<>> /\ Head(installs) = c

RemoveFromSettings(c) ==
    /\ call[c].op = "remove"
    /\ settings' = RemoveEntry(call[c].name)
    /\ Leave(c, "reload")
RunExclusive(c) ==
    /\ Holds(c) /\ call[c].pc = "lock"
    /\ \/ /\ call[c].op # "remove" /\ Kind(call[c].name) = "npm"
          /\ call' = [call EXCEPT ![c].pc = "npm"]
          /\ UNCHANGED <<settings, installs>>
       \/ RemoveFromSettings(c)
       \/ /\ call[c].op = "add" /\ Kind(call[c].name) = "local"
          /\ IF Resolves(call[c].name)
             THEN settings' = Upsert(call[c].name, call[c].spec) /\ Leave(c, "reload")
             ELSE Leave(c, "failed") /\ UNCHANGED settings
    /\ CallOnly /\ UNCHANGED <<pkg, openVars>>

NpmDone(c) ==
    /\ Holds(c) /\ call[c].pc = "npm"
    /\ \/ /\ Install(call[c].want)
          /\ IF call[c].op = "add"
             THEN settings' = Upsert(call[c].name, call[c].spec) /\ Leave(c, "reload")
             ELSE Leave(c, "done") /\ UNCHANGED settings
       \/ Leave(c, "failed") /\ UNCHANGED <<settings, pkg>>
    /\ CallOnly /\ UNCHANGED openVars
-----------------------------------------------------------------------------
(* Opening the project, and rebuilding the registry of an open one.        *)
IsOpen == handle # Closed
OpenOnly == UNCHANGED <<diskVars, boot, installs, restarts>>

(* Mutant: a rebuild that finds another one under way joins it.            *)
RebuildJoins(c) ==
    /\ call[c].pc = "reload"
    /\ IF IsOpen /\ opens = <<>>
       THEN opens' = Append(opens, c) /\ call' = [call EXCEPT ![c].pc = "rebuild"]
       ELSE UNCHANGED opens /\ call' = [call EXCEPT ![c].pc = "done", ![c].applied = IsOpen]
    /\ OpenOnly /\ UNCHANGED <<cache, body, handle, engine, taskVars, failed>>
RebuildRegistry(c) ==
    /\ call[c].pc = "reload"
    /\ IF IsOpen THEN opens' = Append(opens, c) /\ call' = [call EXCEPT ![c].pc = "rebuild"]
                 ELSE UNCHANGED opens /\ call' = [call EXCEPT ![c].pc = "done"]
    /\ OpenOnly /\ UNCHANGED <<cache, body, handle, engine, taskVars, failed>>
Open ==
    /\ boot.pc = "done" /\ ~IsOpen /\ \A i \in DOMAIN opens : opens[i] # "open"
    /\ opens' = Append(opens, "open")
    /\ OpenOnly /\ UNCHANGED <<call, cache, body, handle, engine, taskVars, failed>>

Idle == [pc |-> "none", names |-> {}, next |-> Closed, sees |-> FALSE]
Opens == Head(opens) = "open"
BodyAt(pc) == opens # <<>> /\ body.pc = pc

Resolve ==
    /\ BodyAt("none")
    /\ body' = [Idle EXCEPT !.pc = "import", !.names = ResolveEntries]
    /\ OpenOnly /\ UNCHANGED <<call, cache, opens, handle, engine, taskVars, failed>>
LoadProjectRegistry ==
    /\ BodyAt("import")
    /\ cache' = Imported(body.names)
    /\ body' = [body EXCEPT !.pc = "list", !.names = {}, !.next = Registry(body.names, cache')]
    /\ handle' = IF Opens THEN handle ELSE body'.next
    /\ OpenOnly /\ UNCHANGED <<call, opens, engine, taskVars, failed>>

(* The hazard guard: it lists the tasks, then takes them one after the     *)
(* other; a reload passes over the live ones.                              *)
ListInFlight ==
    /\ BodyAt("list")
    /\ body' = [body EXCEPT !.pc = "check",
                            !.sees = task.status = "work" /\ ~ValidPosition(body.next)]
    /\ OpenOnly /\ UNCHANGED <<call, cache, opens, handle, engine, taskVars, failed>>
CheckLive ==
    /\ BodyAt("check")
    /\ body' = [body EXCEPT !.sees = FALSE,
                            !.pc = IF body.sees /\ (Opens \/ task.session = "no") THEN "park"
                                   ELSE "end"]
    /\ OpenOnly /\ UNCHANGED <<call, cache, opens, handle, engine, taskVars, failed>>
GuardParks ==
    /\ BodyAt("park")
    /\ task' = [task EXCEPT !.status = "human"]
    /\ body' = [body EXCEPT !.pc = "end"]
    /\ OpenOnly /\ UNCHANGED <<call, cache, opens, handle, engine, disp, failed>>
(* The store throws: the body leaves its lock and the caller is told.      *)
GuardFails ==
    /\ BodyAt("park")
    /\ body' = Idle /\ opens' = Tail(opens) /\ failed' = TRUE
    /\ call' = IF Opens THEN call ELSE [call EXCEPT ![Head(opens)].pc = "done"]
    /\ OpenOnly /\ UNCHANGED <<cache, handle, engine, taskVars>>

(* The lock is released. A reload swaps the engine's registry right after  *)
(* and before the next holder has got past its first read of the disk.     *)
BodyEnds ==
    /\ BodyAt("end")
    /\ body' = Idle /\ opens' = Tail(opens)
    /\ handle' = IF Opens THEN body.next ELSE handle
    /\ engine' = IF Opens \/ engine = Closed THEN engine ELSE body.next
    /\ call' = IF Opens THEN call
               ELSE [call EXCEPT ![Head(opens)].pc = "done",
                                 ![Head(opens)].applied = engine # Closed]
    /\ OpenOnly /\ UNCHANGED <<cache, taskVars, failed>>

(* resolveHandle registers the handle with the engine, which reaps the     *)
(* session the process before has left.                                    *)
AddProject ==
    /\ IsOpen /\ engine = Closed
    /\ engine' = handle
    /\ task' = IF task.session = "no" THEN task
               ELSE [status |-> IF task.status = "work" THEN "human" ELSE task.status,
                     session |-> "no"]
    /\ OpenOnly /\ UNCHANGED <<call, openVars, disp, failed>>
-----------------------------------------------------------------------------
(* The engine and the user on the task.                                    *)
TaskOnly == UNCHANGED <<diskVars, boot, installs, call, openVars, engine, failed, restarts>>
Running == engine # Closed

ScanProject ==
    /\ Running /\ disp = "no" /\ task.status = "work" /\ task.session = "no"
    /\ disp' = "row" /\ TaskOnly /\ UNCHANGED task
(* Mutant: a task without code is passed over.                             *)
DispatchSkips ==
    /\ disp = "row"
    /\ disp' = IF ValidPosition(engine) /\ task.session = "no" THEN "create" ELSE "no"
    /\ TaskOnly /\ UNCHANGED task
Dispatch ==
    /\ disp = "row"
    /\ disp' = IF ~ValidPosition(engine) THEN "park"
               ELSE IF task.session = "no" THEN "create" ELSE "no"
    /\ TaskOnly /\ UNCHANGED task
DispatchParks ==
    /\ disp = "park" /\ disp' = "no"
    /\ task' = [task EXCEPT !.status = "human"]
    /\ TaskOnly
DispatchCreates ==
    /\ disp = "create" /\ disp' = "no"
    /\ task' = [task EXCEPT !.session = "live"]
    /\ TaskOnly

(* A transit writes the position, then seals; the code it runs is the one  *)
(* it was started with.                                                    *)
CommitTransit ==
    /\ Running /\ task.session = "live"
    /\ \E s \in {"work", "done"} : task' = [status |-> s, session |-> "sealing"]
    /\ TaskOnly /\ UNCHANGED disp
Seal ==
    /\ Running /\ task.session = "sealing"
    /\ task' = [task EXCEPT !.session = "no"]
    /\ TaskOnly /\ UNCHANGED disp
Resume ==
    /\ Running /\ task.status = "human" /\ task.session = "no" /\ ValidPosition(engine)
    /\ task' = [task EXCEPT !.status = "work"]
    /\ TaskOnly /\ UNCHANGED disp
TaskTerminal ==
    /\ Running /\ task.status # "done" /\ task.session = "no"
    /\ task' = [task EXCEPT !.status = "done"]
    /\ TaskOnly /\ UNCHANGED disp

Restart ==
    /\ restarts < MaxRestarts /\ restarts' = restarts + 1
    /\ boot' = [pc |-> "start", want |-> None]
    /\ installs' = <<>> /\ opens' = <<>> /\ body' = Idle
    /\ handle' = Closed /\ engine' = Closed /\ disp' = "no"
    /\ cache' = [n \in Name |-> 0] /\ failed' = FALSE
    /\ call' = [c \in Call |-> IF call[c].pc = "idle" THEN call[c] ELSE Answered("done", TRUE)]
    /\ UNCHANGED <<diskVars, task>>
-----------------------------------------------------------------------------
Init ==
    /\ \/ /\ settings = [exists |-> TRUE, spec |-> [n \in Name |-> Floating]]
          /\ pkg \in {[n \in Name |-> 1], [n \in Name |-> IF n \in Local THEN 1 ELSE 0]}
       \/ /\ FirstRun /\ settings = [exists |-> FALSE, spec |-> None]
          /\ pkg = [n \in Name |-> 0]
    /\ latest = 1 /\ boot = [pc |-> "start", want |-> None]
    /\ installs = <<>> /\ opens = <<>> /\ body = Idle
    /\ call = [c \in Call |-> Answered("idle", FALSE)]
    /\ cache = [n \in Name |-> 0] /\ handle = Closed /\ engine = Closed
    /\ task = [status |-> "work", session |-> "no"] /\ disp = "no"
    /\ failed = FALSE /\ restarts = 0

Serve(c) == ViewVersion(c) \/ RunExclusive(c) \/ NpmDone(c) \/ RebuildRegistry(c)
Body == Resolve \/ LoadProjectRegistry \/ ListInFlight \/ CheckLive \/ GuardParks \/ BodyEnds
Schedule == ScanProject \/ Dispatch \/ DispatchParks \/ DispatchCreates
Next ==
    \/ Bootstrap \/ Publish \/ Open \/ Body \/ GuardFails \/ AddProject \/ Schedule
    \/ CommitTransit \/ Seal \/ Resume \/ TaskTerminal \/ Restart
    \/ \E c \in Call : Request(c) \/ Serve(c)

(* npm and the registry answer, the queues move on, the scanner runs on    *)
(* every rescan, an agent finishes, a project in use is opened.            *)
Fairness ==
    /\ WF_vars(Bootstrap \/ Open \/ AddProject) /\ WF_vars(Body)
    /\ WF_vars(Schedule) /\ WF_vars(CommitTransit \/ Seal)
    /\ \A c \in Call : WF_vars(Serve(c))
Spec == Init /\ [][Next]_vars
FairSpec == Spec /\ Fairness
-----------------------------------------------------------------------------
(* When every change so far was reported as applied, the engine has what   *)
(* ext list shows as resolved and nothing else, however the calls          *)
(* overlapped.                                                             *)
AppliedIsLive ==
    /\ opens = <<>> /\ ~failed
    /\ \A c \in Call : call[c].pc \in {"idle", "failed"} \/ (call[c].pc = "done" /\ call[c].applied)
    => \A n \in Name : Running => (engine[n] > 0 <=>
           n \in DOMAIN ListExtensionEntries /\ ListExtensionEntries[n])

(* A task whose code is gone does not stay in work: the guard or, for one  *)
(* that was live, the scanner parks it.                                    *)
OrphanIsParked ==
    task.status = "work" /\ Running /\ ~ValidPosition(engine) ~>
        task.status # "work" \/ ~Running \/ ValidPosition(engine)
=============================================================================
