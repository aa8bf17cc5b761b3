------------------------------ MODULE Sandbox ------------------------------
(***************************************************************************)
(* @autosk/sandbox under the shipped workflows: the sessions of one task,  *)
(* each an onRun of a pi or claude agent or of the cleanup step, and what  *)
(* they share by a name derived from the task: the git worktree, its       *)
(* branch, and the container of `docker run --rm --name`.                  *)
(*                                                                         *)
(* The engine runs one unsealed session of a task at a time, but a session *)
(* is sealed by its transit, or by its abort, before its onRun has wound   *)
(* its harness down: the tail of one session overlaps the next.            *)
(*                                                                         *)
(* git, docker and the harness are external: each git or docker command is *)
(* one step, as the process that runs it is awaited.                       *)
(***************************************************************************)
EXTENDS Integers, Sequences

CONSTANTS
    MaxSessions,     \* bound: sessions of the task
    MaxFaults        \* bound: aborts, daemon crashes, docker outages and
                     \* deletions by the operator together

ASSUME SandboxAssumption == MaxSessions \in Nat \ {0} /\ MaxFaults \in Nat

VARIABLES
    setup,    \* workflow, sandbox kind, agent, and cleanup's force: never change
    token,    \* gh-review's ro-token.json: "absent", "bad" or "good"
    task,     \* where the task is: "new", "review" (any agent step), "human",
              \* "cleanup" or "done"
    ses,      \* the sessions, oldest first
    box,      \* the session whose container has the task's name, 0 if none
    tree,     \* the worktree: dir, registered, dirty
    faults,   \* faults so far
    cut,      \* history: a run was aborted while it prepared its workspace
    missed    \* history: the sessions whose stop or reap failed

vars == <<setup, token, task, ses, box, tree, faults, cut, missed>>

Session == DOMAIN ses
Docker == setup.kind = "docker"
Goto(s, pc) == ses' = [ses EXCEPT ![s].pc = pc]
At(s, pc) == s \in Session /\ ses[s].pc = pc
Fault == faults < MaxFaults /\ faults' = faults + 1
InWorkspace == {"workspace", "verify", "prune", "add", "spawn"}
(* The end of onRun: a session that is not sealed by then fails, and its   *)
(* task is parked.                                                         *)
Over(s) ==
    /\ ses' = [ses EXCEPT ![s].pc = "over", ![s].sealed = TRUE]
    /\ task' = IF ses[s].sealed THEN task ELSE "human"
----------------------------------------------------------------------------
(* git and the file system.                                                *)
NoTree == [dir |-> "none", registered |-> FALSE, dirty |-> FALSE]
Exists == tree.dir # "none"
Healthy == tree.dir = "checkout"
Pruned == [tree EXCEPT !.registered = @ /\ Exists]
Registered(t) == t.registered
Removed == NoTree
(* git status fails on a directory that is no checkout: not dirty.         *)
Dirty == Healthy /\ tree.dirty

(* docker. A client that fails to reach the docker daemon changes nothing, *)
(* and whoever runs it does not look: stop and rm ignore the exit code, and *)
(* the callers of stop what it throws. missed notes the stops that failed. *)
Removes == box' = 0 /\ UNCHANGED faults
Fails == Fault /\ UNCHANGED box
RemoveContainer == Removes \/ Fails
StopContainer(s) ==
    \/ Removes /\ UNCHANGED missed
    \/ Fails /\ missed' = missed \cup {s}
----------------------------------------------------------------------------
(* The graph: agent steps, accept (human), cleanup, done. An agent may     *)
(* send the task to any of its steps.                                      *)
AgentStep == "review"
StepTarget == {AgentStep, "human", "cleanup"}

(* checkGhToken, and the enroll guard of gh-review.                        *)
ReadGhToken == IF token = "bad" THEN "throws" ELSE token
CheckGhToken == ReadGhToken = "good"
Guard(url) == setup.workflow = "gh-review" => CheckGhToken /\ url

Enroll ==
    /\ task = "new"
    /\ \E url \in BOOLEAN : Guard(url)
    /\ task' = AgentStep
    /\ UNCHANGED <<setup, token, ses, box, tree, faults, cut, missed>>

(* The human resumes a parked task into a step.                            *)
Resume ==
    /\ task = "human"
    /\ task' \in {AgentStep, "cleanup"}
    /\ UNCHANGED <<setup, token, ses, box, tree, faults, cut, missed>>

Dispatch ==
    /\ task \in {AgentStep, "cleanup"}
    /\ Len(ses) < MaxSessions
    /\ \A s \in Session : ses[s].sealed
    /\ ses' = Append(ses, [step |-> task, pc |-> IF task = "cleanup" THEN "check" ELSE "workspace",
                           sealed |-> FALSE, aborted |-> FALSE, removed |-> FALSE])
    /\ UNCHANGED <<setup, token, task, box, tree, faults, cut, missed>>
----------------------------------------------------------------------------
(* onRun: workspace(), wrap(), spawn.                                      *)

Workspace(s) ==
    /\ At(s, "workspace")
    /\ Goto(s, "verify")
    /\ IF Docker THEN RemoveContainer ELSE UNCHANGED <<box, faults>>
    /\ UNCHANGED <<setup, token, task, tree, cut, missed>>

(* Mutant: the worktree is allocated afresh for every step.                *)
VerifyNever(s) ==
    /\ At(s, "verify")
    /\ tree' = [Removed EXCEPT !.registered = tree.registered]
    /\ Goto(s, "prune")
    /\ UNCHANGED <<setup, token, task, box, faults, cut, missed>>
(* A directory that is there is used if it is a checkout of this           *)
(* repository; a stranded one is refused.                                  *)
Verify(s) ==
    /\ At(s, "verify")
    /\ CASE Exists /\ Healthy  -> Goto(s, "spawn") /\ UNCHANGED task
         [] Exists /\ ~Healthy -> Over(s)
         [] OTHER              -> Goto(s, "prune") /\ UNCHANGED task
    /\ UNCHANGED <<setup, token, box, tree, faults, cut, missed>>

(* A registration whose directory is gone is pruned; one that is left is   *)
(* removed by force.                                                       *)
Prune(s) ==
    /\ At(s, "prune")
    /\ tree' = IF Registered(Pruned) THEN Removed ELSE Pruned
    /\ Goto(s, "add")
    /\ UNCHANGED <<setup, token, task, box, faults, cut, missed>>

(* worktree add, on the branch if it exists, else on a new one. git refuses *)
(* a directory that is there.                                              *)
Add(s) ==
    /\ At(s, "add")
    /\ IF Exists
       THEN Over(s) /\ UNCHANGED tree
       ELSE /\ tree' = [dir |-> "checkout", registered |-> TRUE, dirty |-> FALSE]
            /\ Goto(s, "spawn")
            /\ UNCHANGED task
    /\ UNCHANGED <<setup, token, box, faults, cut, missed>>

(* docker run: a taken name is an error; a missing source of the bind      *)
(* mount is created, empty. A client killed as it is spawned reaches no    *)
(* daemon.                                                                 *)
DockerRun(s) ==
    \/ (ses[s].aborted \/ box # 0) /\ UNCHANGED <<box, tree, faults>>
    \/ /\ ~ses[s].aborted /\ box = 0
       /\ box' = s /\ UNCHANGED faults
       /\ tree' = IF Exists THEN tree ELSE [tree EXCEPT !.dir = "stranded"]
    \/ Fails /\ UNCHANGED tree
(* ghReviewSandbox.wrap reads the token for each run.                      *)
Wraps == setup.workflow = "gh-review" => ReadGhToken # "throws"
Spawn(s) ==
    /\ At(s, "spawn")
    /\ CASE ~Wraps -> Over(s) /\ UNCHANGED <<box, tree, faults>>
         [] Wraps /\ Docker -> DockerRun(s) /\ Goto(s, "turns") /\ UNCHANGED task
         [] Wraps /\ ~Docker /\ Exists ->     \* wrap is the identity
                Goto(s, "turns") /\ UNCHANGED <<task, box, tree, faults>>
         [] Wraps /\ ~Docker /\ ~Exists -> Over(s) /\ UNCHANGED <<box, tree, faults>>
    /\ UNCHANGED <<setup, token, cut, missed>>
----------------------------------------------------------------------------
(* The harness: it edits and commits in its worktree, asks for a transit,  *)
(* or exits. In a container it goes on after its client is killed. The     *)
(* operator may edit as well.                                              *)
Harness(s) == IF Docker THEN box = s ELSE ses[s].pc \in {"turns", "finally"}

Edits ==
    /\ Healthy /\ ~tree.dirty
    /\ tree' = [tree EXCEPT !.dirty = TRUE]
    /\ UNCHANGED <<setup, token, task, ses, box, faults, cut, missed>>
HarnessCommits(s) ==
    /\ s \in Session /\ Harness(s) /\ Healthy /\ tree.dirty
    /\ tree' = [tree EXCEPT !.dirty = FALSE]
    /\ UNCHANGED <<setup, token, task, ses, box, faults, cut, missed>>
(* claude exits when its stdin is closed; pi in rpc mode stays.            *)
HarnessExits(s) ==
    /\ s \in Session /\ box = s
    /\ \/ At(s, "turns")
       \/ setup.agent = "claude" /\ ses[s].pc \in {"over", "dead"}
    /\ box' = 0
    /\ UNCHANGED <<setup, token, task, ses, tree, faults, cut, missed>>

(* ctx.transit: the session is sealed and the task moves on. Or runTurns   *)
(* gives up: on a harness that is gone, or that never asks for one.        *)
Gone(s) == ses[s].aborted \/ ~Harness(s)
Transit(s) ==
    /\ At(s, "turns") /\ ~ses[s].sealed /\ ~Gone(s)
    /\ ses' = [ses EXCEPT ![s].pc = "finally", ![s].sealed = TRUE]
    /\ task' \in StepTarget
    /\ UNCHANGED <<setup, token, box, tree, faults, cut, missed>>
GiveUp(s) ==
    /\ At(s, "turns")
    /\ Goto(s, "finally")
    /\ UNCHANGED <<setup, token, task, box, tree, faults, cut, missed>>

(* Mutant: claude's finally: no stop. *)
FinallyLingering(s) ==
    /\ At(s, "finally")
    /\ Over(s)
    /\ UNCHANGED <<setup, token, box, tree, faults, cut, missed>>
(* finally: driver.shutdown kills the client; pi's then stops the sandbox. *)
Finally(s) ==
    /\ At(s, "finally")
    /\ IF Docker /\ setup.agent = "pi" THEN Goto(s, "stop") /\ UNCHANGED task ELSE Over(s)
    /\ UNCHANGED <<setup, token, box, tree, faults, cut, missed>>
Stop(s) ==
    /\ At(s, "stop")
    /\ StopContainer(s)
    /\ Over(s)
    /\ UNCHANGED <<setup, token, tree, cut>>

(* session.abort: the signal kills the child, onAbort stops the sandbox,   *)
(* and the session is sealed with the task parked. The cleanup step has no *)
(* onAbort and does not look at the signal: it goes on.                    *)
Abort(s) ==
    /\ s \in Session /\ ~ses[s].sealed /\ ~ses[s].aborted
    /\ Fault
    /\ ses' = [ses EXCEPT ![s].aborted = TRUE]
    /\ cut' = (cut \/ ses[s].pc \in InWorkspace)
    /\ UNCHANGED <<setup, token, task, box, tree, missed>>
OnAbort(s) ==
    /\ s \in Session /\ ses[s].aborted /\ ~ses[s].sealed
    /\ IF Docker /\ ses[s].step = AgentStep
       THEN StopContainer(s) ELSE UNCHANGED <<box, faults, missed>>
    /\ ses' = [ses EXCEPT ![s].sealed = TRUE]
    /\ task' = "human"
    /\ UNCHANGED <<setup, token, tree, cut>>
----------------------------------------------------------------------------
(* sandboxCleanupStep.                                                     *)
Check(s) ==
    /\ At(s, "check")
    /\ IF Exists
       THEN /\ Goto(s, IF Dirty /\ ~setup.force THEN "report" ELSE "remove")
            /\ UNCHANGED tree
       ELSE /\ tree' = Pruned
            /\ Goto(s, IF Docker THEN "reap" ELSE "report")
    /\ UNCHANGED <<setup, token, task, box, faults, cut, missed>>
(* The branch is preserved. A directory git does not know is deleted.      *)
Remove(s) ==
    /\ At(s, "remove")
    /\ tree' = Removed
    /\ ses' = [ses EXCEPT ![s].removed = TRUE, ![s].pc = IF Docker THEN "reap" ELSE "report"]
    /\ UNCHANGED <<setup, token, task, box, faults, cut, missed>>
(* Mutant: cleanup counts on --rm. *)
ReapNever(s) ==
    /\ At(s, "reap")
    /\ Goto(s, "report")
    /\ UNCHANGED <<setup, token, task, box, tree, faults, cut, missed>>
(* An unreachable docker fails the session when the daemon has not reached *)
(* it before, for this task or another; after that nobody notices.         *)
Reap(s) ==
    /\ At(s, "reap")
    /\ \/ /\ ses' = [ses EXCEPT ![s].removed = @ \/ box # 0, ![s].pc = "report"]
          /\ Removes
          /\ UNCHANGED <<task, missed>>
       \/ /\ Fails /\ missed' = missed \cup {s}
          /\ Over(s) \/ (Goto(s, "report") /\ UNCHANGED task)
    /\ UNCHANGED <<setup, token, tree, cut>>
(* The comment and the transit, which an aborted session is refused.       *)
Report(s) ==
    /\ At(s, "report")
    /\ \/ (ses[s].sealed \/ ses[s].aborted) /\ Over(s)
       \/ /\ ~ses[s].sealed /\ ~ses[s].aborted
          /\ ses' = [ses EXCEPT ![s].sealed = TRUE, ![s].pc = "over"]
          /\ task' = "done"
    /\ UNCHANGED <<setup, token, box, tree, faults, cut, missed>>
----------------------------------------------------------------------------
(* The daemon dies and comes back: its sessions are sealed as failed and   *)
(* their task is parked; a container survives its client.                  *)
Crash ==
    /\ Fault
    /\ \E s \in Session : ses[s].pc \notin {"over", "dead"}
    /\ ses' = [s \in Session |-> [ses[s] EXCEPT !.pc = "dead", !.sealed = TRUE]]
    /\ task' = IF \E s \in Session : ~ses[s].sealed THEN "human" ELSE task
    /\ UNCHANGED <<setup, token, box, tree, cut, missed>>

(* The operator deletes the directory behind git's back, or rewrites the   *)
(* token.                                                                  *)
OperatorDeletes ==
    /\ Exists /\ Fault
    /\ tree' = [tree EXCEPT !.dir = "none", !.dirty = FALSE]
    /\ UNCHANGED <<setup, token, task, ses, box, cut, missed>>
OperatorRotates ==
    /\ setup.workflow = "gh-review" /\ Fault
    /\ token' \in {"absent", "bad", "good"} \ {token}
    /\ UNCHANGED <<setup, task, ses, box, tree, cut, missed>>
----------------------------------------------------------------------------
Init ==
    /\ setup \in [workflow : {"feature-dev", "gh-review"}, kind : {"docker", "worktree"},
                  agent : {"pi", "claude"}, force : BOOLEAN]
    /\ setup.workflow = "gh-review" => setup.kind = "docker" /\ setup.agent = "pi" /\ setup.force
    /\ token \in IF setup.workflow = "gh-review" THEN {"absent", "good"} ELSE {"absent"}
    /\ task = "new" /\ ses = <<>> /\ box = 0
    /\ tree = NoTree
    /\ faults = 0 /\ cut = FALSE /\ missed = {}

Run(s) == Workspace(s) \/ Verify(s) \/ Prune(s) \/ Add(s) \/ Spawn(s)
          \/ Finally(s) \/ Stop(s)
Cleanup(s) == Check(s) \/ Remove(s) \/ Reap(s) \/ Report(s)

Next ==
    \/ Enroll \/ Resume \/ Dispatch \/ Edits \/ Crash \/ OperatorDeletes \/ OperatorRotates
    \/ \E s \in 1..MaxSessions :
          \/ Run(s) \/ Cleanup(s) \/ Transit(s) \/ GiveUp(s)
          \/ HarnessCommits(s) \/ HarnessExits(s)
          \/ Abort(s) \/ OnAbort(s)

Spec == Init /\ [][Next]_vars
(* git, docker and the promises of a run go on; a claude whose stdin is    *)
(* closed exits; nothing makes an agent transit or a human resume.         *)
FairSpec ==
    /\ Spec
    /\ \A s \in 1..MaxSessions :
          /\ WF_vars(Run(s)) /\ WF_vars(OnAbort(s)) /\ WF_vars(GiveUp(s) /\ Gone(s))
          /\ WF_vars(HarnessExits(s) /\ ses[s].pc # "turns")
----------------------------------------------------------------------------
(* A task done by its cleanup step leaves no worktree and no registration, *)
(* unless its changes were left on purpose, whatever was aborted, retried  *)
(* or deleted behind git's back; and no container, unless the docker       *)
(* command of the cleanup failed.                                          *)
DoneIsClean ==
    task = "done" /\ ~cut /\ (setup.force \/ ses[Len(ses)].removed) =>
        ~Exists /\ ~tree.registered /\ (box = 0 \/ Len(ses) \in missed)

(* Uncommitted work passes from step to step: it is gone only when someone *)
(* commits it, deletes the directory, or the cleanup step removes it.      *)
WorkIsHandedOver ==
    [][tree.dirty /\ ~tree'.dirty =>
          \/ cut
          \/ \E s \in Session : HarnessCommits(s) \/ Remove(s)
          \/ OperatorDeletes]_vars

(* A container whose session is over is taken down, by its agent's finally *)
(* or abort or by the harness; only a crash of the daemon, or a docker stop *)
(* that failed, leaves it.                                                 *)
ContainerEnds ==
    \A s \in 1..MaxSessions :
        (box = s /\ ses[s].sealed) ~> (box # s \/ At(s, "dead") \/ s \in missed)
============================================================================
