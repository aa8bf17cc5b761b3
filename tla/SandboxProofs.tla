--------------------------- MODULE SandboxProofs ---------------------------
(* Proofs about Sandbox: what a task that is done leaves behind, and whose   *)
(* hands uncommitted work may be lost in.                                    *)
EXTENDS Sandbox, SequenceTheorems, TLAPS

CleanupPc == {"check", "remove", "reap", "report"}
Pc == InWorkspace \cup CleanupPc \cup {"turns", "finally", "stop", "over", "dead"}
SesType ==
    [step : {AgentStep, "cleanup"}, pc : Pc, sealed : BOOLEAN, aborted : BOOLEAN,
     removed : BOOLEAN]
TreeType == [dir : {"none", "checkout", "stranded"}, registered : BOOLEAN, dirty : BOOLEAN]

TypeInv ==
    /\ setup \in [workflow : {"feature-dev", "gh-review"}, kind : {"docker", "worktree"},
                  agent : {"pi", "claude"}, force : BOOLEAN]
    /\ token \in {"absent", "bad", "good"}
    /\ task \in {"new", "human", "done", AgentStep, "cleanup"}
    /\ ses \in Seq(SesType) /\ box \in Nat /\ tree \in TreeType
    /\ faults \in Nat /\ cut \in BOOLEAN /\ missed \in SUBSET Nat

(* The session that is not sealed is the last one. The tail of an earlier    *)
(* one is past its workspace, unless it was aborted there.                   *)
OneAtWork ==
    /\ \A s \in Session : ~ses[s].sealed => s = Len(ses)
    /\ ~cut => \A s \in Session : ses[s].pc \in InWorkspace => ~ses[s].sealed /\ ~ses[s].aborted
    /\ task = "done" => /\ Len(ses) > 0 /\ \A s \in Session : ses[s].sealed
                        /\ ses[Len(ses)].pc \notin CleanupPc

(* There is uncommitted work in a checkout only, and no checkout where one   *)
(* is about to be made.                                                      *)
TreeInv ==
    /\ ~Healthy => ~tree.dirty
    /\ ~Docker => box = 0
    /\ ~cut => \A s \in Session : ses[s].pc \in {"prune", "add"} => ~Healthy

(* What the cleanup step has done when it comes to its next step, if nobody  *)
(* has aborted it.                                                           *)
Swept == ~Exists /\ ~tree.registered
CleanInv ==
    ~cut => /\ \A s \in Session : ses[s].pc \in {"check", "remove"} => ~ses[s].removed
            /\ \A s \in Session : ~ses[s].sealed /\ ses[s].pc = "reap" => Swept
            /\ \A s \in Session :
                  /\ ~ses[s].sealed /\ ses[s].pc = "report"
                  /\ setup.force \/ ses[s].removed
                  => Swept /\ (box = 0 \/ s \in missed)
            /\ task = "done" /\ (setup.force \/ ses[Len(ses)].removed) =>
                  Swept /\ (box = 0 \/ Len(ses) \in missed)

Inv == TypeInv /\ OneAtWork /\ TreeInv /\ CleanInv

-----------------------------------------------------------------------------
(* One session moves on, the others stay where they are.                     *)
Becomes(s, r) ==
    /\ s \in Session /\ r \in SesType /\ ses' \in Seq(SesType) /\ Len(ses') = Len(ses)
    /\ Session' = Session /\ ses'[s] = r /\ r.step = ses[s].step
    /\ \A t \in Session : t # s => ses'[t] = ses[t]

(* A session that is replaced by another record of its step.                 *)
LEMMA OneMoves ==
    ASSUME TypeInv, NEW s \in Session, NEW r \in SesType, r.step = ses[s].step,
           ses' = [ses EXCEPT ![s] = r]
    PROVE  Becomes(s, r)
<1>1. ses \in Seq(SesType) /\ Session = 1..Len(ses) /\ Len(ses) \in Nat
  BY LenProperties DEF TypeInv, Session
<1>2. ses' \in Seq(SesType) /\ Len(ses') = Len(ses)
  BY <1>1, ExceptSeq
<1> QED
  BY <1>1, <1>2, LenProperties DEF Becomes, Session

(* A session that goes to another point of its onRun.                        *)
LEMMA GoesOn ==
    ASSUME TypeInv, NEW s, NEW pc \in Pc, s \in Session, Goto(s, pc)
    PROVE  \E r : /\ Becomes(s, r) /\ r.pc = pc /\ r.sealed = ses[s].sealed
                  /\ r.aborted = ses[s].aborted /\ r.removed = ses[s].removed
<1> DEFINE r == [ses[s] EXCEPT !.pc = pc]
<1>1. ses[s] \in SesType
  BY DEF TypeInv, Session
<1>2. /\ r \in SesType /\ r.pc = pc /\ r.sealed = ses[s].sealed /\ r.step = ses[s].step
      /\ r.aborted = ses[s].aborted /\ r.removed = ses[s].removed
  BY <1>1 DEF SesType
<1>3. ses' = [ses EXCEPT ![s] = r]
  BY DEF Goto
<1> HIDE DEF r
<1> QED
  BY <1>2, <1>3, OneMoves

(* A session whose onRun is over.                                            *)
LEMMA Ends ==
    ASSUME TypeInv, NEW s, s \in Session, Over(s)
    PROVE  /\ \E r : /\ Becomes(s, r) /\ r.pc = "over" /\ r.sealed
                     /\ r.aborted = ses[s].aborted /\ r.removed = ses[s].removed
           /\ task' = IF ses[s].sealed THEN task ELSE "human"
<1> DEFINE r == [ses[s] EXCEPT !.pc = "over", !.sealed = TRUE]
<1>1. ses[s] \in SesType
  BY DEF TypeInv, Session
<1>2. /\ r \in SesType /\ r.pc = "over" /\ r.sealed = TRUE /\ r.step = ses[s].step
      /\ r.aborted = ses[s].aborted /\ r.removed = ses[s].removed
  BY <1>1 DEF SesType, Pc
<1>3. ses' = [ses EXCEPT ![s] = r]
  BY DEF Over
<1> HIDE DEF r
<1> QED
  BY <1>2, <1>3, OneMoves DEF Over

(* A session passes from one point to the next, or ends there.               *)
Pass(s, from, to) ==
    \E r : /\ Becomes(s, r) /\ ses[s].pc = from /\ r.pc = to /\ r.sealed = ses[s].sealed
           /\ r.aborted = ses[s].aborted /\ r.removed = ses[s].removed
End(s, from) ==
    \E r : /\ Becomes(s, r) /\ ses[s].pc \in from /\ r.pc = "over" /\ r.sealed
           /\ r.aborted = ses[s].aborted /\ r.removed = ses[s].removed
           /\ task' = IF ses[s].sealed THEN task ELSE "human"

(* What the steps of a run and the check of the cleanup do to a session and  *)
(* to its task.                                                              *)
LEMMA RunMoves ==
    ASSUME TypeInv, NEW s
    PROVE  /\ Workspace(s) => Pass(s, "workspace", "verify") /\ UNCHANGED task
           /\ Verify(s) => \/ Pass(s, "verify", "spawn") /\ UNCHANGED task
                           \/ Pass(s, "verify", "prune") /\ UNCHANGED task /\ ~Exists
                           \/ End(s, {"verify"})
           /\ Prune(s) => Pass(s, "prune", "add") /\ UNCHANGED task
           /\ Add(s) => \/ End(s, {"add"}) /\ UNCHANGED tree
                        \/ Pass(s, "add", "spawn") /\ UNCHANGED task
           /\ Spawn(s) => \/ End(s, {"spawn"}) /\ UNCHANGED <<box, tree, faults>>
                          \/ Pass(s, "spawn", "turns") /\ UNCHANGED task
           /\ GiveUp(s) => Pass(s, "turns", "finally") /\ UNCHANGED task
           /\ Finally(s) => \/ Pass(s, "finally", "stop") /\ UNCHANGED task
                            \/ End(s, {"finally"})
           /\ Stop(s) => End(s, {"stop"})
           /\ Check(s) => \E pc \in {"report", "remove", "reap"} :
                             Pass(s, "check", pc) /\ UNCHANGED task
<1>1. \A pc \in {"verify", "spawn", "prune", "add", "turns", "finally", "stop", "report", "remove",
                 "reap"} : pc \in Pc
  BY DEF Pc, InWorkspace, CleanupPc
<1>2. ASSUME NEW pc \in Pc, NEW from, Goto(s, pc), At(s, from) PROVE Pass(s, from, pc)
  BY <1>2, GoesOn DEF Pass, At
<1>3. ASSUME NEW from, Over(s), At(s, from) PROVE End(s, {from})
  BY <1>3, Ends DEF End, At
<1>4. Workspace(s) => Pass(s, "workspace", "verify") /\ UNCHANGED task
  BY <1>1, <1>2 DEF Workspace
<1>5. ASSUME Verify(s)
      PROVE  \/ Pass(s, "verify", "spawn") /\ UNCHANGED task
             \/ Pass(s, "verify", "prune") /\ UNCHANGED task /\ ~Exists
             \/ End(s, {"verify"})
  <2>1. \/ Goto(s, "spawn") /\ UNCHANGED task
        \/ Over(s)
        \/ ~Exists /\ Goto(s, "prune") /\ UNCHANGED task
    BY <1>5 DEF Verify
  <2> QED
    BY <1>1, <1>2, <1>3, <1>5, <2>1 DEF Verify
<1>6. Prune(s) => Pass(s, "prune", "add") /\ UNCHANGED task
  BY <1>1, <1>2 DEF Prune
<1>7. Add(s) => \/ End(s, {"add"}) /\ UNCHANGED tree
                \/ Pass(s, "add", "spawn") /\ UNCHANGED task
  BY <1>1, <1>2, <1>3 DEF Add
<1>8. ASSUME Spawn(s)
      PROVE  \/ End(s, {"spawn"}) /\ UNCHANGED <<box, tree, faults>>
             \/ Pass(s, "spawn", "turns") /\ UNCHANGED task
  <2>1. \/ Over(s) /\ UNCHANGED <<box, tree, faults>>
        \/ Goto(s, "turns") /\ UNCHANGED task
    BY <1>8 DEF Spawn
  <2> QED
    BY <1>1, <1>2, <1>3, <1>8, <2>1 DEF Spawn
<1>9. GiveUp(s) => Pass(s, "turns", "finally") /\ UNCHANGED task
  BY <1>1, <1>2 DEF GiveUp
<1>10. Finally(s) => \/ Pass(s, "finally", "stop") /\ UNCHANGED task
                     \/ End(s, {"finally"})
  BY <1>1, <1>2, <1>3 DEF Finally
<1>11. Stop(s) => End(s, {"stop"})
  BY <1>3 DEF Stop
<1>12. ASSUME Check(s)
       PROVE  \E pc \in {"report", "remove", "reap"} : Pass(s, "check", pc) /\ UNCHANGED task
  <2>1. PICK pc \in {"report", "remove", "reap"} : Goto(s, pc) /\ UNCHANGED task
    BY <1>12 DEF Check
  <2> QED
    BY <1>1, <1>2, <1>12, <2>1 DEF Check
<1> QED
  BY <1>4, <1>5, <1>6, <1>7, <1>8, <1>9, <1>10, <1>11, <1>12

(* A session that is sealed by its transit, its abort or its last report, and *)
(* what the cleanup notes.                                                   *)
LEMMA Seals ==
    ASSUME TypeInv, NEW s
    PROVE  /\ Transit(s) => /\ ~ses[s].sealed /\ ses[s].pc = "turns"
                            /\ \E r : /\ Becomes(s, r) /\ r.pc = "finally" /\ r.sealed
                                      /\ r.aborted = ses[s].aborted /\ r.removed = ses[s].removed
           /\ Abort(s) => /\ ~ses[s].sealed
                          /\ \E r : /\ Becomes(s, r) /\ r.pc = ses[s].pc /\ ~r.sealed
                                    /\ r.aborted /\ r.removed = ses[s].removed
           /\ OnAbort(s) => /\ ses[s].aborted /\ ~ses[s].sealed
                            /\ \E r : /\ Becomes(s, r) /\ r.pc = ses[s].pc /\ r.sealed
                                      /\ r.aborted /\ r.removed = ses[s].removed
           /\ Remove(s) => /\ ses[s].pc = "remove"
                           /\ \E r : /\ Becomes(s, r) /\ r.sealed = ses[s].sealed
                                     /\ r.pc = IF Docker THEN "reap" ELSE "report"
                                     /\ r.aborted = ses[s].aborted /\ r.removed
           /\ Reap(s) => /\ ses[s].pc = "reap"
                         /\ \/ /\ box' = 0 \/ (UNCHANGED box /\ missed' = missed \cup {s})
                               /\ UNCHANGED task
                               /\ \E r : /\ Becomes(s, r) /\ r.sealed = ses[s].sealed
                                         /\ r.pc = "report" /\ r.aborted = ses[s].aborted
                            \/ End(s, {"reap"}) /\ UNCHANGED box
           /\ Report(s) => /\ ses[s].pc = "report"
                           /\ \/ End(s, {"report"})
                              \/ /\ ~ses[s].sealed /\ task' = "done"
                                 /\ \E r : /\ Becomes(s, r) /\ r.sealed /\ r.pc = "over"
                                           /\ r.aborted = ses[s].aborted
                                           /\ r.removed = ses[s].removed
<1>a. s \in Session => ses[s] \in SesType
  BY DEF TypeInv, Session
<1>b. {"finally", "over", "reap", "report", "remove"} \subseteq Pc
  BY DEF Pc, CleanupPc
<1>1. ASSUME Transit(s)
      PROVE  /\ ~ses[s].sealed /\ ses[s].pc = "turns"
             /\ \E r : /\ Becomes(s, r) /\ r.pc = "finally" /\ r.sealed
                       /\ r.aborted = ses[s].aborted /\ r.removed = ses[s].removed
  <2> DEFINE r == [ses[s] EXCEPT !.pc = "finally", !.sealed = TRUE]
  <2>1. s \in Session /\ ses' = [ses EXCEPT ![s] = r]
    BY <1>1 DEF Transit, At
  <2>2. /\ r \in SesType /\ r.pc = "finally" /\ r.sealed = TRUE /\ r.step = ses[s].step
        /\ r.aborted = ses[s].aborted /\ r.removed = ses[s].removed
    BY <1>a, <1>b, <2>1 DEF SesType
  <2> HIDE DEF r
  <2> QED
    BY <1>1, <2>1, <2>2, OneMoves DEF Transit, At
<1>2. ASSUME Abort(s)
      PROVE  /\ ~ses[s].sealed
             /\ \E r : /\ Becomes(s, r) /\ r.pc = ses[s].pc /\ ~r.sealed
                       /\ r.aborted /\ r.removed = ses[s].removed
  <2> DEFINE r == [ses[s] EXCEPT !.aborted = TRUE]
  <2>1. s \in Session /\ ses' = [ses EXCEPT ![s] = r]
    BY <1>2 DEF Abort
  <2>2. /\ r \in SesType /\ r.pc = ses[s].pc /\ r.sealed = ses[s].sealed /\ r.step = ses[s].step
        /\ r.aborted = TRUE /\ r.removed = ses[s].removed
    BY <1>a, <2>1 DEF SesType
  <2> HIDE DEF r
  <2> QED
    BY <1>2, <2>1, <2>2, OneMoves DEF Abort
<1>3. ASSUME OnAbort(s)
      PROVE  /\ ses[s].aborted /\ ~ses[s].sealed
             /\ \E r : /\ Becomes(s, r) /\ r.pc = ses[s].pc /\ r.sealed
                       /\ r.aborted /\ r.removed = ses[s].removed
  <2> DEFINE r == [ses[s] EXCEPT !.sealed = TRUE]
  <2>1. s \in Session /\ ses' = [ses EXCEPT ![s] = r]
    BY <1>3 DEF OnAbort
  <2>2. /\ r \in SesType /\ r.pc = ses[s].pc /\ r.sealed = TRUE /\ r.step = ses[s].step
        /\ r.aborted = ses[s].aborted /\ r.removed = ses[s].removed
    BY <1>a, <2>1 DEF SesType
  <2> HIDE DEF r
  <2> QED
    BY <1>3, <2>1, <2>2, OneMoves DEF OnAbort
<1>4. ASSUME Remove(s)
      PROVE  /\ ses[s].pc = "remove"
             /\ \E r : /\ Becomes(s, r) /\ r.sealed = ses[s].sealed
                       /\ r.pc = IF Docker THEN "reap" ELSE "report"
                       /\ r.aborted = ses[s].aborted /\ r.removed
  <2> DEFINE pc == IF Docker THEN "reap" ELSE "report"
             r == [ses[s] EXCEPT !.removed = TRUE, !.pc = pc]
  <2>1. s \in Session /\ ses' = [ses EXCEPT ![s] = r] /\ pc \in Pc
    BY <1>4, <1>b DEF Remove, At
  <2>2. /\ r \in SesType /\ r.pc = pc /\ r.sealed = ses[s].sealed /\ r.step = ses[s].step
        /\ r.aborted = ses[s].aborted /\ r.removed = TRUE
    BY <1>a, <2>1 DEF SesType
  <2> HIDE DEF r
  <2> QED
    BY <1>4, <2>1, <2>2, OneMoves DEF Remove, At
<1>5. ASSUME Reap(s)
      PROVE  /\ ses[s].pc = "reap"
             /\ \/ /\ box' = 0 \/ (UNCHANGED box /\ missed' = missed \cup {s})
                   /\ UNCHANGED task
                   /\ \E r : /\ Becomes(s, r) /\ r.sealed = ses[s].sealed
                             /\ r.pc = "report" /\ r.aborted = ses[s].aborted
                \/ End(s, {"reap"}) /\ UNCHANGED box
  <2>1. CASE /\ ses' = [ses EXCEPT ![s].removed = @ \/ box # 0, ![s].pc = "report"]
             /\ Removes /\ UNCHANGED task
    <3> DEFINE gone == ses[s].removed \/ box # 0
               r == [ses[s] EXCEPT !.removed = gone, !.pc = "report"]
    <3>1. s \in Session /\ ses' = [ses EXCEPT ![s] = r] /\ gone \in BOOLEAN
      BY <1>5, <1>a, <2>1 DEF Reap, At, SesType
    <3> HIDE DEF gone
    <3>2. /\ r \in SesType /\ r.pc = "report" /\ r.sealed = ses[s].sealed /\ r.step = ses[s].step
          /\ r.aborted = ses[s].aborted
      BY <1>a, <1>b, <3>1 DEF SesType
    <3> HIDE DEF r
    <3> QED
      BY <1>5, <2>1, <3>1, <3>2, OneMoves DEF Reap, At, Removes
  <2>2. CASE Over(s) /\ UNCHANGED box
    BY <1>5, <2>2, Ends DEF End, Reap, At
  <2>3. CASE /\ Goto(s, "report") /\ UNCHANGED <<task, box>>
             /\ missed' = missed \cup {s}
    <3>1. "report" \in Pc /\ s \in Session /\ ses[s].pc = "reap"
      BY <1>5, <1>b DEF Reap, At
    <3> QED
      BY <2>3, <3>1, GoesOn
  <2> QED
    BY <1>5, <2>1, <2>2, <2>3 DEF Reap, Fails
<1>6. ASSUME Report(s)
      PROVE  /\ ses[s].pc = "report"
             /\ \/ End(s, {"report"})
                \/ /\ ~ses[s].sealed /\ task' = "done"
                   /\ \E r : /\ Becomes(s, r) /\ r.sealed /\ r.pc = "over"
                             /\ r.aborted = ses[s].aborted /\ r.removed = ses[s].removed
  <2>0. CASE Over(s)
    BY <1>6, <2>0, Ends DEF End, Report, At
  <2> SUFFICES ASSUME ~Over(s) PROVE /\ ses[s].pc = "report"
             /\ ~ses[s].sealed /\ task' = "done"
             /\ \E r : /\ Becomes(s, r) /\ r.sealed /\ r.pc = "over"
                       /\ r.aborted = ses[s].aborted /\ r.removed = ses[s].removed
    BY <2>0
  <2> DEFINE r == [ses[s] EXCEPT !.sealed = TRUE, !.pc = "over"]
  <2>1. s \in Session /\ ses' = [ses EXCEPT ![s] = r] /\ ~ses[s].sealed /\ task' = "done"
    BY <1>6 DEF Report, At
  <2>2. /\ r \in SesType /\ r.pc = "over" /\ r.sealed = TRUE /\ r.step = ses[s].step
        /\ r.aborted = ses[s].aborted /\ r.removed = ses[s].removed
    BY <1>a, <1>b, <2>1 DEF SesType
  <2> HIDE DEF r
  <2> QED
    BY <1>6, <2>1, <2>2, OneMoves DEF Report, At
<1> QED
  BY <1>1, <1>2, <1>3, <1>4, <1>5, <1>6

(* A new session comes last.                                                 *)
LEMMA Begins ==
    ASSUME TypeInv, Dispatch
    PROVE  /\ ses' \in Seq(SesType) /\ Len(ses') = Len(ses) + 1 /\ Len(ses) \in Nat
           /\ Session = 1..Len(ses) /\ Session' = 1..(Len(ses) + 1)
           /\ \A s \in Session : s \in Session' /\ ses'[s] = ses[s]
           /\ \E r \in SesType :
                 /\ ses'[Len(ses) + 1] = r /\ r.step = task /\ ~r.sealed /\ ~r.aborted
                 /\ ~r.removed
                 /\ r.pc = IF task = "cleanup" THEN "check" ELSE "workspace"
<1> DEFINE pc == IF task = "cleanup" THEN "check" ELSE "workspace"
           r == [step |-> task, pc |-> pc, sealed |-> FALSE, aborted |-> FALSE, removed |-> FALSE]
<1>1. pc \in Pc /\ task \in {AgentStep, "cleanup"}
  BY DEF Dispatch, Pc, InWorkspace, CleanupPc
<1> HIDE DEF pc
<1>2. /\ r \in SesType /\ r.step = task /\ r.sealed = FALSE /\ r.aborted = FALSE
      /\ r.removed = FALSE /\ r.pc = pc
  BY <1>1 DEF SesType
<1>3. ses' = Append(ses, r)
  BY DEF Dispatch, pc
<1> HIDE DEF r
<1>4. /\ ses' \in Seq(SesType) /\ Len(ses') = Len(ses) + 1 /\ ses'[Len(ses) + 1] = r
      /\ \A s \in 1..Len(ses) : ses'[s] = ses[s]
  BY <1>2, <1>3, AppendProperties DEF TypeInv
<1>5. Len(ses) \in Nat /\ Session = 1..Len(ses) /\ Session' = 1..(Len(ses) + 1)
  BY <1>4, LenProperties DEF Session, TypeInv
<1>6. \A s \in Session : s \in Session'
  BY <1>5
<1> QED
  BY <1>2, <1>4, <1>5, <1>6 DEF pc

(* A restart seals every session.                                            *)
LEMMA Dies ==
    ASSUME TypeInv, Crash
    PROVE  /\ ses' \in Seq(SesType) /\ Len(ses') = Len(ses) /\ Session' = Session
           /\ \A s \in Session : /\ ses'[s].pc = "dead" /\ ses'[s].sealed
                                 /\ ses'[s].step = ses[s].step /\ ses'[s].aborted = ses[s].aborted
                                 /\ ses'[s].removed = ses[s].removed
<1>1. ses \in Seq(SesType) /\ Session = 1..Len(ses) /\ Len(ses) \in Nat
  BY LenProperties DEF TypeInv, Session
<1>2. \A s \in Session : ses[s] \in SesType
  BY DEF TypeInv, Session
<1>3. /\ ses' \in [1..Len(ses) -> SesType]
      /\ \A s \in Session : ses'[s] = [ses[s] EXCEPT !.pc = "dead", !.sealed = TRUE]
  BY <1>1, <1>2 DEF Crash, SesType, Pc
<1>4. ses' \in Seq(SesType)
  <2>1. \E n \in Nat : ses' \in [1..n -> SesType]
    BY <1>1, <1>3
  <2> QED
    BY <2>1, SeqDef, Zenon
<1>5. Len(ses') \in Nat /\ 1..Len(ses') = 1..Len(ses)
  BY <1>3, <1>4, LenProperties
<1>6. \A m, n \in Nat : 1..m = 1..n => m = n
  <2> SUFFICES ASSUME NEW m \in Nat, NEW n \in Nat, 1..m = 1..n PROVE m = n
    OBVIOUS
  <2>1. (m > 0 => m \in 1..n) /\ (n > 0 => n \in 1..m)
    OBVIOUS
  <2> QED
    BY <2>1
<1>7. Len(ses') = Len(ses)
  BY <1>1, <1>5, <1>6
<1> QED
  BY <1>1, <1>2, <1>3, <1>4, <1>5, <1>7, LenProperties DEF Session, SesType

-----------------------------------------------------------------------------
(* Types.                                                                    *)
LEMMA TypeStep == TypeInv /\ [Next]_vars => TypeInv'
<1> SUFFICES ASSUME TypeInv, [Next]_vars PROVE TypeInv'
  OBVIOUS
<1>a. /\ setup \in [workflow : {"feature-dev", "gh-review"}, kind : {"docker", "worktree"},
                    agent : {"pi", "claude"}, force : BOOLEAN]
      /\ token \in {"absent", "bad", "good"}
      /\ task \in {"new", "human", "done", AgentStep, "cleanup"}
      /\ ses \in Seq(SesType) /\ box \in Nat /\ tree \in TreeType
      /\ faults \in Nat /\ cut \in BOOLEAN /\ missed \in SUBSET Nat
      /\ NoTree \in TreeType /\ Removed \in TreeType
  BY DEF TypeInv, NoTree, Removed, TreeType
<1>1. ASSUME NEW t \in BOOLEAN PROVE [tree EXCEPT !.registered = t] \in TreeType
  BY <1>a DEF TreeType
<1>2. Pruned \in TreeType
  <2> DEFINE t == tree.registered /\ Exists
  <2>1. t \in BOOLEAN /\ Pruned = [tree EXCEPT !.registered = t]
    BY <1>a DEF Pruned, TreeType
  <2> QED
    BY <1>1, <2>1
<1>3. ASSUME NEW s, NEW r, Becomes(s, r), task' \in {task, "human"} \cup StepTarget \cup {"done"},
             UNCHANGED <<setup, token>>, box' \in Nat, tree' \in TreeType, faults' \in Nat,
             cut' \in BOOLEAN, missed' \in SUBSET Nat
      PROVE  TypeInv'
  BY <1>3, <1>a DEF Becomes, TypeInv, StepTarget
<1>4. ASSUME NEW s, NEW from, NEW to, Pass(s, from, to), UNCHANGED <<setup, token, task>>,
             box' \in Nat, tree' \in TreeType, faults' \in Nat, cut' \in BOOLEAN,
             missed' \in SUBSET Nat
      PROVE  TypeInv'
  BY <1>3, <1>4 DEF Pass
<1>5. ASSUME NEW s, NEW from, End(s, from), UNCHANGED <<setup, token>>,
             box' \in Nat, tree' \in TreeType, faults' \in Nat, cut' \in BOOLEAN,
             missed' \in SUBSET Nat
      PROVE  TypeInv'
  BY <1>3, <1>5 DEF End
<1>6. CASE Enroll \/ Resume \/ UNCHANGED vars
  BY <1>6, <1>a DEF Enroll, Resume, vars, TypeInv
<1>7. CASE Dispatch
  BY <1>7, <1>a, Begins DEF Dispatch, TypeInv
<1>8. CASE Edits \/ OperatorDeletes
  <2>1. tree' \in TreeType
    BY <1>8, <1>a DEF Edits, OperatorDeletes, TreeType
  <2>2. faults' \in Nat
    BY <1>8, <1>a DEF Edits, OperatorDeletes, Fault
  <2> QED
    BY <1>8, <1>a, <2>1, <2>2 DEF Edits, OperatorDeletes, TypeInv
<1>9. CASE OperatorRotates
  BY <1>9, <1>a DEF OperatorRotates, Fault, TypeInv
<1>10. CASE Crash
  <2>1. task' = "human" \/ task' = task
    BY <1>10, Zenon DEF Crash
  <2>3. faults' \in Nat
    <3>1. faults' = faults + 1
      BY <1>10 DEF Crash, Fault
    <3> QED
      BY <1>a, <3>1
  <2>2. ses' \in Seq(SesType)
    BY <1>10, Dies
  <2> QED
    BY <1>10, <1>a, <2>1, <2>2, <2>3 DEF Crash, TypeInv
<1> SUFFICES ASSUME NEW s \in 1..MaxSessions,
                    \/ Run(s) \/ Cleanup(s) \/ Transit(s) \/ GiveUp(s)
                    \/ HarnessCommits(s) \/ HarnessExits(s)
                    \/ Abort(s) \/ OnAbort(s)
             PROVE  TypeInv'
  BY <1>6, <1>7, <1>8, <1>9, <1>10 DEF Next
<1>b. s \in Nat /\ (missed \cup {s}) \in SUBSET Nat
  BY <1>a, SandboxAssumption
<1>c. /\ RemoveContainer => box' \in Nat /\ faults' \in Nat
      /\ Removes \/ Fails => box' \in Nat /\ faults' \in Nat
      /\ StopContainer(s) => /\ box' \in Nat /\ faults' \in Nat
                             /\ missed' \in SUBSET Nat
  <2>1. Removes => box' \in Nat /\ faults' \in Nat
    BY <1>a DEF Removes
  <2>2. Fault => faults' \in Nat
    BY <1>a DEF Fault
  <2>3. Fails => box' \in Nat /\ faults' \in Nat
    BY <1>a, <2>2 DEF Fails
  <2>4. StopContainer(s) => missed' \in SUBSET Nat
    BY <1>a, <1>b DEF StopContainer
  <2> QED
    BY <2>1, <2>3, <2>4 DEF RemoveContainer, StopContainer
<1>11. CASE Workspace(s)
  BY <1>4, <1>11, <1>a, <1>c, RunMoves DEF Workspace
<1>12. CASE Verify(s)
  BY <1>4, <1>5, <1>12, <1>a, RunMoves DEF Verify
<1>13. CASE Prune(s)
  BY <1>2, <1>4, <1>13, <1>a, RunMoves DEF Prune
<1>14. CASE Add(s)
  <2>1. [dir |-> "checkout", registered |-> TRUE, dirty |-> FALSE] \in TreeType
    BY DEF TreeType
  <2>2. tree' \in TreeType
    BY <1>14, <1>a, <2>1 DEF Add
  <2> QED
    BY <1>4, <1>5, <1>14, <1>a, <2>2, RunMoves DEF Add
<1>15. CASE Spawn(s)
  <2>1. [tree EXCEPT !.dir = "stranded"] \in TreeType
    BY <1>a DEF TreeType
  <2>2. box' \in Nat /\ tree' \in TreeType /\ faults' \in Nat
    BY <1>15, <1>a, <1>b, <1>c, <2>1 DEF Spawn, DockerRun
  <2> QED
    BY <1>4, <1>5, <1>15, <1>a, <2>2, RunMoves DEF Spawn
<1>16. CASE GiveUp(s)
  BY <1>4, <1>16, <1>a, RunMoves DEF GiveUp
<1>17. CASE Finally(s)
  BY <1>4, <1>5, <1>17, <1>a, RunMoves DEF Finally
<1>18. CASE Stop(s)
  BY <1>5, <1>18, <1>a, <1>c, RunMoves DEF Stop
<1>19. CASE Check(s)
  <2>1. tree' \in TreeType /\ UNCHANGED <<setup, token, box, faults, cut, missed>>
    BY <1>2, <1>19, <1>a DEF Check
  <2>2. PICK pc : Pass(s, "check", pc) /\ UNCHANGED task
    BY <1>19, RunMoves
  <2> QED
    BY <1>4, <1>a, <2>1, <2>2
<1>20. CASE Remove(s)
  BY <1>3, <1>20, <1>a, Seals DEF Remove
<1>21. CASE Reap(s)
  <2>1. /\ faults' \in Nat /\ box' \in Nat /\ missed' \in SUBSET Nat
        /\ UNCHANGED <<setup, token, tree, cut>>
    BY <1>21, <1>a, <1>b, <1>c DEF Reap
  <2> QED
    BY <1>3, <1>5, <1>21, <1>a, <2>1, Seals
<1>22. CASE Report(s)
  BY <1>3, <1>5, <1>22, <1>a, Seals DEF Report
<1>23. CASE Transit(s)
  BY <1>3, <1>23, <1>a, Seals DEF Transit
<1>24. CASE Abort(s)
  <2>1. faults' \in Nat /\ cut' \in BOOLEAN /\ UNCHANGED <<setup, token, task, box, tree, missed>>
    BY <1>24, <1>a DEF Abort, Fault
  <2> QED
    BY <1>3, <1>24, <1>a, <2>1, Seals
<1>25. CASE OnAbort(s)
  <2>1. /\ box' \in Nat /\ faults' \in Nat /\ missed' \in SUBSET Nat /\ task' = "human"
        /\ UNCHANGED <<setup, token, tree, cut>>
    BY <1>25, <1>a, <1>c DEF OnAbort
  <2> QED
    BY <1>3, <1>25, <1>a, <2>1, Seals
<1>26. CASE HarnessCommits(s)
  <2>1. tree' \in TreeType
    BY <1>26, <1>a DEF HarnessCommits, TreeType
  <2> QED
    BY <1>26, <1>a, <2>1 DEF HarnessCommits, TypeInv
<1>27. CASE HarnessExits(s)
  BY <1>27, <1>a DEF HarnessExits, TypeInv
<1> QED
  BY <1>11, <1>12, <1>13, <1>14, <1>15, <1>16, <1>17, <1>18, <1>19, <1>20, <1>21, <1>22, <1>23,
     <1>24, <1>25, <1>26, <1>27 DEF Run, Cleanup

(* One session is at work, and it is the last.                               *)
LEMMA WorkStep == TypeInv /\ OneAtWork /\ [Next]_vars => OneAtWork'
<1> SUFFICES ASSUME TypeInv, OneAtWork, [Next]_vars PROVE OneAtWork'
  OBVIOUS
<1>a. /\ ses \in Seq(SesType) /\ Len(ses) \in Nat /\ Session = 1..Len(ses)
      /\ task \in {"new", "human", "done", AgentStep, "cleanup"}
      /\ \A s \in Session : ses[s] \in SesType
  BY LenProperties DEF TypeInv, Session
<1>b. /\ AgentStep # "cleanup" /\ AgentStep # "done" /\ "done" \notin StepTarget
      /\ "check" \notin InWorkspace /\ "workspace" \notin CleanupPc
      /\ "over" \notin InWorkspace \cup CleanupPc /\ "dead" \notin InWorkspace \cup CleanupPc
  BY DEF AgentStep, StepTarget, InWorkspace, CleanupPc
<1>1. ASSUME NEW s, NEW from, NEW to, Pass(s, from, to), UNCHANGED <<task, cut>>,
             to \in CleanupPc => from \in CleanupPc, to \in InWorkspace => from \in InWorkspace
      PROVE  OneAtWork'
  BY <1>1, <1>a DEF Pass, Becomes, OneAtWork
<1>2. ASSUME NEW s, NEW from, End(s, from), UNCHANGED cut PROVE OneAtWork'
  <2>1. PICK r : /\ Becomes(s, r) /\ r.pc = "over" /\ r.sealed
                 /\ r.aborted = ses[s].aborted /\ r.removed = ses[s].removed
                 /\ task' = IF ses[s].sealed THEN task ELSE "human"
    BY <1>2 DEF End
  <2>2. task' = "done" => task = "done"
    BY <2>1
  <2> QED
    BY <1>2, <1>a, <1>b, <2>1, <2>2 DEF Becomes, OneAtWork
<1>3. CASE Enroll \/ Resume
  <2>1. task' # "done" /\ UNCHANGED <<ses, cut>>
    BY <1>3, <1>b DEF Enroll, Resume
  <2> QED
    BY <2>1 DEF OneAtWork, Session
<1>4. CASE Edits \/ OperatorDeletes \/ OperatorRotates \/ UNCHANGED vars
  BY <1>4 DEF Edits, OperatorDeletes, OperatorRotates, vars, OneAtWork, Session
<1>5. CASE Dispatch
  <2>1. task \in {AgentStep, "cleanup"} /\ (\A s \in Session : ses[s].sealed)
        /\ UNCHANGED <<task, cut>>
    BY <1>5 DEF Dispatch
  <2>2. PICK r \in SesType :
           /\ ses'[Len(ses) + 1] = r /\ r.step = task /\ ~r.sealed /\ ~r.aborted /\ ~r.removed
           /\ r.pc = IF task = "cleanup" THEN "check" ELSE "workspace"
    BY <1>5, Begins
  <2>3. /\ Len(ses') = Len(ses) + 1 /\ Session' = 1..(Len(ses) + 1)
        /\ \A s \in Session : ses'[s] = ses[s]
    BY <1>5, Begins
  <2>4. \A s \in Session' : s \in Session \/ s = Len(ses')
    BY <1>a, <2>3
  <2>5. ses'[Len(ses')] = r /\ task # "done"
    BY <1>b, <2>1, <2>2, <2>3
  <2> QED
    BY <1>b, <2>1, <2>2, <2>3, <2>4, <2>5 DEF OneAtWork
<1>6. CASE Crash
  <2>1. /\ Len(ses') = Len(ses) /\ Session' = Session
        /\ \A s \in Session : /\ ses'[s].pc = "dead" /\ ses'[s].sealed
                              /\ ses'[s].step = ses[s].step /\ ses'[s].aborted = ses[s].aborted
    BY <1>6, Dies
  <2>2. task' = "human" \/ task' = task
    BY <1>6, Zenon DEF Crash
  <2>3. ASSUME Len(ses) > 0
        PROVE  /\ ses'[Len(ses')].step = ses[Len(ses)].step
               /\ ses'[Len(ses')].pc \notin CleanupPc
    <3>1. Len(ses) \in Session
      BY <1>a, <2>3
    <3> QED
      BY <2>1, <3>1 DEF CleanupPc
  <2> QED
    BY <1>a, <1>b, <2>1, <2>2, <2>3 DEF OneAtWork
<1> SUFFICES ASSUME NEW s \in 1..MaxSessions,
                    \/ Run(s) \/ Cleanup(s) \/ Transit(s) \/ GiveUp(s)
                    \/ HarnessCommits(s) \/ HarnessExits(s)
                    \/ Abort(s) \/ OnAbort(s)
             PROVE  OneAtWork'
  BY <1>3, <1>4, <1>5, <1>6 DEF Next
<1>7. CASE Run(s) \/ GiveUp(s)
  <2>1. UNCHANGED cut
    BY <1>7 DEF Run, GiveUp, Workspace, Verify, Prune, Add, Spawn, Finally, Stop
  <2>2. \/ \E from : End(s, from)
        \/ /\ UNCHANGED task
           /\ \/ Pass(s, "workspace", "verify") \/ Pass(s, "verify", "spawn")
              \/ Pass(s, "verify", "prune") \/ Pass(s, "prune", "add") \/ Pass(s, "add", "spawn")
              \/ Pass(s, "spawn", "turns") \/ Pass(s, "turns", "finally")
              \/ Pass(s, "finally", "stop")
    BY <1>7, RunMoves DEF Run
  <2>3. /\ {"workspace", "verify", "prune", "add", "spawn"} \subseteq InWorkspace
        /\ {"turns", "finally", "stop"} \cap (InWorkspace \cup CleanupPc) = {}
        /\ InWorkspace \cap CleanupPc = {}
    BY DEF InWorkspace, CleanupPc
  <2> QED
    BY <1>1, <1>2, <2>1, <2>2, <2>3
<1>8. CASE Check(s)
  <2>1. PICK pc \in {"report", "remove", "reap"} : Pass(s, "check", pc) /\ UNCHANGED task
    BY <1>8, RunMoves
  <2>2. pc \in CleanupPc /\ "check" \in CleanupPc /\ pc \notin InWorkspace /\ UNCHANGED cut
    BY <1>8 DEF CleanupPc, InWorkspace, Check
  <2> QED
    BY <1>1, <2>1, <2>2
<1>9. CASE Remove(s) \/ Reap(s)
  <2>1. UNCHANGED cut
    BY <1>9 DEF Remove, Reap
  <2>2. CASE End(s, {"reap"})
    BY <1>2, <2>1, <2>2
  <2>3. ASSUME NEW r, Becomes(s, r), r.sealed = ses[s].sealed, r.pc \in {"reap", "report"},
               r.aborted = ses[s].aborted, ses[s].pc \in {"remove", "reap"}, UNCHANGED task
        PROVE  OneAtWork'
    <3>1. ses[s].pc \in CleanupPc /\ r.pc \notin InWorkspace
      BY <2>3 DEF CleanupPc, InWorkspace
    <3> QED
      BY <1>a, <2>1, <2>3, <3>1 DEF Becomes, OneAtWork
  <2>4. CASE Remove(s)
    BY <2>3, <2>4, Seals DEF Remove
  <2>5. CASE Reap(s)
    BY <2>2, <2>3, <2>5, Seals
  <2> QED
    BY <1>9, <2>4, <2>5
<1>10. CASE Report(s)
  <2>1. UNCHANGED cut
    BY <1>10 DEF Report
  <2>0. CASE End(s, {"report"})
    BY <1>2, <2>0, <2>1
  <2> SUFFICES ASSUME ~End(s, {"report"}) PROVE OneAtWork'
    BY <2>0
  <2>2. PICK r : Becomes(s, r) /\ r.sealed /\ r.pc = "over" /\ r.aborted = ses[s].aborted
    BY <1>10, Seals
  <2>3. ~ses[s].sealed /\ s = Len(ses)
    BY <1>10, <2>2, Seals DEF OneAtWork, Becomes
  <2>4. Len(ses) > 0 /\ \A t \in Session : t # s => ses[t].sealed
    BY <1>a, <2>2, <2>3 DEF OneAtWork, Becomes
  <2> QED
    BY <1>a, <1>b, <2>1, <2>2, <2>3, <2>4 DEF Becomes, OneAtWork
<1>11. CASE Transit(s)
  <2>1. task' # "done" /\ UNCHANGED cut
    BY <1>11, <1>b DEF Transit
  <2>2. PICK r : Becomes(s, r) /\ r.pc = "finally" /\ r.sealed /\ r.aborted = ses[s].aborted
    BY <1>11, Seals
  <2>3. "finally" \notin InWorkspace \cup CleanupPc
    BY DEF InWorkspace, CleanupPc
  <2> QED
    BY <1>a, <2>1, <2>2, <2>3 DEF Becomes, OneAtWork
<1>12. CASE Abort(s)
  <2>1. cut' = (cut \/ ses[s].pc \in InWorkspace) /\ UNCHANGED task
    BY <1>12 DEF Abort
  <2>2. ~ses[s].sealed
    BY <1>12, Seals
  <2>3. PICK r : Becomes(s, r) /\ r.pc = ses[s].pc /\ ~r.sealed /\ r.aborted
    BY <1>12, Seals
  <2> QED
    BY <1>a, <1>b, <2>1, <2>2, <2>3 DEF Becomes, OneAtWork
<1>13. CASE OnAbort(s)
  <2>1. UNCHANGED cut /\ task' = "human"
    BY <1>13 DEF OnAbort
  <2>2. ses[s].aborted
    BY <1>13, Seals
  <2>3. PICK r : Becomes(s, r) /\ r.pc = ses[s].pc /\ r.sealed /\ r.aborted
    BY <1>13, Seals
  <2> QED
    BY <1>a, <1>b, <2>1, <2>2, <2>3 DEF Becomes, OneAtWork
<1>14. CASE HarnessCommits(s) \/ HarnessExits(s)
  BY <1>14 DEF HarnessCommits, HarnessExits, OneAtWork, Session
<1> QED
  BY <1>7, <1>8, <1>9, <1>10, <1>11, <1>12, <1>13, <1>14 DEF Cleanup

(* Two sessions are not in their workspace at once, and neither is a session *)
(* beside one that is not sealed.                                            *)
LEMMA Alone ==
    ASSUME TypeInv, OneAtWork, ~cut, NEW s \in Session, NEW t \in Session,
           ses[s].pc \in InWorkspace \/ ~ses[s].sealed,
           ses[t].pc \in InWorkspace \/ ~ses[t].sealed
    PROVE  s = t /\ task # "done"
BY DEF OneAtWork

(* What becomes of the worktree: only Add makes a checkout, and only where   *)
(* there is no directory.                                                    *)
LEMMA TreeMoves ==
    ASSUME TypeInv, [Next]_vars
    PROVE  /\ Healthy' => Healthy \/ \E s : Add(s) /\ ~Exists
           /\ tree'.dirty => Healthy' \/ (tree.dirty /\ (Healthy' <=> Healthy))
           /\ tree.dirty /\ ~tree'.dirty =>
                 \/ \E s \in 1..MaxSessions : Prune(s)
                 \/ \E s \in 1..MaxSessions : Add(s) /\ ~Exists
                 \/ \E s \in Session : HarnessCommits(s) \/ Remove(s)
                 \/ OperatorDeletes
           /\ UNCHANGED setup
<1>a. tree \in TreeType
  BY DEF TypeInv
<1> DEFINE Same == tree'.dirty = tree.dirty /\ (Healthy' <=> Healthy)
           Empty == ~tree'.dirty /\ ~Healthy'
<1>1. UNCHANGED tree => Same
  BY DEF Healthy
<1>2. tree' = Pruned => Same
  BY <1>a DEF Healthy, Pruned, TreeType
<1>3. tree' = Removed => Empty
  BY DEF Healthy, Removed, NoTree
<1>4. CASE Enroll \/ Resume \/ Dispatch \/ Crash \/ OperatorRotates \/ UNCHANGED vars
  <2>1. UNCHANGED <<tree, setup>>
    BY <1>4 DEF Enroll, Resume, Dispatch, Crash, OperatorRotates, vars
  <2> QED
    BY <1>1, <2>1
<1>5. CASE Edits
  <2>1. tree' = [tree EXCEPT !.dirty = TRUE] /\ Healthy /\ ~tree.dirty /\ UNCHANGED setup
    BY <1>5 DEF Edits
  <2> QED
    BY <1>a, <2>1 DEF Healthy, TreeType
<1>6. CASE OperatorDeletes
  <2>1. tree' = [tree EXCEPT !.dir = "none", !.dirty = FALSE] /\ UNCHANGED setup
    BY <1>6 DEF OperatorDeletes
  <2>2. Empty
    BY <1>a, <2>1 DEF Healthy, TreeType
  <2> QED
    BY <1>6, <2>1, <2>2
<1> SUFFICES ASSUME NEW s \in 1..MaxSessions,
                    \/ Run(s) \/ Cleanup(s) \/ Transit(s) \/ GiveUp(s)
                    \/ HarnessCommits(s) \/ HarnessExits(s)
                    \/ Abort(s) \/ OnAbort(s)
             PROVE  /\ Healthy' => Healthy \/ (Add(s) /\ ~Exists)
                    /\ tree'.dirty => Healthy' \/ (tree.dirty /\ (Healthy' <=> Healthy))
                    /\ tree.dirty /\ ~tree'.dirty =>
                          Prune(s) \/ (Add(s) /\ ~Exists) \/ HarnessCommits(s) \/ Remove(s)
                    /\ (HarnessCommits(s) \/ Remove(s)) => s \in Session
                    /\ UNCHANGED setup
  BY <1>4, <1>5, <1>6 DEF Next
<1>7. ASSUME Same PROVE tree'.dirty = tree.dirty /\ (Healthy' <=> Healthy)
  BY <1>7
<1>8. ASSUME Empty PROVE ~tree'.dirty /\ ~Healthy'
  BY <1>8
<1>9. (HarnessCommits(s) \/ Remove(s)) => s \in Session
  BY DEF HarnessCommits, Remove, At
<1>10. UNCHANGED setup
  BY DEF Run, Workspace, Verify, Prune, Add, Spawn, Finally, Stop, Cleanup, Check, Remove, Reap,
     Report, Transit, GiveUp, HarnessCommits, HarnessExits, Abort, OnAbort
<1> HIDE DEF Same, Empty
<1>11. CASE Workspace(s) \/ Verify(s) \/ Finally(s) \/ Stop(s) \/ Reap(s) \/ Report(s)
            \/ Transit(s) \/ GiveUp(s) \/ HarnessExits(s) \/ Abort(s) \/ OnAbort(s)
  <2>1. UNCHANGED tree
    BY <1>11 DEF Workspace, Verify, Finally, Stop, Reap, Report, Transit, GiveUp, HarnessExits,
       Abort, OnAbort
  <2> QED
    BY <1>1, <1>7, <1>9, <1>10, <2>1
<1>12. CASE Prune(s)
  <2>1. tree' = Removed \/ tree' = Pruned
    BY <1>12 DEF Prune
  <2> QED
    BY <1>2, <1>3, <1>7, <1>8, <1>9, <1>10, <1>12, <2>1
<1>13. CASE Add(s)
  <2>1. \/ UNCHANGED tree
        \/ ~Exists /\ tree' = [dir |-> "checkout", registered |-> TRUE, dirty |-> FALSE]
    BY <1>13 DEF Add
  <2>2. CASE ~Exists /\ tree' = [dir |-> "checkout", registered |-> TRUE, dirty |-> FALSE]
    BY <1>9, <1>10, <1>13, <2>2
  <2> QED
    BY <1>1, <1>7, <1>9, <1>10, <2>1, <2>2
<1>14. CASE Spawn(s)
  <2>1. \/ UNCHANGED tree
        \/ ~Exists /\ tree' = [tree EXCEPT !.dir = "stranded"]
    BY <1>14 DEF Spawn, DockerRun
  <2>2. ~Exists /\ tree' = [tree EXCEPT !.dir = "stranded"] => Same
    BY <1>a DEF Healthy, TreeType, Exists, Same
  <2> QED
    BY <1>1, <1>7, <1>9, <1>10, <2>1, <2>2
<1>15. CASE Check(s)
  <2>1. UNCHANGED tree \/ tree' = Pruned
    BY <1>15 DEF Check
  <2> QED
    BY <1>1, <1>2, <1>7, <1>9, <1>10, <2>1
<1>16. CASE Remove(s)
  <2>1. tree' = Removed
    BY <1>16 DEF Remove
  <2> QED
    BY <1>3, <1>8, <1>9, <1>10, <1>16, <2>1
<1>17. CASE HarnessCommits(s)
  <2>1. tree' = [tree EXCEPT !.dirty = FALSE] /\ Healthy
    BY <1>17 DEF HarnessCommits
  <2>2. ~tree'.dirty /\ Healthy
    BY <1>a, <2>1 DEF TreeType
  <2> QED
    BY <1>9, <1>10, <1>17, <2>2
<1> QED
  BY <1>11, <1>12, <1>13, <1>14, <1>15, <1>16, <1>17 DEF Run, Cleanup

(* A session about to make a checkout: it comes there only where there is no *)
(* directory.                                                                *)
Allots(s) == s \in Session /\ ses[s].pc \in {"prune", "add"}

(* Nobody else comes to prune or add, and an Add leaves its point.           *)
LEMMA AllotMoves ==
    ASSUME TypeInv, [Next]_vars, NEW t, Allots(t)'
    PROVE  (Allots(t) \/ (~Exists /\ UNCHANGED tree)) /\ \A s : Add(s) => t # s
<1>a. Session = 1..Len(ses) /\ Len(ses) \in Nat
  BY LenProperties DEF TypeInv, Session
<1>1. ASSUME NEW s, NEW r, Becomes(s, r), r.pc \notin {"prune", "add"}
      PROVE  Allots(t) /\ t # s
  BY <1>1 DEF Becomes, Allots
<1>2. ASSUME NEW s, NEW from, NEW to, Pass(s, from, to), to \notin {"prune", "add"}
      PROVE  Allots(t) /\ t # s
  BY <1>1, <1>2 DEF Pass
<1>3. ASSUME NEW s, NEW from, End(s, from) PROVE Allots(t) /\ t # s
  BY <1>1, <1>3 DEF End
<1>b. ASSUME NEW s, Add(s) PROVE Allots(t) /\ t # s
  BY <1>b, <1>2, <1>3, RunMoves
<1>4. CASE Enroll \/ Resume \/ Edits \/ OperatorDeletes \/ OperatorRotates \/ UNCHANGED vars
  <2>1. UNCHANGED ses
    BY <1>4 DEF Enroll, Resume, Edits, OperatorDeletes, OperatorRotates, vars
  <2> QED
    BY <1>b, <2>1 DEF Allots, Session
<1>5. CASE Dispatch
  <2>1. PICK r \in SesType : ses'[Len(ses) + 1] = r /\ r.pc \in {"check", "workspace"}
    BY <1>5, Begins
  <2>2. Session' = 1..(Len(ses) + 1) /\ \A s \in Session : ses'[s] = ses[s]
    BY <1>5, Begins
  <2>3. t \in Session \/ t = Len(ses) + 1
    BY <1>a, <2>2 DEF Allots
  <2> QED
    BY <1>b, <2>1, <2>2, <2>3 DEF Allots
<1>6. CASE Crash
  BY <1>6, Dies DEF Allots
<1> SUFFICES ASSUME NEW s \in 1..MaxSessions,
                    \/ Run(s) \/ Cleanup(s) \/ Transit(s) \/ GiveUp(s)
                    \/ HarnessCommits(s) \/ HarnessExits(s)
                    \/ Abort(s) \/ OnAbort(s)
             PROVE  Allots(t) \/ (~Exists /\ UNCHANGED tree)
  BY <1>b, <1>4, <1>5, <1>6 DEF Next
<1>7. CASE Run(s) \/ GiveUp(s)
  <2>1. CASE Verify(s)
    <3>1. CASE Pass(s, "verify", "prune") /\ ~Exists
      BY <2>1, <3>1 DEF Verify
    <3> QED
      BY <1>2, <1>3, <2>1, <3>1, RunMoves
  <2>2. CASE Prune(s)
    <3>1. PICK r : Becomes(s, r) /\ ses[s].pc = "prune"
      BY <2>2, RunMoves DEF Pass
    <3> QED
      BY <3>1 DEF Becomes, Allots
  <2> QED
    BY <1>2, <1>3, <1>b, <1>7, <2>1, <2>2, RunMoves DEF Run
<1>8. CASE Cleanup(s) \/ Transit(s)
  <2>1. CASE Check(s)
    BY <1>2, <2>1, RunMoves
  <2>2. CASE Remove(s) \/ Report(s) \/ Transit(s)
    BY <1>1, <1>3, <2>2, Seals
  <2>3. CASE Reap(s)
    BY <1>1, <1>3, <2>3, Seals
  <2> QED
    BY <1>8, <2>1, <2>2, <2>3 DEF Cleanup
<1>9. CASE Abort(s) \/ OnAbort(s)
  <2>1. PICK r : Becomes(s, r) /\ r.pc = ses[s].pc
    BY <1>9, Seals
  <2> QED
    BY <2>1 DEF Becomes, Allots
<1>10. CASE HarnessCommits(s) \/ HarnessExits(s)
  BY <1>10 DEF HarnessCommits, HarnessExits, Allots, Session
<1> QED
  BY <1>7, <1>8, <1>9, <1>10

(* A session makes a directory or starts a container.                        *)
Makes == \E s \in Session : (Add(s) /\ ses[s].pc = "add") \/ (Spawn(s) /\ ses[s].pc = "spawn")

(* Nothing else does, and what is cut stays cut.                             *)
LEMMA SweptMoves ==
    ASSUME TypeInv, [Next]_vars
    PROVE  /\ box' = 0 \/ box' = box \/ (Docker /\ Makes)
           /\ Swept => Swept' \/ Makes
           /\ ~cut' => ~cut
           /\ missed \subseteq missed'
<1>a. tree \in TreeType
  BY DEF TypeInv
<1>1. UNCHANGED tree => (Swept => Swept')
  BY DEF Swept, Exists
<1>2. tree' = Pruned => (Swept => Swept')
  BY <1>a DEF Swept, Exists, Pruned, TreeType
<1>3. tree' = Removed => Swept'
  BY DEF Swept, Exists, Removed, NoTree
<1>4. CASE Enroll \/ Resume \/ Dispatch \/ Crash \/ OperatorRotates \/ UNCHANGED vars
  <2>1. UNCHANGED <<tree, box, cut, missed>>
    BY <1>4 DEF Enroll, Resume, Dispatch, Crash, OperatorRotates, vars
  <2> QED
    BY <1>1, <2>1
<1>5. CASE Edits \/ OperatorDeletes
  <2>1. UNCHANGED <<box, cut, missed>> /\ Exists
    BY <1>5 DEF Edits, OperatorDeletes, Healthy, Exists
  <2> QED
    BY <2>1 DEF Swept
<1> SUFFICES ASSUME NEW s \in 1..MaxSessions,
                    \/ Run(s) \/ Cleanup(s) \/ Transit(s) \/ GiveUp(s)
                    \/ HarnessCommits(s) \/ HarnessExits(s)
                    \/ Abort(s) \/ OnAbort(s)
             PROVE  /\ box' = 0 \/ box' = box \/ (Docker /\ Makes)
                    /\ Swept => Swept' \/ Makes
                    /\ ~cut' => ~cut
                    /\ missed \subseteq missed'
  BY <1>4, <1>5 DEF Next
<1>6. CASE Add(s) \/ Spawn(s)
  <2>1. Makes
    BY <1>6 DEF Makes, Add, Spawn, At
  <2>2. box' = 0 \/ box' = box \/ Docker
    BY <1>6 DEF Add, Spawn
  <2>3. UNCHANGED <<cut, missed>>
    BY <1>6 DEF Add, Spawn
  <2> QED
    BY <2>1, <2>2, <2>3
<1>7. CASE Workspace(s) \/ Verify(s) \/ Finally(s) \/ Stop(s) \/ Report(s)
           \/ Transit(s) \/ GiveUp(s) \/ HarnessExits(s) \/ OnAbort(s) \/ Reap(s)
  <2>1. UNCHANGED <<tree, cut>> /\ (box' = 0 \/ box' = box) /\ missed \subseteq missed'
    BY <1>7 DEF Workspace, Verify, Finally, Stop, Reap, Report, Transit, GiveUp, HarnessExits,
       OnAbort, RemoveContainer, StopContainer, Removes, Fails
  <2> QED
    BY <1>1, <2>1
<1>8. CASE Abort(s)
  BY <1>1, <1>8 DEF Abort
<1>9. CASE Prune(s) \/ Check(s) \/ Remove(s)
  <2>1. (UNCHANGED tree \/ tree' = Removed \/ tree' = Pruned) /\ UNCHANGED <<box, cut, missed>>
    BY <1>9 DEF Prune, Check, Remove
  <2> QED
    BY <1>1, <1>2, <1>3, <2>1
<1>10. CASE HarnessCommits(s)
  BY <1>10 DEF HarnessCommits, Swept, Healthy, Exists
<1> QED
  BY <1>6, <1>7, <1>8, <1>9, <1>10 DEF Run, Cleanup

(* Uncommitted work is in a checkout, and no checkout where one is made.     *)
LEMMA TreeStep == TypeInv /\ OneAtWork /\ TreeInv /\ [Next]_vars => TreeInv'
<1> SUFFICES ASSUME TypeInv, OneAtWork, TreeInv, [Next]_vars PROVE TreeInv'
  OBVIOUS
<1>1. ~Healthy' => ~tree'.dirty
  BY TreeMoves DEF TreeInv
<1>2. UNCHANGED setup /\ (~Docker' => box' = 0)
  BY TreeMoves, SweptMoves DEF TreeInv, Docker
<1>3. ASSUME ~cut', NEW t \in Session', ses'[t].pc \in {"prune", "add"}, Healthy'
      PROVE  FALSE
  <2>1. Allots(t)' /\ ~cut
    BY <1>3, SweptMoves DEF Allots
  <2>2. (Allots(t) \/ (~Exists /\ UNCHANGED tree)) /\ \A s : Add(s) => t # s
    BY <2>1, AllotMoves
  <2>3. ~Healthy
    BY <1>3, <2>1, <2>2 DEF TreeInv, Allots, Healthy, Exists
  <2>4. PICK s : Add(s) /\ ~Exists
    BY <1>3, <2>3, TreeMoves
  <2>5. t # s /\ s \in Session /\ ses[s].pc = "add"
    BY <2>2, <2>4 DEF Add, At
  <2>6. CASE Allots(t)
    BY <2>1, <2>5, <2>6, Alone DEF Allots, InWorkspace
  <2>7. CASE ~Exists /\ UNCHANGED tree
    BY <1>3, <2>7 DEF Healthy, Exists
  <2> QED
    BY <2>2, <2>6, <2>7
<1> QED
  BY <1>1, <1>2, <1>3 DEF TreeInv

(* Only the steps of a cleanup change its progress.                          *)
LEMMA CleanupMoves ==
    ASSUME TypeInv, [Next]_vars
    PROVE  /\ \A t \in Session' : ses'[t].pc \in CleanupPc =>
                 \/ /\ t \in Session /\ ses[t].pc = ses'[t].pc
                    /\ ses[t].removed = ses'[t].removed
                    /\ ses[t].sealed => ses'[t].sealed
                 \/ Check(t) \/ Remove(t) \/ Reap(t)
                 \/ ses'[t].pc = "check" /\ ~ses'[t].removed
           /\ \A t \in Session : t \in Session' /\
                 (ses'[t].removed = ses[t].removed \/ Remove(t) \/ Reap(t))
           /\ Len(ses') = Len(ses) \/ Dispatch
<1> DEFINE Kept == /\ \A t \in Session' : ses'[t].pc \in CleanupPc =>
                         /\ t \in Session /\ ses[t].pc = ses'[t].pc
                         /\ ses[t].removed = ses'[t].removed
                         /\ ses[t].sealed => ses'[t].sealed
                   /\ \A t \in Session : t \in Session' /\ ses'[t].removed = ses[t].removed
                   /\ Len(ses') = Len(ses)
<1>a. Session = 1..Len(ses) /\ Len(ses) \in Nat
  BY LenProperties DEF TypeInv, Session
<1>1. ASSUME NEW s, NEW r, Becomes(s, r), r.removed = ses[s].removed,
             r.pc \notin CleanupPc \/ (r.pc = ses[s].pc /\ (ses[s].sealed => r.sealed))
      PROVE  Kept
  BY <1>1 DEF Becomes
<1>2. ASSUME NEW s, NEW from, NEW to, Pass(s, from, to), to \notin CleanupPc PROVE Kept
  BY <1>1, <1>2 DEF Pass
<1>b. "over" \notin CleanupPc /\ "dead" \notin CleanupPc /\ "finally" \notin CleanupPc
      /\ "workspace" \notin CleanupPc
  BY DEF CleanupPc
<1>3. ASSUME NEW s, NEW from, End(s, from) PROVE Kept
  BY <1>1, <1>3, <1>b DEF End
<1>4. CASE Enroll \/ Resume \/ Edits \/ OperatorDeletes \/ OperatorRotates \/ UNCHANGED vars
  <2>1. UNCHANGED ses
    BY <1>4 DEF Enroll, Resume, Edits, OperatorDeletes, OperatorRotates, vars
  <2> QED
    BY <2>1 DEF Session
<1>5. CASE Dispatch
  <2>1. PICK r \in SesType : /\ ses'[Len(ses) + 1] = r /\ ~r.removed
                             /\ r.pc \in {"check", "workspace"}
    BY <1>5, Begins
  <2>2. /\ Session' = 1..(Len(ses) + 1)
        /\ \A s \in Session : s \in Session' /\ ses'[s] = ses[s]
    BY <1>5, Begins
  <2>3. \A t \in Session' : t \in Session \/ t = Len(ses) + 1
    BY <1>a, <2>2
  <2> QED
    BY <1>5, <1>b, <2>1, <2>2, <2>3
<1>6. CASE Crash
  BY <1>6, <1>b, Dies
<1> SUFFICES ASSUME NEW s \in 1..MaxSessions,
                    \/ Run(s) \/ Cleanup(s) \/ Transit(s) \/ GiveUp(s)
                    \/ HarnessCommits(s) \/ HarnessExits(s)
                    \/ Abort(s) \/ OnAbort(s)
             PROVE  /\ \A t \in Session' : ses'[t].pc \in CleanupPc =>
                          \/ /\ t \in Session /\ ses[t].pc = ses'[t].pc
                             /\ ses[t].removed = ses'[t].removed
                             /\ ses[t].sealed => ses'[t].sealed
                          \/ Check(t) \/ Remove(t) \/ Reap(t)
                    /\ \A t \in Session : t \in Session' /\
                          (ses'[t].removed = ses[t].removed \/ Remove(t) \/ Reap(t))
                    /\ Len(ses') = Len(ses)
  BY <1>4, <1>5, <1>6 DEF Next
<1>7. CASE Run(s) \/ GiveUp(s)
  <2>1. {"verify", "spawn", "prune", "add", "turns", "finally", "stop"} \cap CleanupPc = {}
    BY DEF CleanupPc
  <2>2. Kept
    BY <1>2, <1>3, <1>7, <2>1, RunMoves DEF Run
  <2> QED
    BY <2>2
<1>8. CASE Check(s) \/ Remove(s) \/ Reap(s)
  <2>1. PICK r : Becomes(s, r) /\ (Check(s) => r.removed = ses[s].removed)
    BY <1>8, RunMoves, Seals DEF Pass, End
  <2> QED
    BY <1>8, <2>1 DEF Becomes
<1>9. CASE Report(s) \/ Transit(s) \/ Abort(s) \/ OnAbort(s)
  <2>1. Kept
    BY <1>1, <1>3, <1>9, <1>b, Seals
  <2> QED
    BY <2>1
<1>10. CASE HarnessCommits(s) \/ HarnessExits(s)
  BY <1>10 DEF HarnessCommits, HarnessExits, Session
<1> QED
  BY <1>7, <1>8, <1>9, <1>10 DEF Cleanup

(* What the cleanup step has done stays done.                                *)
LEMMA CleanStep == TypeInv /\ OneAtWork /\ TreeInv /\ CleanInv /\ [Next]_vars => CleanInv'
<1> SUFFICES ASSUME TypeInv, OneAtWork, TreeInv, CleanInv, [Next]_vars, ~cut'
             PROVE  /\ \A t \in Session' : ses'[t].pc \in {"check", "remove"} => ~ses'[t].removed
                    /\ \A t \in Session' : ~ses'[t].sealed /\ ses'[t].pc = "reap" => Swept'
                    /\ \A t \in Session' :
                          /\ ~ses'[t].sealed /\ ses'[t].pc = "report"
                          /\ setup.force \/ ses'[t].removed
                          => Swept' /\ (box' = 0 \/ t \in missed')
                    /\ task' = "done" /\ (setup.force \/ ses'[Len(ses')].removed) =>
                          Swept' /\ (box' = 0 \/ Len(ses') \in missed')
  BY TreeMoves DEF CleanInv
<1>a. /\ ~cut
      /\ \A s \in Session : ses[s].pc \in {"check", "remove"} => ~ses[s].removed
      /\ \A s \in Session : ~ses[s].sealed /\ ses[s].pc = "reap" => Swept
      /\ \A s \in Session :
            /\ ~ses[s].sealed /\ ses[s].pc = "report"
            /\ setup.force \/ ses[s].removed
            => Swept /\ (box = 0 \/ s \in missed)
      /\ task = "done" /\ (setup.force \/ ses[Len(ses)].removed) =>
            Swept /\ (box = 0 \/ Len(ses) \in missed)
      /\ missed \subseteq missed'
  BY SweptMoves DEF CleanInv
<1>b. tree \in TreeType /\ Session = 1..Len(ses) /\ Len(ses) \in Nat
  BY LenProperties DEF TypeInv, Session
<1>c. /\ {"check", "remove", "reap", "report"} = CleanupPc
      /\ {"add", "spawn"} \subseteq InWorkspace /\ "add" \notin CleanupPc /\ "spawn" \notin CleanupPc
  BY DEF CleanupPc, InWorkspace
<1>1. ASSUME NEW t \in Session, ~ses[t].sealed, ses[t].pc \in CleanupPc PROVE ~Makes
  <2> SUFFICES ASSUME NEW s \in Session, ses[s].pc \in {"add", "spawn"} PROVE FALSE
    BY DEF Makes
  <2>1. s = t
    BY <1>a, <1>c, <1>1, Alone
  <2> QED
    BY <1>c, <1>1, <2>1
<1>2. task = "done" => ~Makes
  <2> SUFFICES ASSUME task = "done", NEW s \in Session, ses[s].pc \in {"add", "spawn"} PROVE FALSE
    BY DEF Makes
  <2> QED
    BY <1>a, <1>c, Alone
<1>3. /\ ~Makes => (Swept => Swept') /\ (box = 0 => box' = 0)
  BY SweptMoves
<1>4. ASSUME NEW t \in Session', ses'[t].pc \in CleanupPc
      PROVE  /\ ses'[t].pc \in {"check", "remove"} => ~ses'[t].removed
             /\ ~ses'[t].sealed /\ ses'[t].pc = "reap" => Swept'
             /\ ~ses'[t].sealed /\ ses'[t].pc = "report" /\ (setup.force \/ ses'[t].removed) =>
                   Swept' /\ (box' = 0 \/ t \in missed')
  <2>1. CASE /\ t \in Session /\ ses[t].pc = ses'[t].pc /\ ses[t].removed = ses'[t].removed
             /\ ses[t].sealed => ses'[t].sealed
    BY <1>a, <1>1, <1>3, <1>4, <2>1
  <2>2. CASE Check(t)
    <3>1. PICK pc \in {"report", "remove", "reap"} : Pass(t, "check", pc)
      BY <2>2, RunMoves
    <3>2. t \in Session /\ ses[t].pc = "check" /\ ses'[t].pc = pc
          /\ ses'[t].removed = ses[t].removed /\ ~ses'[t].removed
      BY <1>a, <3>1 DEF Pass, Becomes
    <3>3. UNCHANGED box /\ (~Docker => box = 0)
      BY <2>2 DEF Check, TreeInv
    <3>4. CASE Exists
      <4>1. Goto(t, IF Dirty /\ ~setup.force THEN "report" ELSE "remove")
        BY <2>2, <3>4 DEF Check
      <4>2. /\ ses'[t].pc = IF Dirty /\ ~setup.force THEN "report" ELSE "remove"
        <5>1. ses \in Seq(SesType) /\ ses[t] \in SesType /\ t \in DOMAIN ses
          BY <3>2 DEF TypeInv, Session
        <5> QED
          BY <4>1, <5>1 DEF Goto, SesType
      <4> QED
        BY <3>2, <4>2
    <3>5. CASE ~Exists
      <4>1. tree' = Pruned /\ Goto(t, IF Docker THEN "reap" ELSE "report")
        BY <2>2, <3>5 DEF Check
      <4>2. Swept'
        BY <1>b, <3>5, <4>1 DEF Pruned, Exists, Swept, TreeType
      <4>3. ses'[t].pc = IF Docker THEN "reap" ELSE "report"
        <5>1. ses \in Seq(SesType) /\ ses[t] \in SesType /\ t \in DOMAIN ses
          BY <3>2 DEF TypeInv, Session
        <5> QED
          BY <4>1, <5>1 DEF Goto, SesType
      <4> QED
        BY <3>2, <3>3, <4>2, <4>3
    <3> QED
      BY <3>4, <3>5
  <2>3. CASE Remove(t)
    <3>1. tree' = Removed /\ UNCHANGED box /\ (~Docker => box = 0)
      BY <2>3 DEF Remove, TreeInv
    <3>2. Swept'
      BY <3>1 DEF Swept, Exists, Removed, NoTree
    <3>3. ses'[t].pc = IF Docker THEN "reap" ELSE "report"
      BY <2>3, Seals DEF Becomes
    <3> QED
      BY <3>1, <3>2, <3>3
  <2>4. CASE Reap(t)
    <3>1. ses[t].pc = "reap" /\ t \in Session /\ UNCHANGED tree
      BY <2>4 DEF Reap, At
    <3>2. ~ses[t].sealed => Swept'
      BY <1>a, <3>1 DEF Swept, Exists
    <3>3. \/ ses'[t].pc = "over"
          \/ /\ ses'[t].pc = "report" /\ ses'[t].sealed = ses[t].sealed
             /\ box' = 0 \/ t \in missed'
      BY <2>4, Seals DEF Becomes, End
    <3> QED
      BY <3>2, <3>3
  <2>5. CASE ses'[t].pc = "check" /\ ~ses'[t].removed
    BY <2>5
  <2> QED
    BY <1>4, <2>1, <2>2, <2>3, <2>4, <2>5, CleanupMoves
<1>5. ASSUME task' = "done", setup.force \/ ses'[Len(ses')].removed
      PROVE  Swept' /\ (box' = 0 \/ Len(ses') \in missed')
  <2>1. CASE \E s \in 1..MaxSessions : Report(s) /\ ~End(s, {"report"})
    <3>1. PICK s : Report(s) /\ ~End(s, {"report"})
      BY <2>1
    <3>2. s \in Session /\ ses[s].pc = "report" /\ UNCHANGED <<tree, box, missed>>
      BY <3>1 DEF Report, At
    <3>3. s = Len(ses) /\ ~ses[s].sealed
      BY <1>c, <3>1, <3>2, Seals DEF OneAtWork
    <3>4. ses'[s].removed = ses[s].removed /\ Len(ses') = Len(ses)
      BY <3>1, Seals DEF Becomes
    <3> QED
      BY <1>a, <1>5, <3>2, <3>3, <3>4 DEF Swept, Exists
  <2>2. CASE ~\E s \in 1..MaxSessions : Report(s) /\ ~End(s, {"report"})
    <3>1. task = "done"
      <4>1. AgentStep # "done" /\ "done" \notin StepTarget
        BY DEF AgentStep, StepTarget
      <4>2. \A s : End(s, {"verify"}) \/ End(s, {"add"}) \/ End(s, {"spawn"})
                   \/ End(s, {"finally"}) \/ End(s, {"stop"}) \/ End(s, {"reap"})
                   \/ End(s, {"report"}) => task = "done"
        BY <1>5 DEF End
      <4>3. CASE Crash
        <5>1. task' = "human" \/ task' = task
          BY <4>3, Zenon DEF Crash
        <5> QED
          BY <1>5, <5>1
      <4>4. CASE \/ Enroll \/ Resume \/ Dispatch \/ Edits \/ OperatorDeletes
                 \/ OperatorRotates \/ UNCHANGED vars
        BY <1>5, <4>1, <4>4 DEF Enroll, Resume, Dispatch, Edits, OperatorDeletes,
           OperatorRotates, vars
      <4>5. ASSUME NEW s \in 1..MaxSessions, Run(s) \/ GiveUp(s) \/ Check(s) PROVE task = "done"
        BY <1>5, <4>2, <4>5, RunMoves DEF Run
      <4>6. ASSUME NEW s \in 1..MaxSessions,
                   Remove(s) \/ Reap(s) \/ Transit(s) \/ Abort(s) \/ OnAbort(s)
                   \/ HarnessCommits(s) \/ HarnessExits(s)
            PROVE  task = "done"
        <5>1. CASE Reap(s)
          BY <1>5, <4>2, <5>1, Seals
        <5>2. CASE Remove(s) \/ Transit(s) \/ Abort(s) \/ OnAbort(s) \/ HarnessCommits(s)
                   \/ HarnessExits(s)
          BY <1>5, <4>1, <5>2 DEF Remove, Transit, Abort, OnAbort, HarnessCommits, HarnessExits
        <5> QED
          BY <4>6, <5>1, <5>2
      <4>7. ASSUME NEW s \in 1..MaxSessions, Report(s) PROVE task = "done"
        BY <2>2, <4>2, <4>7
      <4> QED
        BY <4>3, <4>4, <4>5, <4>6, <4>7 DEF Next, Cleanup
    <3>2. Len(ses) \in Session /\ ses[Len(ses)].sealed
      BY <1>b, <3>1 DEF OneAtWork
    <3>3. ses[Len(ses)].pc \notin CleanupPc
          /\ ~Remove(Len(ses)) /\ ~Reap(Len(ses)) /\ ~Dispatch
      BY <1>c, <3>1, <3>2 DEF OneAtWork, Remove, Reap, At, Dispatch, AgentStep
    <3>4. Len(ses') = Len(ses) /\ ses'[Len(ses)].removed = ses[Len(ses)].removed
      BY <3>2, <3>3, CleanupMoves
    <3> QED
      BY <1>a, <1>2, <1>3, <1>5, <3>1, <3>4
  <2> QED
    BY <2>1, <2>2
<1> QED
  BY <1>c, <1>4, <1>5

(* Inv is inductive.                                                         *)
LEMMA Invariant == Spec => []Inv
<1>1. Init => Inv
  <2> SUFFICES ASSUME Init PROVE Inv
    OBVIOUS
  <2>1. ses = <<>> /\ Len(ses) = 0 /\ Session = {} /\ ses \in Seq(SesType)
    BY DEF Init, Session
  <2>2. TypeInv
    BY <2>1 DEF Init, TypeInv, NoTree, TreeType
  <2>3. task = "new" /\ box = 0 /\ ~tree.dirty
    BY DEF Init, NoTree
  <2> QED
    BY <2>1, <2>2, <2>3 DEF Inv, OneAtWork, TreeInv, CleanInv
<1>2. Inv /\ [Next]_vars => Inv'
  BY TypeStep, WorkStep, TreeStep, CleanStep DEF Inv
<1> QED
  BY <1>1, <1>2, PTL DEF Spec

-----------------------------------------------------------------------------
(* A task that its cleanup step has done leaves no worktree and no           *)
(* registration, unless its changes were left there on purpose, and no       *)
(* container, unless docker failed the step that was to remove it.           *)
THEOREM NothingLeft == Spec => []DoneIsClean
<1>1. Inv => DoneIsClean
  BY DEF Inv, CleanInv, Swept, DoneIsClean
<1> QED
  BY <1>1, Invariant, PTL

(* Uncommitted work goes only where somebody commits it, deletes it, or the  *)
(* cleanup step removes the worktree: no later session starts over it.       *)
THEOREM NoWorkDropped == Spec => WorkIsHandedOver
<1>1. Inv /\ [Next]_vars =>
         [tree.dirty /\ ~tree'.dirty =>
             \/ cut
             \/ \E s \in Session : HarnessCommits(s) \/ Remove(s)
             \/ OperatorDeletes]_vars
  <2> SUFFICES ASSUME Inv, [Next]_vars, tree.dirty, ~tree'.dirty, ~cut
               PROVE  (\E s \in Session : HarnessCommits(s) \/ Remove(s)) \/ OperatorDeletes
    OBVIOUS
  <2>1. Healthy /\ Exists
    BY DEF Inv, TreeInv, Healthy, Exists
  <2>2. ASSUME NEW s, Prune(s) PROVE FALSE
    BY <2>1, <2>2 DEF Inv, TreeInv, Prune, At
  <2> QED
    BY <2>1, <2>2, TreeMoves DEF Inv
<1> QED
  BY <1>1, Invariant, PTL DEF Spec, WorkIsHandedOver
=============================================================================
