------------------------------ MODULE MCBacklog -------------------------------
EXTENDS Backlog, TLC

CONSTANTS a, b, n, c1, c2

Job(kind, task, by, blocks, enroll) ==
    [kind |-> kind, task |-> task, by |-> by, blocks |-> blocks,
     enroll |-> enroll]

(* One caller creates a task that waits for a and holds up b; the other    *)
(* moves and edits the neighbours meanwhile.                               *)
MCJobs ==
    c1 :> {Job("create", n, {a}, {b}, TRUE), Job("done", a, {}, {}, FALSE),
           Job("reset", n, {}, {}, FALSE)}
 @@ c2 :> {Job("enroll", b, {}, {}, FALSE), Job("edit", b, {}, {}, FALSE),
           Job("unblock", b, {n}, {}, FALSE), Job("resume", n, {}, {}, FALSE),
           Job("reopen", a, {}, {}, FALSE), Job("done", n, {}, {}, FALSE)}
=============================================================================
