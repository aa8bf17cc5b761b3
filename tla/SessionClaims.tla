--------------------------- MODULE SessionClaims ---------------------------
(***************************************************************************)
(* What the session files promise to their readers (clients, the next      *)
(* daemon): a session is the exclusive claim on its task from the moment   *)
(* its meta appears until the meta is sealed, it is sealed once, and it is *)
(* done only after it ran.                                                 *)
(***************************************************************************)
CONSTANTS Task, Session, NoTask

VARIABLES meta, owner

Live(s)    == meta[s] \in {"queued", "running"}
Claimed(t) == \E s \in Session : owner[s] = t /\ Live(s)

Init ==
    /\ meta = [s \in Session |-> "none"]
    /\ owner = [s \in Session |-> NoTask]

Claim(s, t) ==
    /\ meta[s] = "none" /\ ~Claimed(t)
    /\ meta' = [meta EXCEPT ![s] = "queued"]
    /\ owner' = [owner EXCEPT ![s] = t]

Start(s) ==
    /\ meta[s] = "queued"
    /\ meta' = [meta EXCEPT ![s] = "running"]
    /\ UNCHANGED owner

Done(s) ==
    /\ meta[s] = "running"
    /\ meta' = [meta EXCEPT ![s] = "done"]
    /\ UNCHANGED owner

EndEarly(s, how) ==
    /\ Live(s)
    /\ meta' = [meta EXCEPT ![s] = how]
    /\ UNCHANGED owner

Next ==
    \E s \in Session :
        \/ \E t \in Task : Claim(s, t)
        \/ Start(s)
        \/ Done(s)
        \/ \E how \in {"failed", "aborted"} : EndEarly(s, how)

Spec == Init /\ [][Next]_<<meta, owner>>
=============================================================================
