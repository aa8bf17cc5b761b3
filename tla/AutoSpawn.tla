------------------------------ MODULE AutoSpawn ------------------------------
(***************************************************************************)
(* The front ends on top of SingleInstance: a caller dials the socket,     *)
(* spawns autoskd when nothing answers, and waits for it to come up. The   *)
(* callers of one client share its Connector.                              *)
(***************************************************************************)
EXTENDS SingleInstance

CONSTANTS
    Caller,        \* goroutines of the front ends
    Connector,
    ConnectorOf,   \* the connector a caller dials through
    NoSpawn,       \* connectors with NoAutoSpawn
    MaxDial        \* bound: dials of a caller

ASSUME SpawnAssumption ==
    /\ ConnectorOf \in [Caller -> Connector]
    /\ NoSpawn \subseteq Connector
    /\ MaxDial \in Nat \ {0}

VARIABLES
    dial,      \* where a caller's Dial is
    spawned,   \* Connector.spawned: the pid it started, or Nobody
    dials      \* Dial calls a caller has made

callers == <<dial, spawned, dials>>
allVars == <<processes, callers>>

(* connect(2) succeeds while the listener behind the socket file accepts. *)
Reachable == sock # Nobody /\ pc[sock] = "listening"

(* No process is on its way to listen, or on its way out. *)
Settled == \A p \in Proc : pc[p] \in {"new", "listening"} \cup Ended

SpawnInit ==
    /\ OwnerInit
    /\ dial = [c \in Caller |-> "idle"]
    /\ spawned = [k \in Connector |-> Nobody]
    /\ dials = [c \in Caller |-> 0]

Set(c, label) == dial' = [dial EXCEPT ![c] = label]

Dial(c) ==
    /\ dial[c] \in {"idle", "error"} /\ dials[c] < MaxDial
    /\ dials' = [dials EXCEPT ![c] = @ + 1] /\ Set(c, "connect")
    /\ UNCHANGED <<processes, spawned>>

FirstConnect(c) ==
    /\ dial[c] = "connect"
    /\ Set(c, IF Reachable THEN "connected"
              ELSE IF ConnectorOf[c] \in NoSpawn THEN "error" ELSE "spawn")
    /\ UNCHANGED <<processes, spawned, dials>>

(* ensureSpawn: the first caller of the connector starts a process. *)
EnsureSpawn(c, p) ==
    LET k == ConnectorOf[c] IN
    /\ dial[c] = "spawn" /\ Set(c, "wait")
    /\ \/ spawned[k] # Nobody /\ UNCHANGED <<pc, spawned>>
       \/ /\ spawned[k] = Nobody /\ pc[p] = "new"
          /\ spawned' = [spawned EXCEPT ![k] = p]
          /\ Goto(p, "link")
    /\ UNCHANGED <<files, ghosts, seen, tries, rounds, crashes, stops, dials>>

(* Mutant: waitConnect gives up at the first refused connection. *)
WaitOnce(c) ==
    /\ dial[c] = "wait"
    /\ Set(c, IF Reachable THEN "connected" ELSE "error")
    /\ UNCHANGED <<processes, spawned, dials>>

(* waitConnect: one of its attempts connects, or its deadline passes. Its  *)
(* five seconds are taken to outlast a start-up or a shutdown under way.   *)
WaitConnect(c) ==
    /\ dial[c] = "wait"
    /\ \/ Reachable /\ Set(c, "connected")
       \/ ~Reachable /\ Settled /\ Set(c, "error")
    /\ UNCHANGED <<processes, spawned, dials>>

(* One request was answered, or the daemon's end closed the connection. *)
Hangup(c) ==
    /\ dial[c] = "connected" /\ Set(c, "idle")
    /\ UNCHANGED <<processes, spawned, dials>>

DialStep(c) ==
    FirstConnect(c) \/ (\E p \in Proc : EnsureSpawn(c, p)) \/ WaitConnect(c)

(* Bound: a pid is kept for every connector that may have to spawn one. *)
PidsLeft ==
    Cardinality({p \in Proc : pc[p] = "new"})
        >= Cardinality({k \in Connector : spawned[k] = Nobody})

SpawnNext ==
    \/ \E c \in Caller : Dial(c) \/ DialStep(c) \/ Hangup(c)
    \/ OwnerNext /\ UNCHANGED callers /\ PidsLeft'

SpawnSpec == SpawnInit /\ [][SpawnNext]_allVars

(* The operating system runs the processes, the runtime the goroutines. *)
SpawnFairSpec ==
    /\ SpawnSpec
    /\ \A c \in Caller : WF_allVars(DialStep(c))
    /\ \A p \in Proc : WF_allVars(Proceed(p) /\ UNCHANGED callers)

-----------------------------------------------------------------------------
(* Properties. *)

(* Clients that race to be the first all end up connected when no process  *)
(* dies on them and no ended one answers for a live one: the spawned       *)
(* processes settle among themselves which one serves, and no client waits *)
(* for one that never listens.                                             *)
EveryDialConnects == <>ReclaimRace \/ <>(\E p \in Proc : Mistaken(p)) \/ (\A c \in Caller :
    dial[c] = "connect" ~> dial[c] = "connected" \/ crashes + stops > 0)
=============================================================================
