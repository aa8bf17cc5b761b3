---------------------------- MODULE DaemonProofs ----------------------------
(* Proofs about the daemon as a process: which one owns the socket, with    *)
(* and without clients that spawn it (SingleInstance, AutoSpawn), and that  *)
(* an extension change that was reported is in force (Extensions).          *)
EXTENDS AutoSpawn, Extensions, SequenceTheorems, TLAPS

-----------------------------------------------------------------------------
(* One owner. *)

Pid == Proc \cup {Gone, Nobody}
ProcessOK ==
    /\ {lock, breaker, sock} \subseteq Pid
    /\ pc \in [Proc -> {"new"} \cup Starting \cup Owning \cup Ended]
    /\ seen \in [Proc -> Pid]

(* The lock names its owner, so there is one. A reclaimer that has read the *)
(* lock again knows every owner, and one that unlinks finds none.           *)
LockInv ==
    /\ \A p \in Proc : pc[p] \in Owning => lock = p
    /\ \A p, q \in Proc : pc[q] = "reprobe" /\ pc[p] \in Owning => p = seen[q]
    /\ \A p, q \in Proc : pc[q] \in {"unlock", "unsock"} => pc[p] \notin Owning
SockInv == \A p \in Proc : pc[p] = "listening" => sock = p

OwnerInv == ProcessOK /\ LockInv /\ SockInv

(* A process is started by hand or by a client.                             *)
Spawned(p) ==
    pc[p] = "new" /\ Goto(p, "link")
    /\ UNCHANGED <<files, ghosts, seen, tries, rounds, crashes, stops>>
ProcessStep ==
    \/ \E p \in Proc : Spawned(p) \/ Stop(p) \/ Crash(p) \/ Proceed(p)
    \/ \E p \in Proc \cup {Gone} : Haunt(p) \/ Fade(p)

LEMMA OwnerInvInit == OwnerInit => OwnerInv
  BY SingleAssumption DEF OwnerInit, OwnerInv, ProcessOK, LockInv, SockInv, Pid, Owning

(* A process that moves on without touching the files, and is no more an    *)
(* owner than before nor about to unlink anything.                          *)
LEMMA OwnerFrame ==
    ASSUME OwnerInv, breaker' \in Pid, NEW p \in Proc, NEW to \in {"new"} \cup Starting \cup Owning \cup Ended,
           Goto(p, to), UNCHANGED <<lock, sock>>, seen' \in [Proc -> Pid],
           \A q \in Proc : q # p => seen'[q] = seen[q],
           to \in Owning => pc[p] \in Owning, to # "listening",
           to \notin {"reprobe", "unlock", "unsock"}
    PROVE  OwnerInv'
<1>1. /\ pc' = [pc EXCEPT ![p] = to] /\ pc'[p] = to /\ \A q \in Proc \ {p} : pc'[q] = pc[q]
      /\ pc' \in [Proc -> {"new"} \cup Starting \cup Owning \cup Ended]
  BY DEF OwnerInv, ProcessOK, Goto
<1>2. \A q \in Proc : pc'[q] \in Owning => pc[q] \in Owning
  BY <1>1
<1>3. ProcessOK'
  BY <1>1 DEF OwnerInv, ProcessOK
<1>4. LockInv'
  BY <1>1, <1>2 DEF OwnerInv, LockInv
<1>5. SockInv'
  BY <1>1 DEF OwnerInv, SockInv
<1> QED
  BY <1>3, <1>4, <1>5 DEF OwnerInv

LEMMA OwnerStep == OwnerInv /\ ~TakeoverRace /\ [ProcessStep]_processes => OwnerInv'
<1> SUFFICES ASSUME OwnerInv, ~TakeoverRace, [ProcessStep]_processes PROVE OwnerInv'
  OBVIOUS
<1>0. CASE UNCHANGED <<files, pc, seen>>
  BY <1>0 DEF OwnerInv, ProcessOK, LockInv, SockInv, files
<1>a. UNCHANGED processes => UNCHANGED <<files, pc, seen>>
  BY DEF processes
<1>b. (\E p \in Proc \cup {Gone} : Haunt(p) \/ Fade(p)) => UNCHANGED <<files, pc, seen>>
  BY DEF Haunt, Fade
<1> SUFFICES ASSUME NEW p \in Proc, Spawned(p) \/ Stop(p) \/ Crash(p) \/ Proceed(p)
             PROVE  OwnerInv'
  BY <1>0, <1>a, <1>b DEF ProcessStep
<1> USE DEF files
<1>1. /\ seen \in [Proc -> Pid] /\ Nobody \in Pid /\ lock \in Pid
      /\ breaker \in Pid /\ p \in Pid
      /\ \A v \in Pid : [seen EXCEPT ![p] = v] \in [Proc -> Pid]
      /\ \A v \in Pid, q \in Proc : q # p => [seen EXCEPT ![p] = v][q] = seen[q]
  BY DEF OwnerInv, ProcessOK, Pid
<1>2. CASE Spawned(p)
  BY <1>1, <1>2, OwnerFrame DEF Spawned, Starting, Claiming, Owning
<1>3. CASE Stop(p)
  BY <1>1, <1>3, OwnerFrame DEF Stop, Owning
<1>4. CASE Crash(p)
  BY <1>1, <1>4, OwnerFrame DEF Crash, Owning, Ended
<1>5. CASE Link(p)
  <2>1. CASE lock = Nobody
    <3>1. \A q \in Proc : pc[q] \notin Owning
      BY <2>1, SingleAssumption DEF OwnerInv, LockInv
    <3>2. \A q \in Proc : pc[q] \notin {"reprobe", "unlock", "unsock"}
      BY <1>5, <2>1 DEF TakeoverRace, Link
    <3>3. lock' = p /\ Goto(p, "reap") /\ UNCHANGED <<breaker, sock, seen>>
      BY <1>5, <2>1 DEF Link
    <3> QED
      BY <3>1, <3>2, <3>3
      DEF OwnerInv, ProcessOK, LockInv, SockInv, Goto, Owning, Pid
  <2>2. CASE lock # Nobody
    BY <1>1, <1>5, <2>2, OwnerFrame DEF Link, Starting, Claiming, Owning
  <2> QED
    BY <2>1, <2>2
<1>6. CASE ReadLock(p)
  <2>1. CASE pc[p] = "read"
    BY <1>1, <1>6, <2>1, OwnerFrame DEF ReadLock, Starting, Claiming, Owning
  <2>2. CASE pc[p] = "reread"
    BY <1>6, <2>2
    DEF ReadLock, OwnerInv, ProcessOK, LockInv, SockInv, Goto, Owning, Starting, Reclaiming, Pid
  <2> QED
    BY <1>6, <2>1, <2>2 DEF ReadLock
<1>7. CASE Probe(p)
  BY <1>1, <1>7, OwnerFrame DEF Probe, Starting, Breaking, Owning, Ended
<1>8. CASE Again(p)
  BY <1>1, <1>8, OwnerFrame DEF Again, Starting, Claiming, Owning, Ended
<1>9. CASE CreateBreaker(p)
  BY <1>1, <1>9, OwnerFrame DEF CreateBreaker, Starting, Breaking, Owning
<1>10. CASE InkBreaker(p)
  BY <1>1, <1>10, OwnerFrame DEF InkBreaker, Starting, Reclaiming, Owning
<1>11. CASE PeekBreaker(p)
  <2>1. breaker \in Pid
    BY DEF OwnerInv, ProcessOK, Pid
  <2> QED
    BY <1>1, <1>11, <2>1, OwnerFrame DEF PeekBreaker, Starting, Breaking, Owning
<1>12. CASE PokeBreaker(p)
  BY <1>1, <1>12, OwnerFrame DEF PokeBreaker, Starting, Breaking, Claiming, Owning
<1>13. CASE DropBreaker(p)
  BY <1>1, <1>13, OwnerFrame DEF DropBreaker, Starting, Breaking, Claiming, Owning
<1>14. CASE Reprobe(p)
  <2>1. CASE Alive(seen[p])
    <3>1. Goto(p, "unbreak") /\ seen' = [seen EXCEPT ![p] = seen[p]] /\ seen[p] \in Pid
      BY <1>1, <1>14, <2>1 DEF Reprobe
    <3> QED
      BY <1>1, <1>14, <3>1, OwnerFrame DEF Reprobe, Starting, Reclaiming, Owning
  <2>2. CASE ~Alive(seen[p])
    <3>1. \A q \in Proc : pc[q] \notin Owning
      BY <1>14, <2>2 DEF Reprobe, OwnerInv, LockInv, Alive, Runs
    <3>2. pc' = [pc EXCEPT ![p] = "unlock"] /\ seen' = [seen EXCEPT ![p] = Nobody]
          /\ UNCHANGED <<lock, breaker, sock>>
      BY <1>14, <2>2 DEF Reprobe, Goto
    <3> QED
      BY <3>1, <3>2 DEF OwnerInv, ProcessOK, LockInv, SockInv, Owning, Starting, Reclaiming, Pid
  <2> QED
    BY <2>1, <2>2
<1>15. CASE UnlinkLock(p)
  BY <1>15
  DEF UnlinkLock, OwnerInv, ProcessOK, LockInv, SockInv, Goto, Owning, Starting, Reclaiming, Pid
<1>16. CASE UnlinkSock(p)
  BY <1>16
  DEF UnlinkSock, OwnerInv, ProcessOK, LockInv, SockInv, Goto, Owning, Starting, Reclaiming, Pid
<1>17. CASE Unbreak(p)
  BY <1>1, <1>17, OwnerFrame DEF Unbreak, Starting, Claiming, Owning, Ended
<1>18. CASE Reap(p)
  BY <1>18 DEF Reap, OwnerInv, ProcessOK, LockInv, SockInv, Goto, Owning, Pid
<1>19. CASE Bind(p)
  BY <1>19 DEF Bind, OwnerInv, ProcessOK, LockInv, SockInv, Goto, Owning, Pid
<1>20. CASE Close(p)
  BY <1>1, <1>20, OwnerFrame DEF Close, Owning
<1>21. CASE Unbind(p)
  BY <1>21 DEF Unbind, OwnerInv, ProcessOK, LockInv, SockInv, Goto, Owning, Pid
<1>22. CASE Release(p)
  BY <1>22, SingleAssumption
  DEF Release, OwnerInv, ProcessOK, LockInv, SockInv, Goto, Owning, Ended, Pid
<1> QED
  BY <1>2, <1>3, <1>4, <1>5, <1>6, <1>7, <1>8, <1>9, <1>10, <1>11, <1>12, <1>13, <1>14, <1>15,
     <1>16, <1>17, <1>18, <1>19, <1>20, <1>21, <1>22
  DEF Proceed

LEMMA WithoutClients == [OwnerNext]_processes => [ProcessStep]_processes
  BY DEF OwnerNext, ProcessStep, Start, Spawned

LEMMA WithClients == [SpawnNext]_allVars => [ProcessStep]_processes
<1> SUFFICES ASSUME SpawnNext PROVE [ProcessStep]_processes
  BY DEF allVars
<1>1. CASE \E c \in Caller : Dial(c) \/ Hangup(c) \/ FirstConnect(c) \/ WaitConnect(c)
  BY <1>1 DEF Dial, Hangup, FirstConnect, WaitConnect
<1>2. ASSUME NEW c \in Caller, NEW p \in Proc, EnsureSpawn(c, p)
      PROVE  [ProcessStep]_processes
  BY <1>2 DEF EnsureSpawn, ProcessStep, Spawned, processes
<1>3. CASE OwnerNext
  BY <1>3, WithoutClients
<1> QED
  BY <1>1, <1>2, <1>3 DEF SpawnNext, DialStep

(* As long as nobody takes the lock over while another process unlinks, the *)
(* files and the processes agree.                                           *)
THEOREM OwnersAgree == OwnerSpec \/ SpawnSpec => <>TakeoverRace \/ []OwnerInv
<1>1. SpawnInit => OwnerInit
  BY DEF SpawnInit
<1>2. OwnerSpec => OwnerInit /\ [][ProcessStep]_processes
  BY WithoutClients, PTL DEF OwnerSpec
<1>3. SpawnSpec => OwnerInit /\ [][ProcessStep]_processes
  BY <1>1, WithClients, PTL DEF SpawnSpec
<1>4. OwnerInit /\ [][ProcessStep]_processes => <>TakeoverRace \/ []OwnerInv
  BY OwnerInvInit, OwnerStep, PTL
<1> QED
  BY <1>2, <1>3, <1>4

(* uds.ts:183-263: two processes never own the socket together, as long as  *)
(* nobody takes the free lock while another process is about to unlink what *)
(* it read, whether processes are started by hand or by racing clients.     *)
THEOREM OneProcessOwns == OwnerSpec \/ SpawnSpec => OneOwner
<1> DEFINE One == \A p, q \in Proc : pc[p] \in Owning /\ pc[q] \in Owning => p = q
<1>1. OwnerInv => One
  BY DEF OwnerInv, LockInv
<1> HIDE DEF One
<1>2. <>TakeoverRace \/ []OwnerInv => <>TakeoverRace \/ []One
  BY <1>1, PTL
<1> QED
  BY <1>2, OwnersAgree DEF OneOwner, One

(* uds.ts:222-261: nobody unlinks or binds over the socket of the daemon    *)
(* that listens, under the same condition.                                  *)
THEOREM TheSocketIsTheDaemons == OwnerSpec \/ SpawnSpec => SocketReachesDaemon
<1> DEFINE Reaches == \A p \in Proc : pc[p] = "listening" => sock = p
<1>1. OwnerInv => Reaches
  BY DEF OwnerInv, SockInv
<1> HIDE DEF Reaches
<1>2. <>TakeoverRace \/ []OwnerInv => <>TakeoverRace \/ []Reaches
  BY <1>1, PTL
<1> QED
  BY <1>2, OwnersAgree DEF SocketReachesDaemon, Reaches
-----------------------------------------------------------------------------
(* A change that was applied is in force. *)

Specs == Nat \cup {NotListed}
Registries == [Name -> Nat] \cup {Closed}
CallType ==
    [pc : {"idle", "view", "lock", "npm", "reload", "rebuild", "done", "failed"},
     op : {"none", "add", "remove", "update"}, name : Name, spec : Nat,
     want : [Name -> Specs], applied : BOOLEAN]
BodyType ==
    [pc : {"none", "import", "list", "check", "park", "end"}, names : SUBSET Name,
     next : Registries, sees : BOOLEAN]
ExtensionsOK ==
    /\ settings \in [exists : BOOLEAN, spec : [Name -> Specs]]
    /\ pkg \in [Name -> Nat] /\ latest \in Nat \ {0}
    /\ boot \in [pc : {"start", "npm", "reconcile", "install", "done"}, want : [Name -> Specs]]
    /\ call \in [Call -> CallType]
    /\ cache \in [Name -> Nat] /\ opens \in Seq(Call \cup {"open"}) /\ body \in BodyType
    /\ handle \in Registries /\ engine \in Registries

(* What the queue of registry loads holds: the open of the project, then    *)
(* the reloads, each of a call that waits for it. What the head has read of *)
(* the disk can be imported.                                                *)
OpensInv ==
    /\ opens # <<>> \/ IsOpen => boot.pc = "done"
    /\ Running => IsOpen
    /\ ~IsOpen => Len(opens) <= 1 /\ \A i \in 1..Len(opens) : opens[i] = "open"
    /\ IsOpen => \A i \in 1..Len(opens) : opens[i] \in Call /\ call[opens[i]].pc = "rebuild"
    /\ \A i, j \in 1..Len(opens) : opens[i] = opens[j] => i = j
    /\ \A c \in Call : call[c].applied => call[c].pc = "done"
    /\ opens = <<>> => body.pc = "none"
    /\ body.pc = "import" => \A n \in body.names : pkg[n] > 0
    /\ body.pc \in {"list", "check", "park", "end"} => body.next \in [Name -> Nat]

(* A registry has what the disk has to offer.                               *)
Fresh(registry) == \A n \in Name : registry[n] > 0 <=> n \in ResolveEntries
BodyFresh == IF body.pc = "import" THEN body.names = ResolveEntries ELSE Fresh(body.next)
(* Somebody has changed the disk and still has to reload, or never did.     *)
Owed ==
    \E c \in Call : call[c].pc = "reload" \/ (call[c].pc = "done" /\ ~call[c].applied)

(* What the head of the queue has read, and what is in force when nobody    *)
(* loads anything, is what the disk has, unless somebody behind reads it    *)
(* again or owes that.                                                      *)
ForceInv ==
    ~failed =>
        /\ body.pc # "none" => BodyFresh \/ Len(opens) > 1 \/ Owed
        /\ IsOpen /\ opens = <<>> => Fresh(IF Running THEN engine ELSE handle) \/ Owed

ExtensionsInv == ExtensionsOK /\ OpensInv /\ ForceInv

-----------------------------------------------------------------------------
(* The values the steps work with are of their types.                       *)
LEMMA Values ==
    /\ None \in [Name -> Specs] /\ DefaultPackages \in [Name -> Specs]
    /\ Job \in Name /\ Floating \in Nat /\ NotListed \in Specs
    /\ Floating # NotListed /\ NotListed \notin Nat /\ Nat \subseteq Specs
    /\ Closed \in Registries /\ Closed \notin [Name -> Nat]
    /\ Idle \in BodyType
    /\ \A p \in {"idle", "reload", "done", "failed"}, b \in BOOLEAN : Answered(p, b) \in CallType
<1>1. Job \in Name /\ Default \in Name
  BY ExtensionAssumption
<1>2. Floating \in Nat /\ NotListed \notin Nat /\ NotListed \in Specs /\ Nat \subseteq Specs
  BY DEF Floating, NotListed, Specs
<1>3. None \in [Name -> Specs]
  BY <1>2 DEF None
<1>4. DefaultPackages \in [Name -> Specs]
  BY <1>2, <1>3 DEF DefaultPackages
<1>5. Closed \in Registries
  BY DEF Registries
<1>6. Closed \notin [Name -> Nat]
  BY <1>1 DEF Closed
<1>7. Idle \in BodyType
  BY <1>5 DEF Idle, BodyType
<1>8. ASSUME NEW p \in {"idle", "reload", "done", "failed"}, NEW b \in BOOLEAN
      PROVE  Answered(p, b) \in CallType
  BY <1>1, <1>2, <1>3 DEF Answered, CallType
<1> QED
  BY <1>1, <1>2, <1>3, <1>4, <1>5, <1>6, <1>7, <1>8

(* npm install leaves a version where there was one.                        *)
LEMMA Installs ==
    ASSUME pkg \in [Name -> Nat], latest \in Nat \ {0}, NEW want \in [Name -> Specs], Install(want)
    PROVE  pkg' \in [Name -> Nat] /\ \A n \in Name : pkg[n] > 0 => pkg'[n] > 0
<1>1. ASSUME NEW n \in Name, want[n] # NotListed
      PROVE  Version(n, want[n]) \in Nat /\ Version(n, want[n]) > 0
  BY <1>1 DEF Version, Floating, NotListed, Specs
<1>2. pkg' = [n \in Name |-> IF want[n] = NotListed THEN pkg[n] ELSE Version(n, want[n])]
  BY DEF Install
<1> QED
  BY <1>1, <1>2

(* What the calls put together is of its type.                              *)
LEMMA Wanted ==
    ASSUME ExtensionsOK
    PROVE  /\ Missing \in [Name -> Specs] /\ Candidates \in [Name -> Specs]
           /\ \A checked, failing : Stale(checked, failing) \in [Name -> Specs]
           /\ ResolveEntries \subseteq Name
           /\ \A n \in ResolveEntries : pkg[n] > 0
           /\ \A n \in Name, v \in Specs :
                  Upsert(n, v) \in [exists : BOOLEAN, spec : [Name -> Specs]]
           /\ \A n \in Name : RemoveEntry(n) \in [exists : BOOLEAN, spec : [Name -> Specs]]
<1>1. settings \in [exists : BOOLEAN, spec : [Name -> Specs]] /\ pkg \in [Name -> Nat]
  BY DEF ExtensionsOK
<1>2. Missing \in [Name -> Specs] /\ Candidates \in [Name -> Specs]
  BY <1>1, Values DEF Missing, Candidates, InstalledVersion
<1>3. ASSUME NEW checked, NEW failing PROVE Stale(checked, failing) \in [Name -> Specs]
  BY Values DEF Stale
<1>4. ResolveEntries \subseteq Name /\ \A n \in ResolveEntries : pkg[n] > 0
  BY DEF ResolveEntries, Resolves, ResolvePackageEntries, ResolveLocalPath, DeclaresExtension
<1>5. ASSUME NEW n \in Name, NEW v \in Specs
      PROVE  Upsert(n, v) \in [exists : BOOLEAN, spec : [Name -> Specs]]
  BY <1>1 DEF Upsert
<1>6. ASSUME NEW n \in Name
      PROVE  RemoveEntry(n) \in [exists : BOOLEAN, spec : [Name -> Specs]]
  BY <1>1, <1>5, Values DEF RemoveEntry
<1> QED
  BY <1>2, <1>3, <1>4, <1>5, <1>6

LEMMA ExtensionsInvInit == Init => ExtensionsInv
<1> SUFFICES ASSUME Init PROVE ExtensionsInv
  OBVIOUS
<1>1. /\ settings \in [exists : BOOLEAN, spec : [Name -> Specs]]
      /\ pkg \in [Name -> Nat] /\ latest \in Nat \ {0}
  <2>1. /\ [n \in Name |-> Floating] \in [Name -> Specs]
        /\ \A b \in BOOLEAN, v \in [Name -> Specs] :
               [exists |-> b, spec |-> v] \in [exists : BOOLEAN, spec : [Name -> Specs]]
    BY Values
  <2>2. settings \in [exists : BOOLEAN, spec : [Name -> Specs]]
    BY <2>1, Values DEF Init
  <2>3. pkg \in [Name -> Nat]
    BY DEF Init
  <2> QED
    BY <2>2, <2>3 DEF Init
<1>2. boot \in [pc : {"start", "npm", "reconcile", "install", "done"}, want : [Name -> Specs]]
  BY Values DEF Init
<1>3. call \in [Call -> CallType] /\ \A c \in Call : call[c] = Answered("idle", FALSE)
  BY Values DEF Init
<1>4. cache \in [Name -> Nat] /\ body \in BodyType /\ handle \in Registries /\ engine \in Registries
  BY Values DEF Init
<1>5. opens = <<>> /\ body.pc = "none" /\ ~IsOpen /\ ~Running
  BY DEF Init, Idle, IsOpen, Running
<1>6. opens \in Seq(Call \cup {"open"}) /\ Len(opens) = 0
  BY <1>5
<1>7. ExtensionsOK
  BY <1>1, <1>2, <1>3, <1>4, <1>6 DEF ExtensionsOK
<1>8. OpensInv
  BY <1>3, <1>5, <1>6 DEF OpensInv, Answered
<1>9. ForceInv
  BY <1>5 DEF ForceInv
<1> QED
  BY <1>7, <1>8, <1>9 DEF ExtensionsInv

-----------------------------------------------------------------------------
(* The disk, the calls that touch it and the queue of loads stay as they    *)
(* are: what the engine does to the task.                                   *)
LEMMA TaskFrame ==
    ASSUME ExtensionsInv, UNCHANGED <<diskVars, boot, call, openVars, engine, failed>>
    PROVE  ExtensionsInv'
  BY DEF ExtensionsInv, ExtensionsOK, OpensInv, ForceInv, Fresh, BodyFresh, Owed, IsOpen, Running,
         ResolveEntries, Resolves, ResolvePackageEntries, ResolveLocalPath, DeclaresExtension,
         Listed, diskVars, openVars

(* The queue is as it was, and nothing that can be read of the disk goes    *)
(* away: what the bootstrap and the calls do.                               *)
LEMMA OpensFrame ==
    ASSUME OpensInv, UNCHANGED <<opens, body, handle, engine>>,
           opens # <<>> \/ IsOpen => boot'.pc = "done",
           \A c \in Call : call[c].pc = "rebuild" => call'[c].pc = "rebuild",
           \A c \in Call : call'[c].applied => call'[c].pc = "done",
           body.pc = "import" => \A n \in body.names : pkg[n] > 0 => pkg'[n] > 0
    PROVE  OpensInv'
  BY DEF OpensInv, IsOpen, Running

(* Whoever owed a reload still does.                                        *)
LEMMA OwedFrame ==
    ASSUME ExtensionsOK, Owed, NEW c \in Call, call[c].pc \notin {"reload", "done"},
           \A d \in Call \ {c} : call'[d] = call[d]
    PROVE  Owed'
  BY DEF Owed

(* Nothing is on disk that was not, or somebody owes it.                    *)
LEMMA ForceFrame ==
    ASSUME ForceInv, UNCHANGED <<opens, body, handle, engine, failed>>,
           Owed' \/ (UNCHANGED <<settings, pkg>> /\ ~Owed)
    PROVE  ForceInv'
  BY DEF ForceInv, Fresh, BodyFresh, IsOpen, Running, ResolveEntries, Resolves,
         ResolvePackageEntries, ResolveLocalPath, DeclaresExtension, Listed

LEMMA PublishStep == ExtensionsInv /\ Publish => ExtensionsInv'
<1> SUFFICES ASSUME ExtensionsInv, Publish PROVE ExtensionsInv'
  OBVIOUS
<1>1. ExtensionsOK'
  BY DEF Publish, ExtensionsInv, ExtensionsOK, openVars
<1>2. OpensInv'
  BY OpensFrame DEF Publish, ExtensionsInv, OpensInv, openVars
<1>3. Owed => Owed'
  BY DEF Publish, Owed
<1>4. ForceInv'
  BY <1>3, ForceFrame DEF Publish, ExtensionsInv, openVars
<1> QED
  BY <1>1, <1>2, <1>4 DEF ExtensionsInv

(* The bootstrap ends before a project is opened.                           *)
LEMMA BootstrapStep == ExtensionsInv /\ Bootstrap => ExtensionsInv'
<1> SUFFICES ASSUME ExtensionsInv, Bootstrap PROVE ExtensionsInv'
  OBVIOUS
<1>1. boot.pc # "done" /\ UNCHANGED <<latest, call, openVars, engine, failed>>
  BY DEF Bootstrap, GlobalBootstrap, Bootstrapped, ReconcileStarts, Reconciled, BootOnly
<1>2. opens = <<>> /\ ~IsOpen /\ body.pc = "none"
  BY <1>1 DEF ExtensionsInv, OpensInv
<1>3. /\ settings' \in [exists : BOOLEAN, spec : [Name -> Specs]] /\ pkg' \in [Name -> Nat]
      /\ boot' \in [pc : {"start", "npm", "reconcile", "install", "done"}, want : [Name -> Specs]]
  <2> DEFINE Boots == [pc : {"start", "npm", "reconcile", "install", "done"},
                       want : [Name -> Specs]]
             Listing == [exists : BOOLEAN, spec : [Name -> Specs]]
  <2>1. /\ settings \in Listing /\ pkg \in [Name -> Nat] /\ boot \in Boots
        /\ latest \in Nat \ {0} /\ boot.want \in [Name -> Specs]
    BY DEF ExtensionsInv, ExtensionsOK
  <2>2. None \in [Name -> Specs] /\ DefaultPackages \in [Name -> Specs]
        /\ Missing \in [Name -> Specs]
    BY Values, Wanted DEF ExtensionsInv
  <2>3. Install(boot.want) => pkg' \in [Name -> Nat]
    BY <2>1, Installs
  <2>4. CASE GlobalBootstrap
    BY <2>1, <2>2, <2>4 DEF GlobalBootstrap
  <2>5. CASE Bootstrapped
    <3>1. [exists |-> TRUE, spec |-> boot.want] \in Listing
      BY <2>1
    <3> QED
      BY <2>1, <2>2, <2>3, <2>5, <3>1 DEF Bootstrapped
  <2>6. CASE ReconcileStarts
    BY <2>1, <2>2, <2>6 DEF ReconcileStarts
  <2>7. CASE Reconciled
    BY <2>1, <2>2, <2>3, <2>7 DEF Reconciled
  <2> QED
    BY <2>4, <2>5, <2>6, <2>7 DEF Bootstrap
<1>4. ExtensionsOK'
  BY <1>1, <1>3 DEF ExtensionsInv, ExtensionsOK, openVars
<1>5. OpensInv'
  BY <1>1, <1>2, OpensFrame DEF ExtensionsInv, OpensInv, openVars
<1>6. ForceInv'
  BY <1>1, <1>2 DEF ForceInv, IsOpen, openVars
<1> QED
  BY <1>4, <1>5, <1>6 DEF ExtensionsInv

(* A call that goes on: its record and what it does to the disk are enough  *)
(* to see that everything holds.                                            *)
LEMMA CallFrame ==
    ASSUME ExtensionsInv, NEW c \in Call, NEW r \in CallType, call' = [call EXCEPT ![c] = r],
           call[c].pc \notin {"reload", "rebuild", "done"}, r.applied => r.pc = "done",
           settings' \in [exists : BOOLEAN, spec : [Name -> Specs]], pkg' \in [Name -> Nat],
           \A n \in Name : pkg[n] > 0 => pkg'[n] > 0,
           UNCHANGED <<latest, boot, openVars, engine, failed>>,
           UNCHANGED <<settings, pkg>> \/ r.pc = "reload" \/ (r.pc = "done" /\ ~r.applied)
    PROVE  ExtensionsInv'
<1>1. /\ call' \in [Call -> CallType] /\ call'[c] = r
      /\ \A d \in Call \ {c} : call'[d] = call[d]
  BY DEF ExtensionsInv, ExtensionsOK
<1>2. ExtensionsOK'
  BY <1>1 DEF ExtensionsInv, ExtensionsOK, openVars
<1>3. body.pc = "import" => body.names \subseteq Name
  BY DEF ExtensionsInv, ExtensionsOK, BodyType
<1>4. OpensInv'
  BY <1>1, <1>3, OpensFrame DEF ExtensionsInv, OpensInv, openVars
<1>5. r.pc = "reload" \/ (r.pc = "done" /\ ~r.applied) => Owed'
  BY <1>1 DEF Owed
<1>6. Owed => Owed'
  BY <1>1, OwedFrame DEF ExtensionsInv
<1>7. ForceInv'
  BY <1>5, <1>6, ForceFrame DEF ExtensionsInv, openVars
<1> QED
  BY <1>2, <1>4, <1>7 DEF ExtensionsInv

LEMMA RequestStep == \A c \in Call : ExtensionsInv /\ Request(c) => ExtensionsInv'
<1> SUFFICES ASSUME NEW c \in Call, ExtensionsInv, Request(c) PROVE ExtensionsInv'
  OBVIOUS
<1>1. call[c].pc = "idle" /\ UNCHANGED <<settings, pkg, latest, boot, openVars, engine, failed>>
  BY DEF Request, CallOnly
<1>2. /\ settings \in [exists : BOOLEAN, spec : [Name -> Specs]] /\ pkg \in [Name -> Nat]
      /\ Candidates \in [Name -> Specs]
  BY Wanted DEF ExtensionsInv, ExtensionsOK
<1>3. ASSUME NEW op \in {"add", "remove", "update"}, NEW n \in Name, NEW v \in Nat,
             NEW want \in [Name -> Specs], NEW to \in {"lock", "view"},
             Called(c, op, n, v, want, to)
      PROVE  ExtensionsInv'
  <2> DEFINE r == [op |-> op, name |-> n, spec |-> v, applied |-> FALSE, want |-> want, pc |-> to]
  <2>1. r \in CallType /\ ~r.applied /\ call' = [call EXCEPT ![c] = r]
    BY <1>3 DEF Called, CallType
  <2> HIDE DEF r
  <2> QED
    BY <1>1, <1>2, <2>1, CallFrame
<1>4. ASSUME NEW n \in Name, NEW v \in {Floating, StepUntil}, InstallExtension(c, n, v)
      PROVE  ExtensionsInv'
  <2>1. v \in Nat /\ [None EXCEPT ![n] = v] \in [Name -> Specs]
    BY ExtensionAssumption, Values
  <2> QED
    BY <1>3, <1>4, <2>1 DEF InstallExtension
<1>5. ASSUME NEW n \in Name, RemoveExtension(c, n) PROVE ExtensionsInv'
  BY <1>3, <1>5, Values DEF RemoveExtension
<1>6. ASSUME UpdateExtensions(c) PROVE ExtensionsInv'
  BY <1>2, <1>3, <1>6, Values DEF UpdateExtensions
<1> QED
  BY <1>4, <1>5, <1>6 DEF Request

LEMMA ViewStep == \A c \in Call : ExtensionsInv /\ ViewVersion(c) => ExtensionsInv'
<1> SUFFICES ASSUME NEW c \in Call, ExtensionsInv, ViewVersion(c) PROVE ExtensionsInv'
  OBVIOUS
<1>1. call[c].pc = "view" /\ UNCHANGED <<settings, pkg, latest, boot, openVars, engine, failed>>
  BY DEF ViewVersion, CallOnly
<1>2. /\ settings \in [exists : BOOLEAN, spec : [Name -> Specs]] /\ pkg \in [Name -> Nat]
      /\ call[c] \in CallType
  BY DEF ExtensionsInv, ExtensionsOK
<1>3. PICK fails \in BOOLEAN :
          call' = [call EXCEPT ![c] = IF Stale(call[c].want, fails) = None
                                      THEN Answered("done", FALSE)
                                      ELSE [@ EXCEPT !.want = Stale(call[c].want, fails),
                                                     !.pc = "lock"]]
  BY DEF ViewVersion
<1> DEFINE stale == Stale(call[c].want, fails)
<1>4. stale \in [Name -> Specs]
  BY Wanted DEF ExtensionsInv
<1> HIDE DEF stale
<1>5. CASE stale = None
  <2>1. /\ Answered("done", FALSE) \in CallType /\ ~Answered("done", FALSE).applied
        /\ Answered("done", FALSE).pc = "done"
        /\ call' = [call EXCEPT ![c] = Answered("done", FALSE)]
    BY <1>3, <1>5, Values DEF Answered, stale
  <2> QED
    BY <1>1, <1>2, <2>1, CallFrame
<1>6. CASE stale # None
  <2> DEFINE r == [call[c] EXCEPT !.want = stale, !.pc = "lock"]
  <2>1. call' = [call EXCEPT ![c] = r]
    BY <1>3, <1>6 DEF stale
  <2>2. r \in CallType /\ r.applied = call[c].applied
    BY <1>2, <1>4 DEF CallType
  <2>3. ~r.applied
    BY <1>1, <2>2 DEF ExtensionsInv, OpensInv
  <2> HIDE DEF r
  <2> QED
    BY <1>1, <1>2, <2>1, <2>2, <2>3, CallFrame
<1> QED
  BY <1>5, <1>6

LEMMA RunStep == \A c \in Call : ExtensionsInv /\ RunExclusive(c) => ExtensionsInv'
<1> SUFFICES ASSUME NEW c \in Call, ExtensionsInv, RunExclusive(c) PROVE ExtensionsInv'
  OBVIOUS
<1>1. call[c].pc = "lock" /\ UNCHANGED <<pkg, latest, boot, openVars, engine, failed>>
  BY DEF RunExclusive, CallOnly
<1>2. /\ settings \in [exists : BOOLEAN, spec : [Name -> Specs]] /\ pkg \in [Name -> Nat]
      /\ call[c] \in CallType /\ ~call[c].applied /\ Nat \subseteq Specs
  BY <1>1, Values DEF ExtensionsInv, ExtensionsOK, OpensInv
<1>3. call[c].name \in Name /\ call[c].spec \in Specs
  BY <1>2 DEF CallType
<1>4. /\ \A to \in {"reload", "failed"} :
             /\ Answered(to, FALSE) \in CallType /\ ~Answered(to, FALSE).applied
             /\ Answered(to, FALSE).pc = to
      /\ \A to : Leave(c, to) => call' = [call EXCEPT ![c] = Answered(to, FALSE)]
  BY Values DEF Answered, Leave
<1>5. CASE UNCHANGED settings /\ call' = [call EXCEPT ![c].pc = "npm"]
  <2> DEFINE r == [call[c] EXCEPT !.pc = "npm"]
  <2>1. call' = [call EXCEPT ![c] = r] /\ r \in CallType /\ ~r.applied
    BY <1>2, <1>5 DEF CallType
  <2> HIDE DEF r
  <2> QED
    BY <1>1, <1>2, <1>5, <2>1, CallFrame
<1>6. CASE RemoveFromSettings(c)
  <2>1. settings' \in [exists : BOOLEAN, spec : [Name -> Specs]]
    BY <1>3, <1>6, Wanted DEF RemoveFromSettings, ExtensionsInv
  <2> QED
    BY <1>1, <1>2, <1>4, <1>6, <2>1, CallFrame DEF RemoveFromSettings
<1>7. CASE settings' = Upsert(call[c].name, call[c].spec) /\ Leave(c, "reload")
  <2>1. settings' \in [exists : BOOLEAN, spec : [Name -> Specs]]
    BY <1>3, <1>7, Wanted DEF ExtensionsInv
  <2> QED
    BY <1>1, <1>2, <1>4, <1>7, <2>1, CallFrame
<1>8. CASE UNCHANGED settings /\ Leave(c, "failed")
  BY <1>1, <1>2, <1>4, <1>8, CallFrame
<1> QED
  BY <1>5, <1>6, <1>7, <1>8 DEF RunExclusive

LEMMA NpmStep == \A c \in Call : ExtensionsInv /\ NpmDone(c) => ExtensionsInv'
<1> SUFFICES ASSUME NEW c \in Call, ExtensionsInv, NpmDone(c) PROVE ExtensionsInv'
  OBVIOUS
<1>1. call[c].pc = "npm" /\ UNCHANGED <<latest, boot, openVars, engine, failed>>
  BY DEF NpmDone, CallOnly
<1>2. /\ settings \in [exists : BOOLEAN, spec : [Name -> Specs]] /\ pkg \in [Name -> Nat]
      /\ latest \in Nat \ {0} /\ call[c] \in CallType /\ Nat \subseteq Specs
  BY Values DEF ExtensionsInv, ExtensionsOK
<1>3. call[c].name \in Name /\ call[c].spec \in Specs /\ call[c].want \in [Name -> Specs]
  BY <1>2 DEF CallType
<1>4. /\ \A to \in {"reload", "done", "failed"} :
             /\ Answered(to, FALSE) \in CallType /\ ~Answered(to, FALSE).applied
             /\ Answered(to, FALSE).pc = to
      /\ \A to : Leave(c, to) => call' = [call EXCEPT ![c] = Answered(to, FALSE)]
  BY Values DEF Answered, Leave
<1>5. CASE Install(call[c].want) /\ settings' = Upsert(call[c].name, call[c].spec)
           /\ Leave(c, "reload")
  <2>1. settings' \in [exists : BOOLEAN, spec : [Name -> Specs]]
    BY <1>3, <1>5, Wanted DEF ExtensionsInv
  <2>2. pkg' \in [Name -> Nat] /\ \A n \in Name : pkg[n] > 0 => pkg'[n] > 0
    BY <1>2, <1>3, <1>5, Installs
  <2> QED
    BY <1>1, <1>2, <1>4, <1>5, <2>1, <2>2, CallFrame
<1>6. CASE Install(call[c].want) /\ Leave(c, "done") /\ UNCHANGED settings
  <2>1. pkg' \in [Name -> Nat] /\ \A n \in Name : pkg[n] > 0 => pkg'[n] > 0
    BY <1>2, <1>3, <1>6, Installs
  <2> QED
    BY <1>1, <1>2, <1>4, <1>6, <2>1, CallFrame
<1>7. CASE Leave(c, "failed") /\ UNCHANGED <<settings, pkg>>
  BY <1>1, <1>2, <1>4, <1>7, CallFrame
<1> QED
  BY <1>5, <1>6, <1>7 DEF NpmDone

-----------------------------------------------------------------------------
(* The queue of loads: a caller joins it at the end, the head leaves it.    *)
LEMMA Joins ==
    ASSUME opens \in Seq(Call \cup {"open"}), NEW o \in Call \cup {"open"},
           opens' = Append(opens, o)
    PROVE  /\ opens' \in Seq(Call \cup {"open"}) /\ opens' # <<>>
           /\ Len(opens) \in Nat /\ Len(opens') = Len(opens) + 1
           /\ opens'[Len(opens')] = o /\ \A i \in 1..Len(opens) : opens'[i] = opens[i]
  BY AppendProperties, LenProperties

LEMMA Leaves ==
    ASSUME opens \in Seq(Call \cup {"open"}), opens # <<>>, opens' = Tail(opens)
    PROVE  /\ opens' \in Seq(Call \cup {"open"})
           /\ Len(opens) \in Nat \ {0} /\ Len(opens') = Len(opens) - 1
           /\ Head(opens) = opens[1] /\ Head(opens) \in Call \cup {"open"}
           /\ \A i \in 1..Len(opens') : i + 1 \in 1..Len(opens) /\ opens'[i] = opens[i + 1]
           /\ opens' = <<>> => Len(opens) = 1
<1>1. Len(opens) \in Nat \ {0}
  BY LenProperties, EmptySeq
<1>2. /\ Tail(opens) \in Seq(Call \cup {"open"}) /\ Len(Tail(opens)) = Len(opens) - 1
      /\ Head(opens) = opens[1] /\ Head(opens) \in Call \cup {"open"}
      /\ \A i \in 1..Len(opens) - 1 : Tail(opens)[i] = opens[i + 1]
  BY HeadTailProperties, ElementOfSeq, <1>1
<1>3. \A i \in 1..Len(opens') : i + 1 \in 1..Len(opens) /\ opens'[i] = opens[i + 1]
  BY <1>1, <1>2
<1>4. opens' = <<>> => Len(opens') = 0
  OBVIOUS
<1> QED
  BY <1>1, <1>2, <1>3, <1>4

LEMMA OpenStep == ExtensionsInv /\ Open => ExtensionsInv'
<1> SUFFICES ASSUME ExtensionsInv, Open PROVE ExtensionsInv'
  OBVIOUS
<1>1. /\ opens \in Seq(Call \cup {"open"}) /\ boot.pc = "done" /\ ~IsOpen /\ DOMAIN opens = 1..Len(opens)
      /\ opens' = Append(opens, "open")
      /\ UNCHANGED <<settings, pkg, latest, boot, call, cache, body, handle, engine, failed>>
  BY DEF Open, OpenOnly, diskVars, ExtensionsInv, ExtensionsOK
<1>2. /\ opens' \in Seq(Call \cup {"open"}) /\ opens' # <<>>
      /\ Len(opens) \in Nat /\ Len(opens') = Len(opens) + 1
      /\ opens'[Len(opens')] = "open" /\ \A i \in 1..Len(opens) : opens'[i] = opens[i]
  BY <1>1, Joins
<1>3. Len(opens) = 0
  BY <1>1, <1>2 DEF Open, ExtensionsInv, OpensInv
<1>4. opens = <<>>
  BY <1>1, <1>3, EmptySeq
<1>5. ExtensionsOK'
  BY <1>1, <1>2 DEF ExtensionsInv, ExtensionsOK
<1>6. OpensInv'
  BY <1>1, <1>2, <1>3, <1>4 DEF ExtensionsInv, OpensInv, IsOpen, Running
<1>7. ForceInv'
  BY <1>1, <1>4 DEF ExtensionsInv, OpensInv, ForceInv, IsOpen
<1> QED
  BY <1>5, <1>6, <1>7 DEF ExtensionsInv

LEMMA RebuildStep == \A c \in Call : ExtensionsInv /\ RebuildRegistry(c) => ExtensionsInv'
<1> SUFFICES ASSUME NEW c \in Call, ExtensionsInv, RebuildRegistry(c) PROVE ExtensionsInv'
  OBVIOUS
<1>1. /\ call[c].pc = "reload" /\ ~call[c].applied
      /\ UNCHANGED <<settings, pkg, latest, boot, cache, body, handle, engine, failed>>
  BY DEF RebuildRegistry, OpenOnly, diskVars, ExtensionsInv, OpensInv
<1>2. call \in [Call -> CallType] /\ opens \in Seq(Call \cup {"open"})
  BY DEF ExtensionsInv, ExtensionsOK
<1>3. CASE IsOpen
  <2> DEFINE r == [call[c] EXCEPT !.pc = "rebuild"]
  <2>1. opens' = Append(opens, c) /\ call' = [call EXCEPT ![c] = r]
    BY <1>3 DEF RebuildRegistry
  <2>2. r \in CallType /\ r.pc = "rebuild" /\ ~r.applied
    BY <1>1, <1>2 DEF CallType
  <2> HIDE DEF r
  <2>3. /\ opens' \in Seq(Call \cup {"open"}) /\ opens' # <<>>
        /\ Len(opens) \in Nat /\ Len(opens') = Len(opens) + 1
        /\ opens'[Len(opens')] = c /\ \A i \in 1..Len(opens) : opens'[i] = opens[i]
    BY <1>2, <2>1, Joins
  <2>4. /\ call' \in [Call -> CallType] /\ call'[c] = r
        /\ \A d \in Call \ {c} : call'[d] = call[d]
    BY <1>2, <2>1, <2>2
  <2>5. \A i \in 1..Len(opens) : opens[i] \in Call \ {c} /\ call[opens[i]].pc = "rebuild"
    BY <1>1, <1>3 DEF ExtensionsInv, OpensInv
  <2>6. ExtensionsOK'
    BY <1>1, <2>3, <2>4 DEF ExtensionsInv, ExtensionsOK
  <2>7. OpensInv'
    <3>1. \A i \in 1..Len(opens') : opens'[i] \in Call /\ call'[opens'[i]].pc = "rebuild"
      BY <2>2, <2>3, <2>4, <2>5
    <3>2. \A i, j \in 1..Len(opens') : opens'[i] = opens'[j] => i = j
      BY <2>3, <2>5 DEF ExtensionsInv, OpensInv
    <3>3. \A d \in Call : call'[d].applied => call'[d].pc = "done"
      BY <2>2, <2>4 DEF ExtensionsInv, OpensInv
    <3>4. IsOpen' /\ boot'.pc = "done" /\ (Running' => IsOpen')
      BY <1>1, <1>3 DEF ExtensionsInv, OpensInv, IsOpen
    <3>5. /\ body'.pc = "import" => \A n \in body'.names : pkg'[n] > 0
          /\ body'.pc \in {"list", "check", "park", "end"} => body'.next \in [Name -> Nat]
      BY <1>1 DEF ExtensionsInv, OpensInv
    <3> QED
      BY <2>3, <3>1, <3>2, <3>3, <3>4, <3>5 DEF OpensInv
  <2>8. ForceInv'
    <3>1. opens = <<>> \/ Len(opens) > 0
      BY <1>2, <2>3, EmptySeq
    <3> QED
      BY <1>1, <2>3, <3>1 DEF ExtensionsInv, OpensInv, ForceInv
  <2> QED
    BY <2>6, <2>7, <2>8 DEF ExtensionsInv
<1>4. CASE ~IsOpen
  <2> DEFINE r == [call[c] EXCEPT !.pc = "done"]
  <2>1. opens' = opens /\ call' = [call EXCEPT ![c] = r]
    BY <1>4 DEF RebuildRegistry
  <2>2. r \in CallType /\ r.pc = "done" /\ ~r.applied
    BY <1>1, <1>2 DEF CallType
  <2> HIDE DEF r
  <2>3. /\ call' \in [Call -> CallType] /\ call'[c] = r
        /\ \A d \in Call \ {c} : call'[d] = call[d]
    BY <1>2, <2>1, <2>2
  <2>4. ExtensionsOK'
    BY <1>1, <2>1, <2>3 DEF ExtensionsInv, ExtensionsOK
  <2>5. OpensInv'
    BY <1>1, <2>1, <2>2, <2>3, OpensFrame DEF ExtensionsInv, OpensInv
  <2>6. ForceInv'
    BY <1>1, <2>1, <2>2, <2>3, ForceFrame DEF ExtensionsInv, Owed
  <2> QED
    BY <2>4, <2>5, <2>6 DEF ExtensionsInv
<1> QED
  BY <1>3, <1>4

(* The head goes on with what it has read.                                  *)
LEMMA BodyFrame ==
    ASSUME ExtensionsInv, opens # <<>>, body' \in BodyType,
           UNCHANGED <<diskVars, boot, call, cache, opens, handle, engine, failed>>,
           body'.pc = "import" => body'.names = ResolveEntries,
           body'.pc \in {"list", "check", "park", "end"} =>
               body.pc \in {"list", "check", "park", "end"} /\ body'.next = body.next,
           body'.pc # "none"
    PROVE  ExtensionsInv'
<1>1. ExtensionsOK'
  BY DEF ExtensionsInv, ExtensionsOK, diskVars
<1>2. OpensInv'
  BY Wanted DEF ExtensionsInv, OpensInv, IsOpen, Running, diskVars
<1>3. body'.pc \in {"import", "list", "check", "park", "end"}
  BY DEF BodyType
<1>4. ResolveEntries' = ResolveEntries
  BY DEF ResolveEntries, Resolves, ResolvePackageEntries, ResolveLocalPath, DeclaresExtension,
         Listed, diskVars
<1>5. BodyFresh' \/ (body.pc # "none" /\ (BodyFresh => BodyFresh'))
  BY <1>3, <1>4 DEF BodyFresh, Fresh
<1>6. Owed => Owed'
  BY DEF Owed
<1>7. ForceInv'
  BY <1>5, <1>6 DEF ExtensionsInv, ForceInv
<1> QED
  BY <1>1, <1>2, <1>7 DEF ExtensionsInv

LEMMA ReadingSteps == ExtensionsInv /\ (Resolve \/ ListInFlight \/ CheckLive \/ GuardParks) => ExtensionsInv'
<1> SUFFICES ASSUME ExtensionsInv, Resolve \/ ListInFlight \/ CheckLive \/ GuardParks
             PROVE  ExtensionsInv'
  OBVIOUS
<1>1. /\ opens # <<>> /\ UNCHANGED <<diskVars, boot, call, cache, opens, handle, engine, failed>>
  BY DEF Resolve, ListInFlight, CheckLive, GuardParks, BodyAt, OpenOnly
<1>2. body \in BodyType /\ Idle \in BodyType /\ ResolveEntries \subseteq Name
  BY Values, Wanted DEF ExtensionsInv, ExtensionsOK
<1>3. CASE Resolve
  <2> DEFINE b == [Idle EXCEPT !.pc = "import", !.names = ResolveEntries]
  <2>1. body' = b /\ b \in BodyType /\ b.pc = "import" /\ b.names = ResolveEntries
    BY <1>2, <1>3 DEF Resolve, BodyType
  <2> HIDE DEF b
  <2> QED
    BY <1>1, <2>1, BodyFrame
<1>4. ASSUME NEW to \in {"check", "park", "end"}, NEW sees \in BOOLEAN,
             body' = [body EXCEPT !.pc = to, !.sees = sees],
             body.pc \in {"list", "check", "park"}
      PROVE  ExtensionsInv'
  <2>1. body' \in BodyType /\ body'.pc = to /\ body'.next = body.next
    BY <1>2, <1>4 DEF BodyType
  <2> QED
    BY <1>1, <1>4, <2>1, BodyFrame
<1>5. CASE ListInFlight
  <2> DEFINE sees == task.status = "work" /\ ~ValidPosition(body.next)
  <2>1. body' = [body EXCEPT !.pc = "check", !.sees = sees] /\ sees \in BOOLEAN
    BY <1>5 DEF ListInFlight
  <2> HIDE DEF sees
  <2> QED
    BY <1>4, <1>5, <2>1 DEF ListInFlight, BodyAt
<1>6. CASE CheckLive
  <2>1. PICK to \in {"park", "end"} : body' = [body EXCEPT !.sees = FALSE, !.pc = to]
    BY <1>6 DEF CheckLive
  <2>2. body' = [body EXCEPT !.pc = to, !.sees = FALSE]
    BY <1>2, <2>1 DEF BodyType
  <2> QED
    BY <1>4, <1>6, <2>2 DEF CheckLive, BodyAt
<1>7. CASE GuardParks
  <2>1. body' = [body EXCEPT !.pc = "end", !.sees = body.sees] /\ body.sees \in BOOLEAN
    BY <1>2, <1>7 DEF GuardParks, BodyType
  <2> QED
    BY <1>4, <1>7, <2>1 DEF GuardParks, BodyAt
<1> QED
  BY <1>3, <1>5, <1>6, <1>7

(* What was resolved is imported: the registry has it and nothing else.     *)
LEMMA LoadStep == ExtensionsInv /\ LoadProjectRegistry => ExtensionsInv'
<1> SUFFICES ASSUME ExtensionsInv, LoadProjectRegistry PROVE ExtensionsInv'
  OBVIOUS
<1>1. /\ opens # <<>> /\ body.pc = "import" /\ cache' = Imported(body.names)
      /\ body' = [body EXCEPT !.pc = "list", !.names = {},
                              !.next = Registry(body.names, cache')]
      /\ handle' = IF Opens THEN handle ELSE body'.next
      /\ UNCHANGED <<settings, pkg, latest, boot, call, opens, engine, failed>>
  BY DEF LoadProjectRegistry, BodyAt, OpenOnly, diskVars
<1>2. /\ cache \in [Name -> Nat] /\ pkg \in [Name -> Nat] /\ body \in BodyType
      /\ body.names \subseteq Name /\ \A n \in body.names : pkg[n] > 0
      /\ opens \in Seq(Call \cup {"open"})
  BY <1>1 DEF ExtensionsInv, ExtensionsOK, OpensInv, BodyType
<1>3. cache' \in [Name -> Nat] /\ \A n \in body.names : cache'[n] > 0
  BY <1>1, <1>2 DEF Imported
<1> DEFINE next == Registry(body.names, cache')
<1>4. next \in [Name -> Nat] /\ \A n \in Name : next[n] > 0 <=> n \in body.names
  BY <1>2, <1>3 DEF Registry
<1> HIDE DEF next
<1>5. body' \in BodyType /\ body'.pc = "list" /\ body'.next = next
  BY <1>1, <1>2, <1>4 DEF BodyType, Registries, next
<1>6. handle' \in Registries
  BY <1>1, <1>4, <1>5 DEF ExtensionsInv, ExtensionsOK, Registries
<1>7. ExtensionsOK'
  BY <1>1, <1>3, <1>5, <1>6 DEF ExtensionsInv, ExtensionsOK
<1>8. IsOpen' <=> IsOpen
  <2>1. CASE Opens
    BY <1>1, <2>1 DEF IsOpen
  <2>2. CASE ~Opens
    <3>1. Len(opens) \in Nat \ {0} /\ Head(opens) = opens[1]
      BY <1>1, <1>2, LenProperties, EmptySeq, HeadTailProperties
    <3>2. IsOpen
      BY <2>2, <3>1 DEF ExtensionsInv, OpensInv, Opens
    <3>3. IsOpen'
      BY <1>1, <1>4, <1>5, <2>2, Values DEF IsOpen
    <3> QED
      BY <3>2, <3>3
  <2> QED
    BY <2>1, <2>2
<1>9. OpensInv'
  BY <1>1, <1>4, <1>5, <1>8 DEF ExtensionsInv, OpensInv, Running
<1>10. BodyFresh => BodyFresh'
  <2>1. ResolveEntries' = ResolveEntries /\ ResolveEntries \subseteq Name
    BY <1>1, Wanted DEF ResolveEntries, Resolves, ResolvePackageEntries, ResolveLocalPath,
       DeclaresExtension, Listed, ExtensionsInv
  <2> QED
    BY <1>1, <1>4, <1>5, <2>1 DEF BodyFresh, Fresh
<1>11. Owed' <=> Owed
  BY <1>1 DEF Owed
<1>12. ForceInv'
  BY <1>1, <1>10, <1>11 DEF ExtensionsInv, ForceInv
<1> QED
  BY <1>7, <1>9, <1>12 DEF ExtensionsInv

(* The head leaves the queue: the open of the project leaves it empty, a    *)
(* reload answers its call.                                                 *)
LEMMA HeadLeaves ==
    ASSUME ExtensionsInv, opens # <<>>, opens' = Tail(opens), body' = Idle,
           UNCHANGED <<diskVars, boot, cache>>, handle' \in Registries, engine' \in Registries,
           NEW applied \in BOOLEAN,
           call' = IF Opens THEN call
                   ELSE [call EXCEPT ![Head(opens)] = [@ EXCEPT !.pc = "done", !.applied = applied]],
           ~Opens => handle' = handle, Running' => IsOpen'
    PROVE  /\ ExtensionsOK' /\ OpensInv'
           /\ opens' = <<>> => Len(opens) = 1
           /\ IF Opens THEN ~IsOpen ELSE IsOpen
           /\ Owed => Owed'
           /\ ~Opens /\ ~applied => Owed'
<1>1. /\ call \in [Call -> CallType] /\ opens \in Seq(Call \cup {"open"}) /\ boot.pc = "done"
      /\ body'.pc = "none" /\ body' \in BodyType
  BY Values DEF ExtensionsInv, ExtensionsOK, OpensInv, Idle
<1>2. /\ opens' \in Seq(Call \cup {"open"})
      /\ Len(opens) \in Nat \ {0} /\ Len(opens') = Len(opens) - 1
      /\ Head(opens) = opens[1] /\ Head(opens) \in Call \cup {"open"}
      /\ \A i \in 1..Len(opens') : i + 1 \in 1..Len(opens) /\ opens'[i] = opens[i + 1]
      /\ opens' = <<>> => Len(opens) = 1
  BY <1>1, Leaves
<1>3. CASE Opens
  <2>1. ~IsOpen /\ Len(opens) = 1
    BY <1>2, <1>3, ExtensionAssumption DEF ExtensionsInv, OpensInv, Opens
  <2>2. opens' = <<>> /\ call' = call
    BY <1>2, <1>3, <2>1, EmptySeq
  <2>3. Len(opens') = 0
    BY <1>2, <2>1
  <2>4. ExtensionsOK'
    BY <1>1, <1>2, <2>2 DEF ExtensionsInv, ExtensionsOK, diskVars
  <2>5. OpensInv'
    BY <1>1, <2>2, <2>3 DEF ExtensionsInv, OpensInv
  <2>6. Owed => Owed'
    BY <2>2 DEF Owed
  <2> QED
    BY <1>2, <1>3, <2>1, <2>4, <2>5, <2>6
<1>4. CASE ~Opens
  <2> DEFINE c == Head(opens)
             r == [call[c] EXCEPT !.pc = "done", !.applied = applied]
  <2>1. IsOpen /\ c \in Call /\ call[c].pc = "rebuild"
    BY <1>2, <1>4 DEF ExtensionsInv, OpensInv, Opens
  <2>2. call' = [call EXCEPT ![c] = r] /\ r \in CallType /\ r.pc = "done" /\ r.applied = applied
    BY <1>1, <1>4, <2>1 DEF CallType
  <2>3. \A i \in 1..Len(opens') :
            opens'[i] \in Call \ {c} /\ call[opens'[i]].pc = "rebuild"
    BY <1>2, <2>1 DEF ExtensionsInv, OpensInv
  <2> HIDE DEF c, r
  <2>4. /\ call' \in [Call -> CallType] /\ call'[c] = r
        /\ \A d \in Call \ {c} : call'[d] = call[d]
    BY <1>1, <2>1, <2>2
  <2>5. ExtensionsOK'
    BY <1>1, <1>2, <2>4 DEF ExtensionsInv, ExtensionsOK, diskVars
  <2>6. IsOpen'
    BY <1>4, <2>1 DEF IsOpen
  <2>7. \A i, j \in 1..Len(opens') : opens'[i] = opens'[j] => i = j
    <3>1. \A i, j \in 1..Len(opens) : opens[i] = opens[j] => i = j
      BY DEF ExtensionsInv, OpensInv
    <3> QED
      BY <1>2, <3>1
  <2>8. \A d \in Call : call'[d].applied => call'[d].pc = "done"
    BY <2>2, <2>4 DEF ExtensionsInv, OpensInv
  <2>9. \A i \in 1..Len(opens') : opens'[i] \in Call /\ call'[opens'[i]].pc = "rebuild"
    BY <2>3, <2>4
  <2>10. OpensInv'
    BY <1>1, <2>6, <2>7, <2>8, <2>9 DEF OpensInv
  <2>11. Owed => Owed'
    BY <2>1, <2>4, OwedFrame DEF ExtensionsInv
  <2>12. ~applied => Owed'
    BY <2>1, <2>2, <2>4 DEF Owed
  <2> QED
    BY <1>2, <1>4, <2>1, <2>5, <2>10, <2>11, <2>12
<1> QED
  BY <1>3, <1>4

LEMMA FailStep == ExtensionsInv /\ GuardFails => ExtensionsInv'
<1> SUFFICES ASSUME ExtensionsInv, GuardFails PROVE ExtensionsInv'
  OBVIOUS
<1>1. /\ opens # <<>> /\ opens' = Tail(opens) /\ body' = Idle /\ failed'
      /\ UNCHANGED <<diskVars, boot, cache, handle, engine>>
  BY DEF GuardFails, BodyAt, OpenOnly
<1>2. handle' \in Registries /\ engine' \in Registries /\ (Running' => IsOpen')
  BY <1>1 DEF ExtensionsInv, ExtensionsOK, OpensInv, IsOpen, Running
<1> DEFINE c == Head(opens)
<1>3. ~Opens => c \in Call /\ call[c] \in CallType
  <2>1. call \in [Call -> CallType] /\ opens \in Seq(Call \cup {"open"})
    BY DEF ExtensionsInv, ExtensionsOK
  <2>2. c \in Call \cup {"open"}
    BY <1>1, <2>1, HeadTailProperties
  <2> QED
    BY <2>1, <2>2 DEF Opens
<1>4. call' = IF Opens THEN call
              ELSE [call EXCEPT ![c] = [@ EXCEPT !.pc = "done", !.applied = call[c].applied]]
  BY <1>3 DEF GuardFails, CallType
<1>5. ~Opens => call[c].applied \in BOOLEAN
  BY <1>3 DEF CallType
<1>6. ExtensionsOK' /\ OpensInv'
  <2>1. CASE Opens
    BY <1>1, <1>2, <1>4, <2>1, HeadLeaves
  <2>2. CASE ~Opens
    BY <1>1, <1>2, <1>4, <1>5, <2>2, HeadLeaves
  <2> QED
    BY <2>1, <2>2
<1> QED
  BY <1>1, <1>6 DEF ExtensionsInv, ForceInv

LEMMA EndStep == ExtensionsInv /\ BodyEnds => ExtensionsInv'
<1> SUFFICES ASSUME ExtensionsInv, BodyEnds PROVE ExtensionsInv'
  OBVIOUS
<1>1. /\ opens # <<>> /\ opens' = Tail(opens) /\ body.pc = "end" /\ body' = Idle
      /\ handle' = (IF Opens THEN body.next ELSE handle)
      /\ engine' = (IF Opens \/ engine = Closed THEN engine ELSE body.next)
      /\ UNCHANGED <<diskVars, boot, cache, failed>>
  BY DEF BodyEnds, BodyAt, OpenOnly
<1>2. /\ body.next \in [Name -> Nat] /\ body.next # Closed /\ body'.pc = "none"
      /\ handle \in Registries /\ engine \in Registries
  BY <1>1, Values DEF ExtensionsInv, OpensInv, ExtensionsOK, Idle
<1>3. /\ handle' \in Registries /\ engine' \in Registries /\ (Running' <=> Running)
      /\ Running' => IsOpen'
  BY <1>1, <1>2 DEF ExtensionsInv, OpensInv, Registries, Running, IsOpen
<1> DEFINE applied == engine # Closed
<1>4. call' = IF Opens THEN call
              ELSE [call EXCEPT ![Head(opens)] = [@ EXCEPT !.pc = "done", !.applied = applied]]
  BY DEF BodyEnds
<1>5. applied \in BOOLEAN
  OBVIOUS
<1> HIDE DEF applied
<1>6. /\ ExtensionsOK' /\ OpensInv'
      /\ opens' = <<>> => Len(opens) = 1
      /\ IF Opens THEN ~IsOpen ELSE IsOpen
      /\ Owed => Owed'
      /\ ~Opens /\ ~applied => Owed'
  BY <1>1, <1>3, <1>4, <1>5, HeadLeaves
<1>7. ASSUME ~failed', opens' = <<>>, ~Owed'
      PROVE  Fresh(IF Running THEN engine ELSE handle)'
  <2>1. Fresh(body.next)
    BY <1>1, <1>6, <1>7 DEF ExtensionsInv, ForceInv, BodyFresh
  <2>2. (IF Running THEN engine ELSE handle)' = body.next
    <3>1. CASE Opens
      BY <1>1, <1>3, <1>6, <3>1 DEF ExtensionsInv, OpensInv, Running
    <3>2. CASE ~Opens
      BY <1>1, <1>3, <1>6, <1>7, <3>2 DEF applied, Running
    <3> QED
      BY <3>1, <3>2
  <2>3. ResolveEntries' = ResolveEntries
    BY <1>1 DEF ResolveEntries, Resolves, ResolvePackageEntries, ResolveLocalPath,
       DeclaresExtension, Listed, diskVars
  <2> QED
    BY <2>1, <2>2, <2>3 DEF Fresh
<1>8. ForceInv'
  BY <1>2, <1>7 DEF ForceInv
<1> QED
  BY <1>6, <1>8 DEF ExtensionsInv

LEMMA AddStep == ExtensionsInv /\ AddProject => ExtensionsInv'
<1> SUFFICES ASSUME ExtensionsInv, AddProject PROVE ExtensionsInv'
  OBVIOUS
<1>1. /\ IsOpen /\ engine = Closed /\ engine' = handle
      /\ UNCHANGED <<diskVars, boot, call, openVars, failed>>
  BY DEF AddProject, OpenOnly
<1>2. ExtensionsOK'
  BY <1>1 DEF ExtensionsInv, ExtensionsOK, diskVars, openVars
<1>3. OpensInv'
  BY <1>1 DEF ExtensionsInv, OpensInv, IsOpen, diskVars, openVars
<1>4. Running' /\ ~Running
  BY <1>1 DEF Running, IsOpen
<1>5. ForceInv'
  BY <1>1, <1>4 DEF ExtensionsInv, ForceInv, Fresh, BodyFresh, Owed, IsOpen, ResolveEntries,
     Resolves, ResolvePackageEntries, ResolveLocalPath, DeclaresExtension, Listed, diskVars, openVars
<1> QED
  BY <1>2, <1>3, <1>5 DEF ExtensionsInv

LEMMA RestartStep == ExtensionsInv /\ Restart => ExtensionsInv'
<1> SUFFICES ASSUME ExtensionsInv, Restart PROVE ExtensionsInv'
  OBVIOUS
<1>1. /\ opens' = <<>> /\ body' = Idle /\ handle' = Closed /\ engine' = Closed
      /\ cache' = [n \in Name |-> 0] /\ boot' = [pc |-> "start", want |-> None]
      /\ call' = [c \in Call |-> IF call[c].pc = "idle" THEN call[c] ELSE Answered("done", TRUE)]
      /\ UNCHANGED diskVars
  BY DEF Restart
<1>2. /\ call' \in [Call -> CallType] /\ opens' \in Seq(Call \cup {"open"}) /\ Len(opens') = 0
      /\ cache' \in [Name -> Nat]
  <2>1. call \in [Call -> CallType] /\ Answered("done", TRUE) \in CallType
    BY Values DEF ExtensionsInv, ExtensionsOK
  <2>2. call' \in [Call -> CallType]
    BY <1>1, <2>1
  <2>3. opens' \in Seq(Call \cup {"open"}) /\ Len(opens') = 0
    BY <1>1
  <2>4. cache' \in [Name -> Nat]
    BY <1>1
  <2> QED
    BY <2>2, <2>3, <2>4
<1>3. ExtensionsOK'
  BY <1>1, <1>2, Values DEF ExtensionsInv, ExtensionsOK, diskVars
<1>4. body'.pc = "none" /\ ~IsOpen' /\ ~Running'
  BY <1>1 DEF Idle, IsOpen, Running
<1>5. \A c \in Call : call'[c].applied => call'[c].pc = "done"
  BY <1>1 DEF ExtensionsInv, OpensInv, Answered
<1>6. OpensInv'
  <2>1. opens' = <<>> /\ 1..Len(opens') = {} /\ Len(opens') <= 1
    BY <1>1, <1>2
  <2> QED
    BY <1>4, <1>5, <2>1 DEF OpensInv
<1>7. ForceInv'
  BY <1>4 DEF ForceInv
<1> QED
  BY <1>3, <1>6, <1>7 DEF ExtensionsInv

LEMMA ExtensionsStep == ExtensionsInv /\ [Next]_vars => ExtensionsInv'
<1> SUFFICES ASSUME ExtensionsInv, [Next]_vars PROVE ExtensionsInv'
  OBVIOUS
<1>1. CASE UNCHANGED vars
  BY <1>1, TaskFrame DEF vars
<1>2. CASE Schedule \/ CommitTransit \/ Seal \/ Resume \/ TaskTerminal
  <2>1. TaskOnly
    BY <1>2 DEF Schedule, ScanProject, Dispatch, DispatchParks, DispatchCreates, CommitTransit,
       Seal, Resume, TaskTerminal
  <2> QED
    BY <2>1, TaskFrame DEF TaskOnly
<1>3. CASE Body
  BY <1>3, ReadingSteps, LoadStep, EndStep DEF Body
<1>4. ASSUME NEW c \in Call, Request(c) \/ Serve(c) PROVE ExtensionsInv'
  BY <1>4, RequestStep, ViewStep, RunStep, NpmStep, RebuildStep DEF Serve
<1> QED
  BY <1>1, <1>2, <1>3, <1>4, BootstrapStep, PublishStep, OpenStep, FailStep, AddStep, RestartStep
  DEF Next

(* extensions/, project/manager.ts: when every change was reported as       *)
(* applied, the engine has what ext list shows as resolved and nothing      *)
(* else, for any extensions, versions, restarts and calls at once.          *)
THEOREM WhatIsAppliedIsLive == Spec => []AppliedIsLive
<1>1. ExtensionsInv => AppliedIsLive
  <2> SUFFICES ASSUME ExtensionsInv, opens = <<>>, ~failed, Running, NEW n \in Name,
                      \A c \in Call : call[c].pc \in {"idle", "failed"}
                                      \/ (call[c].pc = "done" /\ call[c].applied)
               PROVE  engine[n] > 0 <=>
                          n \in DOMAIN ListExtensionEntries /\ ListExtensionEntries[n]
    BY DEF AppliedIsLive
  <2>1. ~Owed /\ IsOpen
    BY DEF Owed, ExtensionsInv, OpensInv
  <2>2. engine[n] > 0 <=> n \in ResolveEntries
    BY <2>1 DEF ExtensionsInv, ForceInv, Fresh
  <2>3. n \in ResolveEntries <=> n \in DOMAIN ListExtensionEntries /\ ListExtensionEntries[n]
    BY DEF ResolveEntries, ListExtensionEntries
  <2> QED
    BY <2>2, <2>3
<1> QED
  BY <1>1, ExtensionsInvInit, ExtensionsStep, PTL DEF Spec
=============================================================================
