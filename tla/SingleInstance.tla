--------------------------- MODULE SingleInstance ---------------------------
(***************************************************************************)
(* How autoskd processes settle which one of them owns the socket: the     *)
(* pidfile lock, its reclamation under the breaker file, the bind, and the *)
(* release at shutdown.                                                    *)
(*                                                                         *)
(* The processes share nothing but three files and the process table, so   *)
(* one action is one system call: another process may run between any two  *)
(* of them.  The pid of a process that ended may go on answering.          *)
(***************************************************************************)
EXTENDS Integers, FiniteSets

CONSTANTS
    Proc,          \* the pids
    Gone,          \* a pid whose process died before the model starts
    Nobody,        \* no pid: a missing file, or an unreadable one
    LockAtStart,   \* what the lock file may hold at the start
    MaxStarting,   \* bound: processes inside listenUnix at once
    MaxCrash,      \* bound: processes killed
    MaxStop,       \* bound: orderly shutdowns
    Patience,      \* rounds of the claim loop before its deadline can pass
    BreakerTries   \* attempts of acquireBreaker

ASSUME SingleAssumption ==
    /\ Gone \notin Proc /\ Nobody \notin Proc /\ Gone # Nobody
    /\ LockAtStart \subseteq {Gone, Nobody} /\ LockAtStart # {}
    /\ {MaxStarting, MaxCrash, MaxStop} \subseteq Nat
    /\ {Patience, BreakerTries} \subseteq Nat \ {0}

VARIABLES
    lock,      \* pid in <sock>.lock, or Nobody when there is no file
    ghosts,    \* pids that answer although their process has ended
    breaker,   \* pid of the creator of <sock>.lock.break, or Nobody
    inked,     \* the breaker file already holds its creator's pid
    sock,      \* the process whose listener <sock> reaches, or Nobody
    pc,
    seen,      \* the pid a process has read
    tries, rounds,
    crashes, stops

files == <<lock, breaker, inked, sock>>
processes == <<files, ghosts, pc, seen, tries, rounds, crashes, stops>>

Claiming == {"link", "read", "probe", "again"}
Breaking == {"breaker", "ink", "peek", "poke", "drop"}
Reclaiming == {"reread", "reprobe", "unlock", "unsock", "unbreak"}
Starting == Claiming \cup Breaking \cup Reclaiming
(* From the claim of the lock to the end of release(). *)
Owning == {"reap", "bind", "listening", "closing", "unbind", "release"}
Ended == {"already", "failed", "dead", "stopped"}

Runs(p) == p \in Proc /\ pc[p] \in Starting \cup Owning

(* process.kill(pid, 0): a zombie answers, and so does another program that *)
(* has been given the pid.                                                  *)
Alive(p) == Runs(p) \/ p \in ghosts

OwnerInit ==
    /\ lock \in LockAtStart
    /\ ghosts = {}
    /\ breaker = Nobody /\ inked = FALSE /\ sock = Nobody
    /\ pc = [p \in Proc |-> "new"]
    /\ seen = [p \in Proc |-> Nobody]
    /\ tries = [p \in Proc |-> 0] /\ rounds = [p \in Proc |-> 0]
    /\ crashes = 0 /\ stops = 0

Goto(p, label) == pc' = [pc EXCEPT ![p] = label]

-----------------------------------------------------------------------------
(* The claim loop. *)

Start(p) ==
    /\ pc[p] = "new"
    /\ Cardinality({q \in Proc : pc[q] \in Starting}) < MaxStarting
    /\ Goto(p, "link")
    /\ UNCHANGED <<files, ghosts, seen, tries, rounds, crashes, stops>>

(* Mutant: the claim replaces a lock that is already there. *)
LinkOverwrites(p) ==
    /\ pc[p] = "link"
    /\ lock' = p /\ Goto(p, "reap")
    /\ UNCHANGED <<breaker, inked, sock, seen, tries, rounds, crashes, stops, ghosts>>

(* link(2) onto the lock path: fails with EEXIST when there is a lock. *)
Link(p) ==
    /\ pc[p] = "link"
    /\ IF lock = Nobody
       THEN lock' = p /\ Goto(p, "reap")
       ELSE Goto(p, "read") /\ UNCHANGED lock
    /\ UNCHANGED <<breaker, inked, sock, seen, tries, rounds, crashes, stops, ghosts>>

(* holderAlive, in two calls: the file, then the process. *)
ReadLock(p) ==
    /\ \/ pc[p] = "read" /\ Goto(p, "probe")
       \/ pc[p] = "reread" /\ Goto(p, "reprobe")
    /\ seen' = [seen EXCEPT ![p] = lock]
    /\ UNCHANGED <<files, ghosts, tries, rounds, crashes, stops>>

Probe(p) ==
    /\ pc[p] = "probe"
    /\ Goto(p, IF Alive(seen[p]) THEN "already" ELSE "breaker")
    /\ seen' = [seen EXCEPT ![p] = Nobody]
    /\ UNCHANGED <<files, ghosts, tries, rounds, crashes, stops>>

(* The end of a round: the deadline, else the next round. *)
Again(p) ==
    /\ pc[p] = "again"
    /\ \/ rounds[p] < Patience
          /\ rounds' = [rounds EXCEPT ![p] = @ + 1] /\ Goto(p, "link")
       \/ rounds[p] = Patience /\ Goto(p, "link") /\ UNCHANGED rounds
       \/ rounds[p] = Patience /\ Goto(p, "failed") /\ UNCHANGED rounds
    /\ tries' = [tries EXCEPT ![p] = 0]
    /\ UNCHANGED <<files, ghosts, seen, crashes, stops>>

-----------------------------------------------------------------------------
(* acquireBreaker. *)

(* O_CREAT|O_EXCL creates an empty file; the pid is written by a second call. *)
CreateBreaker(p) ==
    /\ pc[p] = "breaker"
    /\ IF breaker = Nobody
       THEN breaker' = p /\ inked' = FALSE /\ Goto(p, "ink")
       ELSE Goto(p, "peek") /\ UNCHANGED <<breaker, inked>>
    /\ UNCHANGED <<lock, sock, seen, tries, rounds, crashes, stops, ghosts>>

(* The descriptor keeps pointing at a file that was unlinked meanwhile. *)
InkBreaker(p) ==
    /\ pc[p] = "ink"
    /\ inked' = (inked \/ breaker = p)
    /\ Goto(p, "reread")
    /\ tries' = [tries EXCEPT ![p] = 0]
    /\ UNCHANGED <<lock, breaker, sock, seen, rounds, crashes, stops, ghosts>>

PeekBreaker(p) ==
    /\ pc[p] = "peek"
    /\ seen' = [seen EXCEPT ![p] = IF inked THEN breaker ELSE Nobody]
    /\ Goto(p, "poke")
    /\ UNCHANGED <<files, ghosts, tries, rounds, crashes, stops>>

(* Mutant: a breaker that exists is always somebody's. *)
PokeTrusts(p) ==
    /\ pc[p] = "poke"
    /\ Goto(p, "again")
    /\ seen' = [seen EXCEPT ![p] = Nobody]
    /\ UNCHANGED <<files, ghosts, tries, rounds, crashes, stops>>

PokeBreaker(p) ==
    /\ pc[p] = "poke"
    /\ Goto(p, IF Alive(seen[p]) THEN "again" ELSE "drop")
    /\ seen' = [seen EXCEPT ![p] = Nobody]
    /\ UNCHANGED <<files, ghosts, tries, rounds, crashes, stops>>

DropBreaker(p) ==
    /\ pc[p] = "drop"
    /\ breaker' = Nobody /\ inked' = FALSE
    /\ tries' = [tries EXCEPT ![p] = @ + 1]
    /\ Goto(p, IF tries[p] + 1 = BreakerTries THEN "again" ELSE "breaker")
    /\ UNCHANGED <<lock, sock, seen, rounds, crashes, stops, ghosts>>

-----------------------------------------------------------------------------
(* reclaimStaleLock, once the breaker is held. *)

Reprobe(p) ==
    /\ pc[p] = "reprobe"
    /\ Goto(p, IF Alive(seen[p]) THEN "unbreak" ELSE "unlock")
    /\ seen' = [seen EXCEPT ![p] = IF Alive(@) THEN @ ELSE Nobody]
    /\ UNCHANGED <<files, ghosts, tries, rounds, crashes, stops>>

UnlinkLock(p) ==
    /\ pc[p] = "unlock"
    /\ lock' = Nobody /\ Goto(p, "unsock")
    /\ UNCHANGED <<breaker, inked, sock, seen, tries, rounds, crashes, stops, ghosts>>

UnlinkSock(p) ==
    /\ pc[p] = "unsock"
    /\ sock' = Nobody /\ Goto(p, "unbreak")
    /\ UNCHANGED <<lock, breaker, inked, seen, tries, rounds, crashes, stops, ghosts>>

(* The finally clause; the exception of a live holder then goes up. *)
Unbreak(p) ==
    /\ pc[p] = "unbreak"
    /\ breaker' = Nobody /\ inked' = FALSE
    /\ Goto(p, IF seen[p] # Nobody THEN "already" ELSE "again")
    /\ seen' = [seen EXCEPT ![p] = Nobody]
    /\ UNCHANGED <<lock, sock, tries, rounds, crashes, stops, ghosts>>

-----------------------------------------------------------------------------
(* The winner, and its shutdown. *)

Reap(p) ==
    /\ pc[p] = "reap"
    /\ sock' = Nobody /\ Goto(p, "bind")
    /\ UNCHANGED <<lock, breaker, inked, seen, tries, rounds, crashes, stops, ghosts>>

(* Bun binds over an existing path without an error. *)
Bind(p) ==
    /\ pc[p] = "bind"
    /\ sock' = p /\ Goto(p, "listening")
    /\ UNCHANGED <<lock, breaker, inked, seen, tries, rounds, crashes, stops, ghosts>>

(* shutdown(): the listener closes, the engine and the stores follow. *)
Stop(p) ==
    /\ pc[p] = "listening" /\ stops < MaxStop
    /\ stops' = stops + 1 /\ Goto(p, "closing")
    /\ UNCHANGED <<files, ghosts, seen, tries, rounds, crashes>>

(* Mutant: the lock is released before the engine has stopped. *)
CloseReleasesFirst(p) ==
    /\ pc[p] = "closing"
    /\ lock' = Nobody /\ Goto(p, "unbind")
    /\ UNCHANGED <<breaker, inked, sock, seen, tries, rounds, crashes, stops, ghosts>>

Close(p) ==
    /\ pc[p] = "closing" /\ Goto(p, "unbind")
    /\ UNCHANGED <<files, ghosts, seen, tries, rounds, crashes, stops>>

(* release(): the socket file first, then the lock. *)
Unbind(p) ==
    /\ pc[p] = "unbind"
    /\ sock' = Nobody /\ Goto(p, "release")
    /\ UNCHANGED <<lock, breaker, inked, seen, tries, rounds, crashes, stops, ghosts>>

Release(p) ==
    /\ pc[p] = "release"
    /\ lock' = Nobody /\ Goto(p, "stopped")
    /\ UNCHANGED <<breaker, inked, sock, seen, tries, rounds, crashes, stops, ghosts>>

(* The process is killed: its files stay as they are. *)
Crash(p) ==
    /\ Runs(p) /\ crashes < MaxCrash
    /\ crashes' = crashes + 1 /\ Goto(p, "dead")
    /\ seen' = [seen EXCEPT ![p] = Nobody]
    /\ tries' = [tries EXCEPT ![p] = 0]
    /\ UNCHANGED <<files, ghosts, rounds, stops>>

(* The pid of a process that has ended answers: its parent, a client that  *)
(* never waits for it, still lives, or another program has been given it.  *)
Haunt(p) ==
    /\ p \in {lock, breaker} \cup {seen[q] : q \in Proc}
    /\ p # Nobody /\ ~Alive(p)
    /\ ghosts' = ghosts \cup {p}
    /\ UNCHANGED <<files, pc, seen, tries, rounds, crashes, stops>>

(* That parent, or that program, has ended. *)
Fade(p) ==
    /\ p \in ghosts /\ ghosts' = ghosts \ {p}
    /\ UNCHANGED <<files, pc, seen, tries, rounds, crashes, stops>>

(* What a process that is not waiting for anything does next. *)
Proceed(p) ==
    \/ Link(p) \/ ReadLock(p) \/ Probe(p) \/ Again(p)
    \/ CreateBreaker(p) \/ InkBreaker(p) \/ PeekBreaker(p)
    \/ PokeBreaker(p) \/ DropBreaker(p)
    \/ Reprobe(p) \/ UnlinkLock(p) \/ UnlinkSock(p) \/ Unbreak(p)
    \/ Reap(p) \/ Bind(p) \/ Close(p) \/ Unbind(p) \/ Release(p)

OwnerNext ==
    \/ \E p \in Proc : Start(p) \/ Stop(p) \/ Crash(p) \/ Proceed(p)
    \/ \E p \in Proc \cup {Gone} : Haunt(p) \/ Fade(p)

OwnerSpec == OwnerInit /\ [][OwnerNext]_processes

-----------------------------------------------------------------------------
(* Properties. *)

(* A process takes the free lock while another one is between its second   *)
(* look at the lock and the last of its unlinks. The breaker does not keep *)
(* it from that (README): the lock or the socket unlinked may be its own.  *)
TakeoverRace == lock = Nobody /\ \E p, q \in Proc :
    pc[p] \in {"reprobe", "unlock", "unsock"} /\ pc[q] = "link"

(* Two processes never own the socket together: from the claim of the lock *)
(* to the end of release() a process runs an engine over the projects, so  *)
(* a second owner would be a second writer of .autosk/.                    *)
OneOwner == <>TakeoverRace \/ [](\A p, q \in Proc :
    pc[p] \in Owning /\ pc[q] \in Owning => p = q)

(* The socket file leads to the daemon that is listening: no other starter *)
(* has unlinked it or bound over it, so a client that connects reaches it. *)
SocketReachesDaemon == <>TakeoverRace \/
    [](\A p \in Proc : pc[p] = "listening" => sock = p)

(* A process is on its way through the reclaim of a dead lock while        *)
(* another one starts: it may give up behind one that is then killed.      *)
ReclaimRace == \E p, q \in Proc : p # q
    /\ pc[p] \in Breaking \cup Reclaiming /\ pc[q] \in Starting

(* p is about to ask whether an ended process lives, and will be told so. *)
Mistaken(p) == pc[p] \in {"probe", "poke", "reprobe"} /\ seen[p] \in ghosts

(* Whatever a crash left behind (a stale lock, a stale breaker, a socket   *)
(* file), a process that starts when no other runs takes the socket over   *)
(* and does not give up, unless one that starts after it is faster or the  *)
(* pid it finds in a file answers for something else than its autoskd.     *)
LoneStarterListens == <>ReclaimRace \/ (\A p \in Proc : <>Mistaken(p) \/
    (pc[p] = "link" /\ (\A q \in Proc \ {p} : ~Runs(q))
        ~> \/ pc[p] \in {"listening", "dead"}
           \/ \E q \in Proc \ {p} : pc[q] \in Owning))
=============================================================================
