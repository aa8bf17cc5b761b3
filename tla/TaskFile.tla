------------------------------ MODULE TaskFile ------------------------------
(***************************************************************************)
(* One task.json under hybrid ownership: the store's record cache and the  *)
(* critical sections that reconcile and mutate it, the editors that write  *)
(* the same file from outside, and the live session that makes status,     *)
(* workflow and step the engine's.                                         *)
(*                                                                         *)
(* One action is what runs between two awaited file operations. At most    *)
(* one critical section runs at a time: the lock of the task's id. The     *)
(* signature of a file is unique to its content: the coincidence of times, *)
(* size and inode that atomic.ts accepts is not modelled.                  *)
(***************************************************************************)
EXTENDS Integers, FiniteSets

CONSTANTS
    Position,    \* values of the engine-owned triple (status, workflow, step)
    Text,        \* values of the human fields
    Absent,      \* what stands for the body of a file that is not there
    Corrupt,     \* the body of a file that does not parse
    MaxEdit,     \* bound: edits
    MaxMutation, \* bound: mutations
    MaxComment   \* bound: comments on a task the cache does not hold

Body == [pos : Position, text : Text]

ASSUME TaskFileAssumption ==
    /\ Position # {} /\ Text # {}
    /\ Absent # Corrupt /\ {Absent, Corrupt} \cap Body = {}
    /\ {MaxEdit, MaxMutation, MaxComment} \subseteq Nat

VARIABLES
    file,       \* signature (0 when there is no file) and body
    cache,      \* TaskStore.taskCache: the same, Absent when not cached
    live,       \* SessionStore.hasLiveSession
    stamp,      \* the signatures given out so far
    \* the critical section
    op,         \* what it does: "reconcile" or a mutation
    at,         \* the file operation it awaits, "free" when there is none
    sig,        \* the signature readDisk's stat has returned
    next,       \* the record its write puts into place
    restoring,  \* that write is reconcileLocked's own
    \* the comment path, under the lock of the comments
    talk,       \* what it awaits: taskExists' "stat" or "read", or the "write" of
                \* the comments; else "idle"
    peeked,     \* the signature its stat has returned
    \* what the outside may rely on
    told,       \* every change of the cached record has been announced
    dropped,    \* a request that came to nothing has taken such a change with it
    owner,      \* the position last written by the engine, or accepted
    human,      \* the human fields last written by a person
    landed,     \* where the last edit fell: at a "free" lock, in a "critical"
                \* section, or on a file just "written", before its stat
    edits, mutations, comments

section == <<op, at, sig, next, restoring>>
talks == <<talk, peeked>>
bounds == <<edits, mutations, comments>>
promises == <<told, dropped, owner, human, landed>>
taskFileVars == <<file, cache, live, stamp, section, talks, promises, bounds>>

Mutation == [kind : {"position"}, value : Position]
                \cup [kind : {"text"}, value : Text]
Reconcile == [kind |-> "reconcile", value |-> Absent]

Entry(s, b) == [sig |-> s, body |-> b]
NoEntry == Entry(0, Absent)
Cached == cache # NoEntry

TaskInit ==
    /\ \E b \in Body :
        /\ file = Entry(1, b) /\ cache = Entry(1, b)
        /\ owner = b.pos /\ human = b.text
    /\ stamp = 1 /\ live = FALSE
    /\ op = Reconcile /\ at = "free" /\ sig = 0 /\ next = Absent
    /\ restoring = FALSE /\ talk = "idle" /\ peeked = 0
    /\ told = TRUE /\ dropped = FALSE /\ landed = "free"
    /\ edits = 0 /\ mutations = 0 /\ comments = 0

-----------------------------------------------------------------------------
(* Outside the store. *)

(* Who damages or removes the file gives up what the store has not seen. *)
LastSeen == IF Cached THEN cache.body.text ELSE human

(* An editor replaces, damages or removes the file. *)
Edit ==
    /\ edits < MaxEdit /\ edits' = edits + 1
    /\ landed' = CASE at = "free" -> "free"
                   [] at = "restat" -> "written"
                   [] OTHER -> "critical"
    /\ \/ \E b \in Body : /\ file' = Entry(stamp + 1, b) /\ stamp' = stamp + 1
                          /\ human' = b.text
       \/ /\ file' = Entry(stamp + 1, Corrupt) /\ stamp' = stamp + 1
          /\ human' = LastSeen
       \/ /\ file # NoEntry /\ file' = NoEntry
          /\ human' = LastSeen /\ UNCHANGED stamp
    /\ UNCHANGED <<cache, live, section, talks, told, dropped, owner, mutations,
                   comments>>

(* A session is created for a task the scheduler has found in the cache,   *)
(* or the task's session reaches a terminal status.                        *)
SessionLife ==
    /\ live \/ Cached
    /\ live' = ~live
    /\ UNCHANGED <<file, cache, stamp, section, talks, promises, bounds>>

-----------------------------------------------------------------------------
(* The critical section. *)

(* A timer, a watcher event, or a request of a client or the engine takes  *)
(* the lock.                                                               *)
Enter(o) ==
    /\ at = "free" /\ at' = "probe" /\ op' = o
    /\ UNCHANGED <<file, cache, live, stamp, sig, next, restoring, talks,
                   promises, edits, comments>>

EnterReconcile == Enter(Reconcile) /\ UNCHANGED mutations
(* Mutant: a mutation starts from the cached record as it is. *)
EnterUnreconciled ==
    /\ mutations < MaxMutation /\ mutations' = mutations + 1
    /\ at = "free" /\ Cached /\ at' = "rename"
    /\ \E o \in Mutation :
        /\ op' = o
        /\ next' = IF o.kind = "position" THEN [cache.body EXCEPT !.pos = o.value]
                   ELSE [cache.body EXCEPT !.text = o.value]
    /\ UNCHANGED <<file, cache, live, stamp, sig, restoring, talks, promises,
                   edits, comments>>

EnterMutation ==
    /\ mutations < MaxMutation /\ mutations' = mutations + 1
    /\ \E o \in Mutation : Enter(o)

Leave ==
    /\ at' = "free" /\ op' = Reconcile
    /\ sig' = 0 /\ next' = Absent /\ restoring' = FALSE

Put(body, restore) ==
    /\ at' = "rename" /\ next' = body /\ restoring' = restore
    /\ sig' = 0 /\ UNCHANGED op

Apply(body) == IF op.kind = "position" THEN [body EXCEPT !.pos = op.value]
                                       ELSE [body EXCEPT !.text = op.value]

(* A change of the cached record is announced, or dropped on the floor. *)
Announce == told' = TRUE /\ dropped' = FALSE
Keep(entry) == told' = (told /\ entry = cache) /\ UNCHANGED dropped
Throw(entry) == UNCHANGED told /\ dropped' = (dropped \/ entry # cache)

(* Mutant: only mutations notify. *)
ReconciledSilently(entry) ==
    /\ cache' = entry
    /\ \/ op = Reconcile /\ Leave /\ Keep(entry)
       \/ op # Reconcile /\ entry = NoEntry /\ Leave /\ Throw(entry)
       \/ op # Reconcile /\ entry # NoEntry /\ Put(Apply(entry.body), FALSE)
          /\ Keep(entry)

(* reconcileLocked has come to its end and leaves entry in the cache. A    *)
(* reconcile notifies when that is a change; a mutation writes next, or    *)
(* throws when there is no task.                                           *)
Reconciled(entry) ==
    /\ cache' = entry
    /\ \/ op = Reconcile /\ Leave
          /\ IF entry = cache THEN Keep(entry) ELSE Announce
       \/ op # Reconcile /\ entry = NoEntry /\ Leave /\ Throw(entry)
       \/ op # Reconcile /\ entry # NoEntry /\ Put(Apply(entry.body), FALSE)
          /\ Keep(entry)

(* The cached record is the engine's, and goes back to the file. *)
Restores == live /\ Cached

Restore(body) == Put(body, TRUE) /\ UNCHANGED <<cache, told, dropped>>

(* Mutant: a cached task is not probed again. *)
SameIfCached == Cached

(* Nothing to do: the file carries the signature of the cached record. *)
Same == file.sig = cache.sig

Gone == file = NoEntry

Probe ==
    /\ at = "probe"
    /\ \/ Gone /\ Restores /\ Restore(cache.body)
       \/ Gone /\ ~Restores /\ Reconciled(NoEntry)
       \/ ~Gone /\ Same /\ Reconciled(cache)
       \/ /\ ~Gone /\ ~Same /\ at' = "stat"
          /\ UNCHANGED <<cache, op, sig, next, restoring, told, dropped>>
    /\ UNCHANGED <<file, live, stamp, talks, owner, human, landed, bounds>>

(* readDisk, in two calls: the file may change, or go, between them. *)
StatDisk ==
    /\ at = "stat"
    /\ \/ Gone /\ Reconciled(cache)
       \/ /\ ~Gone /\ at' = "read" /\ sig' = file.sig
          /\ UNCHANGED <<cache, op, next, restoring, told, dropped>>
    /\ UNCHANGED <<file, live, stamp, talks, owner, human, landed, bounds>>

(* Mutant: every edit is accepted. *)
RejectsNothing == FALSE

(* engineOwnedFieldsDiffer, while a session is live. *)
Rejects == live /\ Cached /\ file.body.pos # cache.body.pos

(* What cannot be read or parsed is restored or dropped; what can is taken *)
(* over, without the engine's fields while a session is live.              *)
ReadDisk ==
    /\ at = "read"
    /\ \/ /\ file.body \in {Absent, Corrupt} /\ UNCHANGED owner
          /\ \/ Restores /\ Restore(cache.body)
             \/ ~Restores /\ Reconciled(NoEntry)
       \/ /\ file.body \in Body /\ Rejects /\ UNCHANGED owner
          /\ Restore([file.body EXCEPT !.pos = cache.body.pos])
       \/ /\ file.body \in Body /\ ~Rejects
          /\ owner' = IF Restores THEN owner ELSE file.body.pos
          /\ Reconciled(Entry(sig, file.body))
    /\ UNCHANGED <<file, live, stamp, talks, human, landed, bounds>>

(* writeTask: the temporary file takes the place of task.json. *)
Rename ==
    /\ at = "rename" /\ at' = "restat"
    /\ file' = Entry(stamp + 1, next) /\ stamp' = stamp + 1
    /\ IF ~restoring /\ op.kind = "text"
       THEN human' = next.text /\ landed' = "free"
       ELSE UNCHANGED <<human, landed>>
    /\ UNCHANGED <<cache, live, op, sig, next, restoring, talks, told, dropped,
                   owner, bounds>>

(* The stat whose signature the cache gets: it throws when the file has    *)
(* been removed.                                                           *)
Restat ==
    /\ at = "restat"
    /\ \/ Gone /\ Leave /\ UNCHANGED <<cache, told, owner>>
          /\ dropped' = (dropped \/ ~told)
       \/ ~Gone /\ restoring /\ Reconciled(Entry(file.sig, next)) /\ UNCHANGED owner
       \/ /\ ~Gone /\ ~restoring /\ cache' = Entry(file.sig, next)
          /\ owner' = IF op.kind = "position" THEN next.pos ELSE owner
          /\ Leave /\ Announce
    /\ UNCHANGED <<file, live, stamp, talks, human, landed, bounds>>

-----------------------------------------------------------------------------
(* taskExists, on the way to a comment. *)

CommentPeek ==
    /\ comments < MaxComment /\ comments' = comments + 1
    /\ talk = "idle" /\ ~Cached /\ talk' = "stat"
    /\ UNCHANGED <<file, cache, live, stamp, section, peeked, promises, edits,
                   mutations>>

(* TaskStore.read finds no file, or the record in the cache by now. *)
CommentStat ==
    /\ talk = "stat"
    /\ \/ /\ Gone /\ talk' = "idle" /\ cache' = NoEntry
          /\ Throw(NoEntry) /\ UNCHANGED peeked
       \/ /\ ~Gone /\ Same /\ talk' = "idle"
          /\ UNCHANGED <<cache, told, dropped, peeked>>
       \/ /\ ~Gone /\ ~Same /\ talk' = "read" /\ peeked' = file.sig
          /\ UNCHANGED <<cache, told, dropped>>
    /\ UNCHANGED <<file, live, stamp, section, owner, human, landed, bounds>>

(* What it reads it takes over, also from an editor while a session is     *)
(* live; a file that does not parse ends the request.                      *)
CommentRead ==
    /\ talk = "read" /\ peeked' = 0
    /\ IF file.body \in Body
       THEN /\ talk' = "write" /\ cache' = Entry(peeked, file.body)
            /\ Keep(cache')
       ELSE talk' = "idle" /\ UNCHANGED <<cache, told, dropped>>
    /\ UNCHANGED <<file, live, stamp, section, owner, human, landed, bounds>>

(* A comment that was added, edited or deleted notifies. One that an edit  *)
(* or a deletion does not find, or that cannot be written, does not.       *)
CommentWritten ==
    /\ talk = "write" /\ talk' = "idle"
    /\ Announce \/ (UNCHANGED told /\ dropped' = (dropped \/ ~told))
    /\ UNCHANGED <<file, cache, live, stamp, section, peeked, owner, human, landed,
                   bounds>>

SectionStep == Probe \/ StatDisk \/ ReadDisk \/ Rename \/ Restat
CommentStep == CommentStat \/ CommentRead \/ CommentWritten

TaskNext ==
    \/ Edit \/ SessionLife
    \/ EnterReconcile \/ EnterMutation \/ SectionStep
    \/ CommentPeek \/ CommentStep

TaskSpec == TaskInit /\ [][TaskNext]_taskFileVars

(* File operations complete, and the rescan timer fires for ever. *)
TaskFairSpec ==
    /\ TaskSpec
    /\ WF_taskFileVars(SectionStep) /\ WF_taskFileVars(CommentStep) /\ WF_taskFileVars(EnterReconcile)

-----------------------------------------------------------------------------
(* Properties. *)

(* While a session is live the position every reader finds in the cache is *)
(* the one the engine wrote, or found when it was cached, whatever editors *)
(* do to the file. A comment on a task the cache did not hold escapes the  *)
(* lock that protects this, so none has been made.                         *)
EngineOwnsPosition ==
    live /\ Cached /\ at = "free" /\ comments = 0 => cache.body.pos = owner

(* A write of the store never takes back what a person has written while   *)
(* no critical section was under way: mutations and restores build on it.  *)
HumanFieldsKept ==
    file.body \in Body /\ landed = "free" => file.body.text = human

(* Every edit is noticed: in the end the cache holds what the file holds,  *)
(* or holds nothing when there is nothing to hold.                         *)
Agreement == IF file.body \in Body THEN cache = file ELSE cache = NoEntry
EditsAreSeen == <>[](Agreement \/ landed = "written")

(* Whoever listens to the store has been told of every change of what it   *)
(* serves, an edit included that a request was the first to find, unless   *)
(* that request came to nothing: it threw, or its comment was not there.   *)
ChangesAreTold == at = "free" /\ talk # "write" => told \/ dropped
=============================================================================
