----------------------------- MODULE StoreProofs -----------------------------
(* Proofs about the files of a project: who owns which field of a task.json *)
(* and that every change of the cached record is announced (TaskFile); that *)
(* a subscription to a transcript misses no line and the screen shows a     *)
(* prefix of the file (SessionFeed).                                        *)
EXTENDS TaskFile, SessionFeed, SequenceTheorems, TLAPS

-----------------------------------------------------------------------------
(* A task.json. *)

Stored == [sig : Nat \ {0}, body : Body]
Broken == [sig : Nat \ {0}, body : {Corrupt}]

(* A signature that was read belongs to a file there was, and what a write  *)
(* puts into place is a record.                                             *)
FileOK ==
    /\ file \in Stored \cup Broken \cup {NoEntry}
    /\ cache \in Stored \cup {NoEntry}
    /\ live \in BOOLEAN /\ stamp \in Nat
    /\ op \in Mutation \cup {Reconcile}
    /\ at \in {"free", "probe", "stat", "read", "rename", "restat"}
    /\ sig \in Nat /\ (at = "read" => sig # 0)
    /\ restoring \in BOOLEAN
    /\ talk \in {"idle", "stat", "read", "write"}
    /\ peeked \in Nat /\ (talk = "read" => peeked # 0)
    /\ at \in {"rename", "restat"} => next \in Body /\ (restoring \/ op \in Mutation)
    /\ told \in BOOLEAN /\ dropped \in BOOLEAN
    /\ landed \in {"free", "critical", "written"}
    /\ edits \in Nat /\ mutations \in Nat /\ comments \in Nat

(* Between the write of a mutation or a comment and its end a change may be *)
(* unannounced.                                                             *)
Settled == told \/ dropped \/ talk = "write"
ToldInv == Settled \/ (at \in {"rename", "restat"} /\ ~restoring)

(* Without a comment the cached position is the owner's, and what is        *)
(* written keeps it unless the write is a change of position.               *)
PositionInv ==
    comments = 0 =>
        /\ talk = "idle"
        /\ Cached => cache.body.pos = owner
        /\ at \in {"rename", "restat"} /\ (restoring \/ op.kind = "text")
               => next.pos = owner

(* A signature names one content, but for an edit on a file just written.   *)
SignatureInv ==
    /\ file.sig <= stamp /\ cache.sig <= stamp /\ sig <= stamp /\ peeked <= stamp
    /\ landed # "written" =>
           /\ file # NoEntry /\ file.sig = cache.sig => cache.body = file.body
           /\ at = "restat" => file.body = next

(* What a person wrote is in the file, in the cache when there is no        *)
(* readable file, and in what is about to be written.                       *)
TextInv ==
    landed = "free" =>
        /\ file.body \in Body => file.body.text = human
        /\ file.body \notin Body /\ Cached => cache.body.text = human
        /\ at = "rename" /\ (restoring \/ op.kind = "position") => next.text = human

FileInv == FileOK /\ ToldInv /\ PositionInv /\ SignatureInv /\ TextInv

-----------------------------------------------------------------------------
(* What is written, and what a mutation makes of it, are records.           *)
LEMMA Records ==
    /\ Absent \notin Body /\ Corrupt \notin Body /\ Absent # Corrupt
    /\ NoEntry = [sig |-> 0, body |-> Absent]
    /\ Reconcile \notin Mutation
    /\ \A o \in Mutation : o.kind \in {"position", "text"}
BY TaskFileAssumption DEF NoEntry, Entry, Reconcile, Mutation

LEMMA Applied ==
    ASSUME NEW b \in Body, op \in Mutation
    PROVE  /\ Apply(b) \in Body
           /\ op.kind = "text" => Apply(b).pos = b.pos
           /\ op.kind = "position" => Apply(b).text = b.text
BY DEF Mutation, Apply, Body

(* The end of reconcileLocked: the section is left, or a mutation goes on   *)
(* to write the record that is now in the cache.                            *)
Left == at' = "free" /\ op' = Reconcile /\ sig' = 0 /\ restoring' = FALSE
GoesOn(e) ==
    /\ at' = "rename" /\ op' = op /\ op \in Mutation /\ sig' = 0 /\ restoring' = FALSE
    /\ e \in Stored /\ next' \in Body
    /\ op.kind = "text" => next'.pos = e.body.pos
    /\ op.kind = "position" => next'.text = e.body.text

LEMMA ReconciledEnds ==
    ASSUME FileOK, NEW e \in Stored \cup {NoEntry}, Reconciled(e), UNCHANGED talk
    PROVE  /\ cache' = e
           /\ Left \/ GoesOn(e)
           /\ told' \in BOOLEAN /\ dropped' \in BOOLEAN
           /\ Settled => ToldInv'
<1>1. CASE op = Reconcile /\ Leave
  BY <1>1, Records DEF Reconciled, Left, Leave, Keep, Announce, FileOK, ToldInv, Settled
<1>2. CASE op # Reconcile /\ e = NoEntry /\ Leave /\ Throw(e)
  BY <1>2 DEF Reconciled, Left, Leave, Throw, FileOK, ToldInv, Settled
<1>3. CASE op # Reconcile /\ e # NoEntry /\ Put(Apply(e.body), FALSE) /\ Keep(e)
  <2>1. e \in Stored /\ e.body \in Body /\ op \in Mutation
    BY <1>3 DEF Stored, FileOK
  <2>2. GoesOn(e)
    BY <1>3, <2>1, Applied DEF Put, GoesOn
  <2> QED
    BY <1>3, <2>2 DEF Reconciled, Keep, Put, FileOK, ToldInv, Settled
<1> QED
  BY <1>1, <1>2, <1>3 DEF Reconciled

(* A step of the section that takes nothing over from the file.             *)
LEMMA SectionStays ==
    ASSUME FileInv, NEW e \in Stored \cup {NoEntry}, Reconciled(e), at \notin {"rename"},
           UNCHANGED <<file, live, stamp, talks, human, landed, bounds>>,
           Settled,
           e # NoEntry => e.sig <= stamp,
           comments = 0 /\ e # NoEntry => e.body.pos = owner',
           landed # "written" /\ file # NoEntry /\ file.sig = e.sig => e.body = file.body,
           landed = "free" /\ e # NoEntry => e.body.text = human
    PROVE  FileInv'
<1>1. /\ cache' = e /\ (Left \/ GoesOn(e))
      /\ told' \in BOOLEAN /\ dropped' \in BOOLEAN /\ ToldInv'
  BY ReconciledEnds DEF FileInv, talks
<1>2. /\ FileOK /\ PositionInv /\ SignatureInv /\ TextInv
      /\ UNCHANGED <<file, live, stamp, talk, peeked, human, landed, edits, mutations, comments>>
  BY DEF FileInv, talks, bounds
<1>3. CASE Left
  <2>1. FileOK' /\ PositionInv'
    BY <1>1, <1>2, <1>3 DEF FileOK, PositionInv, Left, Cached
  <2>2. SignatureInv' /\ TextInv'
    BY <1>1, <1>2, <1>3, Records DEF SignatureInv, TextInv, FileOK, Left, Cached
  <2> QED
    BY <1>1, <2>1, <2>2 DEF FileInv
<1>4. CASE GoesOn(e)
  <2>1. FileOK'
    BY <1>1, <1>2, <1>4 DEF FileOK, GoesOn
  <2>2. /\ e # NoEntry /\ op.kind \in {"position", "text"}
    BY <1>4, Records DEF GoesOn, Stored
  <2>3. PositionInv'
    BY <1>1, <1>2, <1>4, <2>2 DEF PositionInv, GoesOn, Cached
  <2>4. SignatureInv'
    BY <1>1, <1>2, <1>4, <2>2, Records DEF SignatureInv, FileOK, GoesOn
  <2>5. TextInv'
    BY <1>1, <1>2, <1>4, <2>2 DEF TextInv, GoesOn, Cached
  <2> QED
    BY <1>1, <2>1, <2>3, <2>4, <2>5 DEF FileInv
<1> QED
  BY <1>1, <1>3, <1>4

(* A restore writes the cached record, or the file's with the cached        *)
(* position.                                                                *)
LEMMA RestoreStays ==
    ASSUME FileInv, NEW b \in Body, Cached, Restore(b),
           UNCHANGED <<file, live, stamp, talks, human, landed, bounds, owner>>,
           Settled,
           b.pos = cache.body.pos,
           landed = "free" => b.text = human
    PROVE  FileInv'
<1>1. /\ at' = "rename" /\ next' = b /\ restoring' = TRUE /\ sig' = 0
      /\ UNCHANGED <<op, cache, told, dropped>>
  BY DEF Restore, Put
<1>2. FileOK'
  BY <1>1 DEF FileInv, FileOK, talks, bounds
<1>3. PositionInv' /\ ToldInv'
  BY <1>1 DEF FileInv, PositionInv, FileOK, ToldInv, Settled, talks, bounds, Cached
<1>4. SignatureInv'
  BY <1>1 DEF FileInv, SignatureInv, FileOK, talks, bounds
<1>5. TextInv'
  BY <1>1 DEF FileInv, TextInv, FileOK, Cached
<1> QED
  BY <1>2, <1>3, <1>4, <1>5 DEF FileInv

(* Every step keeps the invariant. *)
LEMMA FileStep == FileInv /\ [TaskNext]_taskFileVars => FileInv'
<1> SUFFICES ASSUME FileInv, [TaskNext]_taskFileVars PROVE FileInv'
  OBVIOUS
<1> USE DEF section, talks, bounds, promises
<1>u. /\ Settled \/ (at \in {"rename", "restat"} /\ ~restoring)
      /\ FileOK /\ PositionInv /\ SignatureInv /\ TextInv
  BY DEF FileInv, ToldInv, Settled
<1>v. /\ file # NoEntry => file.sig \in Nat \ {0} /\ file.body \in Body \cup {Corrupt}
      /\ cache # NoEntry => cache \in Stored /\ cache.sig \in Nat \ {0} /\ cache.body \in Body
      /\ NoEntry.sig = 0 /\ NoEntry.body = Absent
  BY <1>u, Records DEF FileOK, Stored, Broken
<1>1. CASE Edit
  <2>1. \/ \E b \in Body \cup {Corrupt} :
               /\ file' = Entry(stamp + 1, b) /\ stamp' = stamp + 1
               /\ b \in Body => human' = b.text
               /\ b = Corrupt => human' = LastSeen
        \/ file' = NoEntry /\ stamp' = stamp /\ human' = LastSeen
    BY <1>1, Records DEF Edit
  <2>2. /\ UNCHANGED <<cache, live, section, talks, told, dropped, owner, mutations, comments>>
        /\ edits' = edits + 1
        /\ at = "free" => landed' = "free"
        /\ at = "restat" => landed' = "written"
        /\ at \notin {"free", "restat"} => landed' = "critical"
    BY <1>1 DEF Edit
  <2>3. file' \in Stored \cup Broken \cup {NoEntry} /\ stamp' \in Nat /\ stamp <= stamp'
    BY <2>1, <1>u DEF Entry, Stored, Broken, FileOK
  <2>4. FileOK' /\ ToldInv' /\ PositionInv'
    BY <2>2, <2>3, <1>u DEF FileOK, ToldInv, Settled, PositionInv, Cached
  <2>5. SignatureInv'
    BY <2>1, <2>2, <2>3, <1>u, <1>v, Records DEF FileOK, SignatureInv, Entry
  <2>6. TextInv'
    BY <2>1, <2>2, <1>u, <1>v, Records DEF FileOK, TextInv, Entry, LastSeen, Cached
  <2> QED
    BY <2>4, <2>5, <2>6 DEF FileInv
<1>2. CASE SessionLife
  <2>1. /\ UNCHANGED <<file, cache, stamp, section, talks, promises, bounds>>
        /\ live' \in BOOLEAN
    BY <1>2 DEF SessionLife
  <2> QED
    BY <2>1, <1>u DEF FileInv, FileOK, ToldInv, Settled, PositionInv, SignatureInv, TextInv, Cached
<1>3. CASE EnterReconcile \/ EnterMutation
  <2>1. /\ UNCHANGED <<file, cache, live, stamp, sig, next, restoring, talks, promises,
                       edits, comments>>
        /\ at = "free" /\ at' = "probe" /\ op' \in Mutation \cup {Reconcile}
        /\ mutations' \in Nat
    BY <1>3, <1>u DEF EnterReconcile, EnterMutation, Enter, FileOK
  <2>2. FileOK' /\ ToldInv' /\ PositionInv'
    BY <2>1, <1>u DEF FileOK, ToldInv, Settled, PositionInv, Cached
  <2>3. SignatureInv' /\ TextInv'
    BY <2>1, <1>u DEF SignatureInv, TextInv, Cached
  <2> QED
    BY <2>2, <2>3 DEF FileInv
<1>4. CASE Probe
  <2>1. /\ UNCHANGED <<file, live, stamp, talks, owner, human, landed, bounds>>
        /\ at = "probe" /\ Settled
    BY <1>4, <1>u DEF Probe
  <2>2. CASE Gone /\ Restores /\ Restore(cache.body)
    BY <2>1, <2>2, <1>u, <1>v, Records, RestoreStays DEF Gone, Restores, Cached, TextInv
  <2>3. CASE Gone /\ ~Restores /\ Reconciled(NoEntry)
    BY <2>1, <2>3, <1>v, SectionStays DEF Gone
  <2>4. CASE ~Gone /\ Same /\ Reconciled(cache)
    <3>1. cache # NoEntry
      BY <2>4, <1>v DEF Gone, Same
    <3> QED
      BY <2>1, <2>4, <3>1, <1>u, <1>v, SectionStays
         DEF Gone, Same, PositionInv, SignatureInv, TextInv, Cached
  <2>5. CASE at' = "stat" /\ UNCHANGED <<cache, op, sig, next, restoring, told, dropped>>
    BY <2>1, <2>5, <1>u DEF FileInv, FileOK, ToldInv, Settled, PositionInv, SignatureInv, TextInv, Cached
  <2> QED
    BY <1>4, <2>2, <2>3, <2>4, <2>5 DEF Probe
<1>5. CASE StatDisk
  <2>1. /\ UNCHANGED <<file, live, stamp, talks, owner, human, landed, bounds>>
        /\ at = "stat" /\ Settled
    BY <1>5, <1>u DEF StatDisk
  <2>2. CASE Gone /\ Reconciled(cache)
    BY <2>1, <2>2, <1>u, <1>v, Records, SectionStays
       DEF Gone, FileOK, PositionInv, SignatureInv, TextInv, Cached
  <2>3. CASE /\ ~Gone /\ at' = "read" /\ sig' = file.sig
             /\ UNCHANGED <<cache, op, next, restoring, told, dropped>>
    BY <2>1, <2>3, <1>u, <1>v
       DEF FileInv, FileOK, ToldInv, Settled, PositionInv, SignatureInv, TextInv, Cached, Gone
  <2> QED
    BY <1>5, <2>2, <2>3 DEF StatDisk
<1>6. CASE ReadDisk
  <2>1. /\ UNCHANGED <<file, live, stamp, talks, human, landed, bounds>>
        /\ at = "read" /\ Settled
    BY <1>6, <1>u DEF ReadDisk
  <2>2. CASE UNCHANGED owner /\ file.body \in {Absent, Corrupt} /\ Restores /\ Restore(cache.body)
    BY <2>1, <2>2, <1>u, <1>v, Records, RestoreStays DEF Restores, Cached, TextInv
  <2>3. CASE UNCHANGED owner /\ ~Restores /\ Reconciled(NoEntry)
    BY <2>1, <2>3, <1>v, SectionStays
  <2>4. CASE /\ file.body \in Body /\ Rejects /\ UNCHANGED owner
             /\ Restore([file.body EXCEPT !.pos = cache.body.pos])
    <3> DEFINE b == [file.body EXCEPT !.pos = cache.body.pos]
    <3>1. Cached /\ cache.body \in Body
      BY <2>4, <1>v DEF Rejects, Cached
    <3>2. b \in Body /\ b.pos = cache.body.pos /\ b.text = file.body.text
      BY <2>4, <3>1 DEF Body
    <3>3. landed = "free" => b.text = human
      BY <2>4, <3>2, <1>u DEF TextInv
    <3> HIDE DEF b
    <3> QED
      BY <2>1, <2>4, <3>1, <3>2, <3>3, RestoreStays DEF b
  <2>5. CASE /\ file.body \in Body /\ ~Rejects
             /\ owner' = IF Restores THEN owner ELSE file.body.pos
             /\ Reconciled(Entry(sig, file.body))
    <3> DEFINE e == Entry(sig, file.body)
    <3>1. e \in Stored /\ e.sig = sig /\ e.body = file.body /\ e # NoEntry
      BY <2>1, <2>5, <1>u, Records DEF FileOK, Entry, Stored
    <3>2. comments = 0 => e.body.pos = owner'
      BY <2>5, <3>1, <1>u DEF PositionInv, Rejects, Restores
    <3>3. e.sig <= stamp /\ (landed = "free" => e.body.text = human)
      BY <2>5, <3>1, <1>u DEF SignatureInv, TextInv
    <3> HIDE DEF e
    <3> QED
      BY <2>1, <2>5, <3>1, <3>2, <3>3, SectionStays DEF e
  <2> QED
    BY <1>6, <2>2, <2>3, <2>4, <2>5 DEF ReadDisk
<1>7. CASE Rename
  <2>1. /\ at = "rename" /\ at' = "restat"
        /\ file' = [sig |-> stamp + 1, body |-> next] /\ stamp' = stamp + 1
        /\ UNCHANGED <<cache, live, op, sig, next, restoring, talks, told, dropped,
                       owner, bounds>>
    BY <1>7 DEF Rename, Entry
  <2>2. IF ~restoring /\ op.kind = "text"
        THEN human' = next.text /\ landed' = "free"
        ELSE UNCHANGED <<human, landed>>
    BY <1>7 DEF Rename
  <2>3. next \in Body /\ file' \in Stored /\ file'.sig = stamp + 1 /\ file'.body = next
    BY <2>1, <1>u DEF FileOK, Stored
  <2>4. FileOK' /\ ToldInv' /\ PositionInv'
    BY <2>1, <2>2, <2>3, <1>u DEF FileOK, ToldInv, Settled, PositionInv, Cached
  <2>5. SignatureInv'
    BY <2>1, <2>2, <2>3, <1>u, <1>v, Records DEF FileOK, SignatureInv
  <2>6. TextInv'
    BY <2>1, <2>2, <2>3, <1>u, Records DEF FileOK, TextInv
  <2> QED
    BY <2>4, <2>5, <2>6 DEF FileInv
<1>8. CASE Restat
  <2>1. /\ UNCHANGED <<file, live, stamp, talks, human, landed, bounds>>
        /\ at = "restat"
    BY <1>8 DEF Restat
  <2>2. CASE Gone /\ Leave /\ UNCHANGED <<cache, told, owner>> /\ dropped' = (dropped \/ ~told)
    <3>1. FileOK' /\ ToldInv' /\ PositionInv'
      BY <2>1, <2>2, <1>u DEF FileOK, ToldInv, Settled, PositionInv, Cached, Leave
    <3> QED
      BY <2>1, <2>2, <3>1, <1>u DEF FileInv, FileOK, SignatureInv, TextInv, Cached, Leave
  <2>3. CASE ~Gone /\ restoring /\ Reconciled(Entry(file.sig, next)) /\ UNCHANGED owner
    <3> DEFINE e == Entry(file.sig, next)
    <3>1. e \in Stored /\ e.sig = file.sig /\ e.body = next /\ e # NoEntry
      BY <2>1, <2>3, <1>u, <1>v, Records DEF FileOK, Entry, Stored, Gone
    <3>2. /\ comments = 0 => e.body.pos = owner
          /\ e.sig <= stamp
          /\ landed # "written" => e.body = file.body
          /\ landed = "free" => e.body.text = human
      BY <2>1, <2>3, <3>1, <1>u DEF PositionInv, SignatureInv, TextInv, FileOK
    <3> HIDE DEF e
    <3> QED
      BY <2>1, <2>3, <3>1, <3>2, <1>u, SectionStays DEF e
  <2>4. CASE /\ ~Gone /\ ~restoring /\ cache' = Entry(file.sig, next)
             /\ owner' = IF op.kind = "position" THEN next.pos ELSE owner
             /\ Leave /\ Announce
    <3>1. /\ cache' \in Stored /\ cache'.sig = file.sig /\ cache'.body = next
          /\ op \in Mutation /\ next \in Body
      BY <2>1, <2>4, <1>u, <1>v, Records DEF FileOK, Entry, Stored, Gone
    <3>2. FileOK' /\ ToldInv'
      BY <2>1, <2>4, <3>1, <1>u DEF FileOK, ToldInv, Settled, Leave, Announce
    <3>3. PositionInv'
      BY <2>1, <2>4, <3>1, <1>u, Records DEF PositionInv, Leave, Cached
    <3>4. SignatureInv'
      BY <2>1, <2>4, <3>1, <1>u DEF SignatureInv, FileOK, Leave
    <3>5. TextInv'
      BY <2>1, <2>4, <3>1, <1>u DEF SignatureInv, TextInv, FileOK, Leave
    <3> QED
      BY <3>2, <3>3, <3>4, <3>5 DEF FileInv
  <2> QED
    BY <1>8, <2>2, <2>3, <2>4 DEF Restat
<1>9. CASE CommentPeek
  <2>1. /\ UNCHANGED <<file, cache, live, stamp, section, peeked, promises, edits, mutations>>
        /\ comments' = comments + 1 /\ talk = "idle" /\ talk' = "stat"
    BY <1>9 DEF CommentPeek
  <2> QED
    BY <2>1, <1>u DEF FileInv, FileOK, ToldInv, Settled, PositionInv, SignatureInv, TextInv, Cached
<1>10. CASE CommentStat
  <2>1. /\ UNCHANGED <<file, live, stamp, section, owner, human, landed, bounds>>
        /\ talk = "stat" /\ comments # 0
    BY <1>10, <1>u DEF CommentStat, PositionInv
  <2>2. CASE Gone /\ talk' = "idle" /\ cache' = NoEntry /\ Throw(NoEntry) /\ UNCHANGED peeked
    <3>1. FileOK' /\ ToldInv' /\ PositionInv'
      BY <2>1, <2>2, <1>u DEF FileOK, ToldInv, Settled, PositionInv, Throw
    <3> QED
      BY <2>1, <2>2, <3>1, <1>u, <1>v DEF FileInv, SignatureInv, TextInv, FileOK, Cached, Gone
  <2>3. CASE /\ ~Gone /\ ~Same /\ talk' = "read" /\ peeked' = file.sig
             /\ UNCHANGED <<cache, told, dropped>>
    BY <2>1, <2>3, <1>u, <1>v
       DEF FileInv, FileOK, ToldInv, Settled, PositionInv, SignatureInv, TextInv, Cached, Gone
  <2>4. CASE talk' = "idle" /\ UNCHANGED <<cache, told, dropped, peeked>>
    BY <2>1, <2>4, <1>u
       DEF FileInv, FileOK, ToldInv, Settled, PositionInv, SignatureInv, TextInv, Cached
  <2> QED
    BY <1>10, <2>2, <2>3, <2>4 DEF CommentStat
<1>11. CASE CommentRead
  <2>1. /\ UNCHANGED <<file, live, stamp, section, owner, human, landed, bounds>>
        /\ talk = "read" /\ comments # 0 /\ peeked' = 0
    BY <1>11, <1>u DEF CommentRead, PositionInv
  <2>2. CASE file.body \in Body /\ talk' = "write" /\ cache' = Entry(peeked, file.body)
             /\ Keep(cache')
    <3>1. /\ cache' \in Stored /\ cache'.sig = peeked /\ cache'.body = file.body
      BY <2>1, <2>2, <1>u DEF FileOK, Entry, Stored
    <3>2. FileOK' /\ ToldInv' /\ PositionInv'
      BY <2>1, <2>2, <3>1, <1>u DEF FileOK, ToldInv, Settled, PositionInv, Keep
    <3> QED
      BY <2>1, <2>2, <3>1, <3>2, <1>u DEF FileInv, SignatureInv, TextInv, FileOK
  <2>3. CASE talk' = "idle" /\ UNCHANGED <<cache, told, dropped>>
    BY <2>1, <2>3, <1>u
       DEF FileInv, FileOK, ToldInv, Settled, PositionInv, SignatureInv, TextInv, Cached
  <2> QED
    BY <1>11, <2>2, <2>3 DEF CommentRead
<1>12. CASE CommentWritten
  <2>1. /\ UNCHANGED <<file, cache, live, stamp, section, peeked, owner, human, landed, bounds>>
        /\ talk = "write" /\ talk' = "idle" /\ comments # 0
        /\ told' \in BOOLEAN /\ dropped' \in BOOLEAN /\ (told' \/ dropped')
    BY <1>12, <1>u DEF CommentWritten, Announce, PositionInv, FileOK
  <2> QED
    BY <2>1, <1>u
       DEF FileInv, FileOK, ToldInv, Settled, PositionInv, SignatureInv, TextInv, Cached
<1>13. CASE UNCHANGED taskFileVars
  BY <1>13, <1>u DEF taskFileVars, FileInv, FileOK, ToldInv, Settled, PositionInv, SignatureInv, TextInv, Cached
<1> QED
  BY <1>1, <1>2, <1>3, <1>4, <1>5, <1>6, <1>7, <1>8, <1>9, <1>10, <1>11, <1>12, <1>13
     DEF TaskNext, SectionStep, CommentStep

(* The invariant holds in every state there can be. *)
LEMMA FileInvariant == TaskSpec => []FileInv
<1>1. TaskInit => FileInv
  <2> SUFFICES ASSUME TaskInit PROVE FileInv
    OBVIOUS
  <2>1. PICK b \in Body : file = Entry(1, b) /\ cache = file /\ owner = b.pos /\ human = b.text
    BY DEF TaskInit
  <2>2. file \in Stored /\ file.sig = 1 /\ file.body = b /\ cache = file /\ cache # NoEntry
    BY <2>1, Records DEF Entry, Stored
  <2>3. FileOK
    BY <2>2 DEF TaskInit, FileOK
  <2> QED
    BY <2>1, <2>2, <2>3 DEF TaskInit, FileInv, ToldInv, Settled, PositionInv, SignatureInv, TextInv, Cached
<1> QED
  BY <1>1, FileStep, PTL DEF TaskSpec

(* While a session is live and nobody comments, every reader of the cache   *)
(* finds the position the engine wrote (reconcileLocked rejects an editor's *)
(* change of status, workflow or step).                                     *)
THEOREM PositionIsTheEngines == TaskSpec => []EngineOwnsPosition
<1>1. FileInv => EngineOwnsPosition
  BY DEF FileInv, PositionInv, EngineOwnsPosition
<1> QED
  BY <1>1, FileInvariant, PTL

(* No write of the store takes back the human fields a person has written   *)
(* outside a critical section: mutateTask and a restore build on what the   *)
(* reconcile before them took over from the file.                           *)
THEOREM NoEditIsUndone == TaskSpec => []HumanFieldsKept
<1>1. FileInv => HumanFieldsKept
  BY DEF FileInv, TextInv, HumanFieldsKept
<1> QED
  BY <1>1, FileInvariant, PTL

(* Whenever no section and no comment is being written, every change of the *)
(* cached record has been announced to the store's listeners, or went with  *)
(* a request that threw or found no comment to change (reconcileWithNotify, *)
(* mutateTask, taskExists).                                                 *)
THEOREM ListenersAreTold == TaskSpec => []ChangesAreTold
<1>1. FileInv => ChangesAreTold
  BY DEF FileInv, ToldInv, Settled, ChangesAreTold
<1> QED
  BY <1>1, FileInvariant, PTL

-----------------------------------------------------------------------------
(* A transcript and its subscriptions. *)

Queued == [kind : {"header", "assistant", "note", "partial", "end", "clamp", "replay",
                   "meta", "message", "status", "done", "error"}, n : Nat]

FeedOK ==
    /\ lines \in Seq(Queued) /\ lines # <<>>
    /\ wjobs \in Seq(Queued)
    /\ jobs \in [Sub -> Seq(Queued)]
    /\ cursor \in [Sub -> Nat] /\ current \in Sub \cup {NoSub}
    /\ wrote \in BOOLEAN /\ (wrote => wjobs # <<>>)
    /\ logged \in Nat /\ seen \in Nat

(* The jobs that send every line there is. *)
Pumps == {"replay", "message", "status", "done", "error"}
Begins(q) == Len(q) >= 2 /\ q[1].kind = "clamp" /\ q[2].kind = "replay"
Owed(q) == \E i \in 1..Len(q) : q[i].kind \in Pumps

(* A subscription that is behind has a job that catches up, or the writer   *)
(* is about to queue one.                                                   *)
TailInv ==
    \A s \in Sub : s = current =>
        \/ Begins(jobs[s])
        \/ cursor[s] <= Tail1 /\ (cursor[s] = Tail1 \/ wrote \/ Owed(jobs[s]))

FeedInv == FeedOK /\ TailInv

(* At the most one subscription is made. *)
OneTail == \A s, t \in Sub : s = t

(* The cursor is not past the first line the screen does not show.          *)
PrefixInv ==
    /\ ShownIsPrefix
    /\ \A s \in Sub : cursor[s] <= seen + 1
    /\ ~have => current = NoSub /\ \A s \in Sub : cursor[s] = 0 /\ jobs[s] = <<>>

-----------------------------------------------------------------------------
(* What happens to a chain when a job is queued and when one is done.       *)
LEMMA Queueing ==
    ASSUME NEW q \in Seq(Queued), NEW j \in Queued
    PROVE  /\ Append(q, j) \in Seq(Queued) /\ Append(q, j) # <<>>
           /\ Begins(q) => Begins(Append(q, j))
           /\ Owed(q) \/ j.kind \in Pumps => Owed(Append(q, j))
<1>1. /\ Append(q, j) \in Seq(Queued) /\ Len(Append(q, j)) = Len(q) + 1 /\ Len(q) \in Nat
      /\ \A i \in 1..Len(q) : Append(q, j)[i] = q[i]
      /\ Append(q, j)[Len(q) + 1] = j
  BY AppendProperties, LenProperties
<1> DEFINE r == Append(q, j)
<1> HIDE DEF r
<1>2. /\ r \in Seq(Queued) /\ Len(r) = Len(q) + 1 /\ Len(q) \in Nat
      /\ \A i \in 1..Len(q) : r[i] = q[i]
      /\ r[Len(q) + 1] = j
  BY <1>1 DEF r
<1>3. r # <<>>
  BY <1>2, EmptySeq
<1>4. Begins(q) => Begins(r)
  BY <1>2 DEF Begins
<1>5. Owed(q) => Owed(r)
  BY <1>2 DEF Owed
<1>6. j.kind \in Pumps => Owed(r)
  BY <1>2 DEF Owed
<1> QED
  BY <1>2, <1>3, <1>4, <1>5, <1>6 DEF r

LEMMA Dequeuing ==
    ASSUME NEW q \in Seq(Queued), q # <<>>
    PROVE  /\ Tail(q) \in Seq(Queued)
           /\ Begins(q) => Head(q).kind = "clamp" /\ Owed(Tail(q))
           /\ Owed(q) /\ Head(q).kind \notin Pumps => Owed(Tail(q))
<1>1. /\ Tail(q) \in Seq(Queued) /\ Len(Tail(q)) = Len(q) - 1 /\ Len(q) \in Nat /\ Len(q) > 0
      /\ \A i \in 1..Len(Tail(q)) : Tail(q)[i] = q[i + 1]
      /\ Head(q) = q[1]
  BY HeadTailProperties, LenProperties, EmptySeq
<1> DEFINE r == Tail(q)
<1> HIDE DEF r
<1>2. /\ r \in Seq(Queued) /\ Len(r) = Len(q) - 1 /\ Len(q) \in Nat /\ Len(q) > 0
      /\ \A i \in 1..Len(r) : r[i] = q[i + 1]
      /\ Head(q) = q[1]
  BY <1>1 DEF r
<1>3. Begins(q) => Head(q).kind = "clamp" /\ Owed(r)
  <2> SUFFICES ASSUME Begins(q) PROVE Head(q).kind = "clamp" /\ Owed(r)
    OBVIOUS
  <2>1. 1 \in 1..Len(r) /\ r[1] = q[2]
    BY <1>2 DEF Begins
  <2> QED
    BY <1>2, <2>1 DEF Begins, Owed, Pumps
<1>4. Owed(q) /\ Head(q).kind \notin Pumps => Owed(r)
  <2> SUFFICES ASSUME NEW i \in 1..Len(q), q[i].kind \in Pumps, Head(q).kind \notin Pumps
               PROVE  Owed(r)
    BY DEF Owed
  <2>1. i # 1
    BY <1>2
  <2>2. i - 1 \in 1..Len(r) /\ r[i - 1] = q[i]
    BY <1>2, <2>1
  <2> QED
    BY <2>2 DEF Owed
<1> QED
  BY <1>2, <1>3, <1>4 DEF r

(* What the fan-out of an event does to the chains.                         *)
LEMMA Emitted ==
    ASSUME FeedInv, NEW kind, NEW n, [kind |-> kind, n |-> n] \in Queued, Emit(kind, n)
    PROVE  /\ jobs' \in [Sub -> Seq(Queued)]
           /\ \A s \in Sub : /\ Begins(jobs[s]) => Begins(jobs'[s])
                             /\ Owed(jobs[s]) => Owed(jobs'[s])
                             /\ kind \in Pumps /\ s = current => Owed(jobs'[s])
<1>1. \A s \in Sub : /\ jobs[s] \in Seq(Queued)
                     /\ jobs'[s] = IF s = current THEN Append(jobs[s], [kind |-> kind, n |-> n])
                                   ELSE jobs[s]
  BY DEF FeedInv, FeedOK, Emit, Job
<1>2. \A s \in Sub : /\ jobs'[s] \in Seq(Queued)
                     /\ Begins(jobs[s]) => Begins(jobs'[s])
                     /\ Owed(jobs[s]) => Owed(jobs'[s])
                     /\ kind \in Pumps /\ s = current => Owed(jobs'[s])
  BY <1>1, Queueing
<1>3. jobs' = [s \in Sub |-> jobs'[s]]
  BY DEF Emit
<1> QED
  BY <1>2, <1>3

(* What a job done does to the chains. *)
LEMMA Worked ==
    ASSUME FeedInv, NEW s \in Sub, jobs[s] # <<>>, Done(s)
    PROVE  /\ jobs' \in [Sub -> Seq(Queued)]
           /\ \A t \in Sub \ {s} : jobs'[t] = jobs[t]
           /\ Begins(jobs[s]) => Head(jobs[s]).kind = "clamp" /\ Owed(jobs'[s])
           /\ Owed(jobs[s]) /\ Head(jobs[s]).kind \notin Pumps => Owed(jobs'[s])
<1>1. jobs[s] \in Seq(Queued) /\ jobs' = [jobs EXCEPT ![s] = Tail(jobs[s])]
  BY DEF FeedInv, FeedOK, Done
<1>2. jobs'[s] = Tail(jobs[s]) /\ \A t \in Sub \ {s} : jobs'[t] = jobs[t]
  BY <1>1 DEF FeedInv, FeedOK
<1>3. Tail(jobs[s]) \in Seq(Queued)
  BY <1>1, Dequeuing
<1> QED
  BY <1>1, <1>2, <1>3, Dequeuing DEF FeedInv, FeedOK

LEMMA Appended ==
    ASSUME NEW q \in Seq(Queued), NEW j \in Queued
    PROVE  Append(q, j) \in Seq(Queued) /\ Append(q, j) # <<>> /\ Len(Append(q, j)) = Len(q) + 1
BY AppendProperties, Queueing

(* A line that is sent moves the cursor to the tail.                        *)
LEMMA Shown ==
    ASSUME FeedInv, NEW s \in Sub, ShowLines(s)
    PROVE  /\ cursor' \in [Sub -> Nat] /\ seen' \in Nat
           /\ \A t \in Sub \ {s} : cursor'[t] = cursor[t]
           /\ cursor[s] <= Tail1 => cursor'[s] = Tail1
           /\ cursor'[s] = IF cursor[s] > Len(lines) THEN cursor[s] ELSE Len(lines) + 1
           /\ \/ seen' = seen
              \/ seen' = Len(lines) /\ seen < Len(lines)
           /\ cursor[s] <= Len(lines) => Len(lines) <= seen'
           /\ cursor[s] <= seen + 1 => shown' = shown \cup (seen + 1 .. Len(lines))
<1> DEFINE n == Len(lines)
           c == cursor[s]
           F == {i \in c..n : i > seen}
<1>1. n \in Nat /\ n > 0 /\ c \in Nat /\ seen \in Nat
  BY LenProperties, EmptySeq DEF FeedInv, FeedOK
<1>2. /\ cursor' = [cursor EXCEPT ![s] = IF c > n THEN c ELSE n + 1]
      /\ shown' = shown \cup F /\ seen' = Largest({seen} \cup F)
      /\ Tail1 = n + 1
  BY DEF ShowLines, TranscriptAppended, Fresh, Tail1
<1> HIDE DEF n, c
<1>3. CASE F = {}
  <2>1. Largest({seen} \cup F) = seen
    BY <1>1, <1>3 DEF Largest
  <2>2. c <= n => n <= seen
    BY <1>1, <1>3
  <2>3. c <= seen + 1 => (seen + 1 .. n) = {}
    BY <1>1, <1>3
  <2> QED
    BY <1>1, <1>2, <1>3, <2>1, <2>2, <2>3 DEF n, c, FeedInv, FeedOK
<1>4. CASE F # {}
  <2>1. n \in F /\ \A i \in {seen} \cup F : i \in Int /\ i <= n
    BY <1>1, <1>4
  <2>2. Largest({seen} \cup F) \in {seen} \cup F
        /\ \A i \in {seen} \cup F : i <= Largest({seen} \cup F)
    BY <2>1 DEF Largest
  <2>3. Largest({seen} \cup F) = n /\ seen < n
    BY <2>1, <2>2, <1>1
  <2>4. c <= seen + 1 => (seen + 1 .. n) = F
    BY <1>1
  <2> QED
    BY <1>1, <1>2, <2>3, <2>4 DEF n, c, FeedInv, FeedOK
<1> QED
  BY <1>3, <1>4

(* Every step keeps the types, and a subscription that is behind with a job.*)
LEMMA FeedStep == FeedInv /\ [Next]_vars => FeedInv'
<1> SUFFICES ASSUME FeedInv, [Next]_vars PROVE FeedInv'
  OBVIOUS
<1> USE DEF agentVars, writerVars, subVars, viewVars
<1>a. FeedOK /\ TailInv /\ Len(lines) \in Nat /\ Len(lines) > 0 /\ \A s \in Sub : cursor[s] \in Nat
  BY LenProperties, EmptySeq DEF FeedInv, FeedOK
(* A step that leaves lines, chains and cursors of the subscriptions alone. *)
<1>b. ASSUME UNCHANGED <<lines, wrote, subVars>>, wjobs' \in Seq(Queued), wrote => wjobs' # <<>>,
             logged' \in Nat, seen' \in Nat
      PROVE  FeedInv'
  BY <1>a, <1>b DEF FeedInv, FeedOK, TailInv, Tail1
(* An event is fanned out. *)
<1>c. ASSUME NEW kind, NEW n, [kind |-> kind, n |-> n] \in Queued, Emit(kind, n),
             UNCHANGED <<lines, current, cursor, logged, seen>>,
             wjobs' \in Seq(Queued), wrote' = FALSE, wrote => kind \in Pumps
      PROVE  FeedInv'
  <2>1. /\ jobs' \in [Sub -> Seq(Queued)]
        /\ \A s \in Sub : /\ Begins(jobs[s]) => Begins(jobs'[s])
                          /\ Owed(jobs[s]) => Owed(jobs'[s])
                          /\ kind \in Pumps /\ s = current => Owed(jobs'[s])
    BY <1>c, Emitted
  <2> QED
    BY <2>1, <1>a, <1>c DEF FeedInv, FeedOK, TailInv, Tail1
(* A subscription works off a job, and is at the tail or still owed a pump. *)
<1>d. ASSUME NEW s \in Sub, jobs[s] # <<>>, Done(s),
             UNCHANGED <<agentVars, writerVars, current>>,
             cursor' \in [Sub -> Nat], seen' \in Nat,
             \A t \in Sub \ {s} : cursor'[t] = cursor[t],
             \/ Head(jobs[s]).kind \notin Pumps \cup {"clamp"} /\ cursor'[s] = cursor[s]
             \/ Head(jobs[s]).kind # "clamp" /\ (cursor[s] <= Tail1 => cursor'[s] = Tail1)
             \/ Head(jobs[s]).kind = "clamp"
                   /\ cursor'[s] = IF cursor[s] > Tail1 THEN Tail1 ELSE cursor[s]
      PROVE  FeedInv'
  <2>1. /\ jobs' \in [Sub -> Seq(Queued)]
        /\ \A t \in Sub \ {s} : jobs'[t] = jobs[t]
        /\ Begins(jobs[s]) => Head(jobs[s]).kind = "clamp" /\ Owed(jobs'[s])
        /\ Owed(jobs[s]) /\ Head(jobs[s]).kind \notin Pumps => Owed(jobs'[s])
    BY <1>d, Worked
  <2>2. FeedOK'
    BY <2>1, <1>a, <1>d DEF FeedOK
  <2>3. Tail1 \in Nat /\ Tail1' = Tail1
    BY <1>a, <1>d DEF Tail1
  <2>4. ASSUME s = current
        PROVE  \/ Begins(jobs'[s])
               \/ cursor'[s] <= Tail1 /\ (cursor'[s] = Tail1 \/ wrote \/ Owed(jobs'[s]))
    BY <2>1, <2>3, <2>4, <1>a, <1>d DEF TailInv, Pumps
  <2>5. TailInv'
    BY <2>1, <2>3, <2>4, <1>a, <1>d DEF TailInv
  <2> QED
    BY <2>2, <2>5 DEF FeedInv
<1>1. CASE Claim \/ Settle \/ Seal
  <2>1. CASE Claim \/ Seal
    BY <2>1, <1>a, <1>b DEF Claim, Seal, FeedOK
  <2>2. CASE Settle
    <3>1. Job("end", 0) \in Queued
      BY DEF Job, Queued
    <3>2. wjobs' \in Seq(Queued) /\ wjobs' # <<>>
      BY <2>2, <3>1, <1>a, Appended DEF Settle, FeedOK
    <3> QED
      BY <2>2, <3>2, <1>a, <1>b DEF Settle, FeedOK
  <2> QED
    BY <1>1, <2>1, <2>2
<1>2. CASE AgentStep
  <2>1. /\ Job("assistant", logged + 1) \in Queued /\ Job("note", 0) \in Queued
        /\ Job("partial", logged + 1) \in Queued
    BY <1>a DEF Job, Queued, FeedOK
  <2>2. \E j \in Queued : wjobs' = Append(wjobs, j)
    BY <1>2, <2>1 DEF AgentStep, LogMessage, LogNote, Partial
  <2>3. wjobs' \in Seq(Queued) /\ wjobs' # <<>>
    BY <2>2, <1>a, Appended DEF FeedOK
  <2>4. logged' \in Nat
    BY <1>2, <1>a DEF AgentStep, LogMessage, LogNote, Partial, FeedOK
  <2> QED
    BY <1>2, <2>3, <2>4, <1>a, <1>b DEF AgentStep, LogMessage, LogNote, Partial, FeedOK
<1>3. CASE EmitRunning \/ EmitEnd
  <2>1. \A kind \in {"status", "done", "error"} :
            [kind |-> kind, n |-> 0] \in Queued /\ kind \in Pumps
    BY DEF Queued, Pumps
  <2>2. CASE ~wrote
    BY <1>3, <2>1, <2>2, <1>a, <1>c DEF EmitRunning, EmitEnd, FeedOK
  <2>3. CASE wrote
    <3>1. /\ jobs' \in [Sub -> Seq(Queued)]
          /\ \A s \in Sub : Begins(jobs[s]) => Begins(jobs'[s])
      BY <1>3, <2>1, Emitted DEF EmitRunning, EmitEnd
    <3> QED
      BY <1>3, <2>3, <3>1, <1>a DEF EmitRunning, EmitEnd, FeedInv, FeedOK, TailInv, Tail1
  <2> QED
    BY <2>2, <2>3
<1>4. CASE WriteLine
  <2>1. Head(wjobs) \in Queued
    BY <1>4, <1>a, HeadTailProperties DEF WriteLine, FeedOK
  <2>2. /\ lines' \in Seq(Queued) /\ lines' # <<>> /\ Len(lines') = Len(lines) + 1
    BY <1>4, <2>1, <1>a, Appended DEF WriteLine, FeedOK
  <2>3. wrote' = TRUE /\ wjobs # <<>> /\ UNCHANGED <<wjobs, subVars, logged, seen>>
    BY <1>4 DEF WriteLine
  <2> QED
    BY <2>2, <2>3, <1>a DEF FeedInv, FeedOK, TailInv, Tail1
<1>5. CASE EmitEntry
  <2>1. [kind |-> "message", n |-> 0] \in Queued /\ "message" \in Pumps
    BY DEF Queued, Pumps
  <2>2. wjobs' \in Seq(Queued)
    BY <1>5, <1>a, Dequeuing DEF EmitEntry, FeedOK
  <2> QED
    BY <1>5, <2>1, <2>2, <1>c DEF EmitEntry
<1>6. CASE AppendFails
  <2>1. wjobs' \in Seq(Queued)
    BY <1>6, <1>a, Dequeuing DEF AppendFails, FeedOK
  <2> QED
    BY <1>6, <2>1, <1>a, <1>b DEF AppendFails, FeedOK
<1>7. CASE EmitPartial
  <2>1. wjobs' \in Seq(Queued) /\ Head(wjobs) \in Queued
    BY <1>7, <1>a, Dequeuing, HeadTailProperties DEF EmitPartial, FeedOK
  <2>2. [kind |-> "partial", n |-> Head(wjobs).n] \in Queued
    BY <2>1 DEF Queued
  <2> QED
    BY <1>7, <2>1, <2>2, <1>a, <1>c DEF EmitPartial, FeedOK
<1>8. ASSUME NEW s \in Sub, Clamp(s) PROVE FeedInv'
  BY <1>8, <1>a, <1>d DEF Clamp, Working, FeedOK, Tail1
<1>9. ASSUME NEW s \in Sub, Pump(s) PROVE FeedInv'
  <2>1. /\ cursor' \in [Sub -> Nat] /\ seen' \in Nat
        /\ \A t \in Sub \ {s} : cursor'[t] = cursor[t]
        /\ cursor[s] <= Tail1 => cursor'[s] = Tail1
    BY <1>9, Shown DEF Pump
  <2> QED
    BY <1>9, <2>1, <1>d DEF Pump, Working
<1>10. ASSUME NEW s \in Sub, MetaFrame(s) PROVE FeedInv'
  BY <1>10, <1>a, <1>d DEF MetaFrame, Working, FeedOK, Pumps
<1>11. ASSUME NEW s \in Sub, LifeFrame(s) \/ ErrorFrame(s) PROVE FeedInv'
  <2>1. /\ cursor' \in [Sub -> Nat] /\ seen' \in Nat
        /\ \A t \in Sub \ {s} : cursor'[t] = cursor[t]
        /\ cursor[s] <= Tail1 => cursor'[s] = Tail1
    BY <1>11, Shown DEF LifeFrame, ErrorFrame
  <2> QED
    BY <1>11, <2>1, <1>d DEF LifeFrame, ErrorFrame, Working
<1>12. ASSUME NEW s \in Sub, PartialFrame(s) PROVE FeedInv'
  BY <1>12, <1>a, <1>d DEF PartialFrame, Working, FeedOK, Pumps
<1>13. CASE SelectLive
  <2>1. PICK s \in Sub, from \in FromLine : /\ StartSubscription(s, from)
                                            /\ TranscriptReset(from - 1)
    BY <1>13 DEF SelectLive
  <2> DEFINE q == <<Job("clamp", 0), Job("replay", 0), Job("meta", 0)>>
  <2>2. q \in Seq(Queued) /\ Begins(q)
    BY DEF Job, Queued, Begins
  <2>3. /\ jobs' = [jobs EXCEPT ![s] = q] /\ cursor' = [cursor EXCEPT ![s] = from]
        /\ current' = s /\ seen' = from - 1 /\ from \in Nat \ {0}
    BY <2>1, FeedAssumption DEF StartSubscription, TranscriptReset
  <2> HIDE DEF q
  <2>4. UNCHANGED <<agentVars, writerVars>>
    BY <1>13 DEF SelectLive
  <2>5. jobs'[s] = q /\ jobs' \in [Sub -> Seq(Queued)] /\ cursor' \in [Sub -> Nat]
    BY <2>2, <2>3, <1>a DEF FeedOK
  <2> QED
    BY <2>2, <2>3, <2>4, <2>5, <1>a DEF FeedInv, FeedOK, TailInv
<1>14. CASE SelectTerminal
  <2>1. Largest(Transcript) = Len(lines)
    BY <1>a DEF Largest, Transcript
  <2>2. seen' \in Nat
    BY <1>14, <2>1, <1>a DEF SelectTerminal, TranscriptReset, FeedOK
  <2> QED
    BY <1>14, <2>2, <1>a, <1>b DEF SelectTerminal, FeedOK
<1>15. CASE Deselect
  BY <1>15, <1>a, FeedAssumption DEF Deselect, Unsubscribe, FeedInv, FeedOK, TailInv, Tail1
<1>16. CASE UNCHANGED vars
  BY <1>16, <1>a, <1>b DEF vars, FeedOK
<1> QED
  BY <1>1, <1>2, <1>3, <1>4, <1>5, <1>6, <1>7, <1>8, <1>9, <1>10, <1>11, <1>12, <1>13,
     <1>14, <1>15, <1>16 DEF Next, SessionStep, WriterStep, ViewStep, SubStep

(* The invariant holds in every state there can be. *)
LEMMA FeedInvariant == Spec => []FeedInv
<1>1. Init => FeedInv
  <2> SUFFICES ASSUME Init PROVE FeedInv
    OBVIOUS
  <2>1. Line("header", 0) \in Queued
    BY DEF Line, Queued
  <2>2. <<Line("header", 0)>> \in Seq(Queued) /\ <<Line("header", 0)>> # <<>>
    BY <2>1
  <2>3. <<>> \in Seq(Queued)
    OBVIOUS
  <2>4. FeedOK
    BY <2>2, <2>3 DEF Init, FeedOK
  <2> QED
    BY <2>4, FeedAssumption DEF Init, FeedInv, TailInv
<1> QED
  BY <1>1, FeedStep, PTL DEF Spec

(* Whenever no chain has anything left to do, the subscription has sent     *)
(* every line of the file, wherever it started and however its replay and   *)
(* the appends overlapped (SessionSubscription.start, pumpLines).           *)
THEOREM NoLineMissed == Spec => []CursorAtTail
<1>1. FeedInv => CursorAtTail
  <2> SUFFICES ASSUME FeedInv, Quiet, current # NoSub PROVE cursor[current] = Tail1
    BY DEF CursorAtTail
  <2>1. current \in Sub /\ jobs[current] = <<>> /\ ~wrote
    BY DEF FeedInv, FeedOK, Quiet
  <2>2. ~Begins(<<>>) /\ ~Owed(<<>>)
    BY DEF Begins, Owed
  <2> QED
    BY <2>1, <2>2 DEF FeedInv, TailInv
<1> QED
  BY <1>1, FeedInvariant, PTL

-----------------------------------------------------------------------------
(* Every step keeps the screen a prefix, as long as no frames of an earlier *)
(* subscription arrive.                                                     *)
LEMMA PrefixStep ==
    ASSUME OneTail, FeedInv, PrefixInv, [Next]_vars
    PROVE  PrefixInv'
<1> USE DEF agentVars, writerVars, subVars, viewVars
<1>a. /\ Len(lines) \in Nat /\ Len(lines) > 0 /\ \A s \in Sub : cursor[s] \in Nat
      /\ seen \in Nat /\ shown = 1..seen
  BY LenProperties, EmptySeq DEF FeedInv, FeedOK, PrefixInv, ShownIsPrefix
<1>b. ASSUME UNCHANGED <<cursor, current, have, seen, shown>>,
             \A s \in Sub : s # current => jobs'[s] = <<>> \/ jobs'[s] = jobs[s]
      PROVE  PrefixInv'
  BY <1>b, FeedAssumption DEF PrefixInv, ShownIsPrefix
<1>c. ASSUME NEW s \in Sub, jobs[s] # <<>>, UNCHANGED have,
             \/ ShowLines(s)
             \/ /\ UNCHANGED <<seen, shown>>
                /\ \A t \in Sub : cursor'[t] \in Nat /\ cursor'[t] <= cursor[t]
      PROVE  PrefixInv'
  <2>1. have
    BY <1>c DEF PrefixInv
  <2>2. CASE ShowLines(s)
    <3>1. /\ \A t \in Sub \ {s} : cursor'[t] = cursor[t]
          /\ cursor'[s] = IF cursor[s] > Len(lines) THEN cursor[s] ELSE Len(lines) + 1
          /\ \/ seen' = seen
             \/ seen' = Len(lines) /\ seen < Len(lines)
          /\ cursor[s] <= Len(lines) => Len(lines) <= seen'
          /\ shown' = shown \cup (seen + 1 .. Len(lines))
      BY <2>2, Shown DEF PrefixInv
    <3>2. CASE seen' = seen /\ cursor[s] > Len(lines)
      <4>1. CASE Len(lines) <= seen
        BY <1>a, <3>1, <3>2, <4>1, <2>1, <1>c DEF PrefixInv, ShownIsPrefix
      <4>2. CASE Len(lines) > seen
        BY <1>a, <3>1, <3>2, <4>2 DEF PrefixInv
      <4> QED
        BY <4>1, <4>2, <1>a
    <3>3. CASE seen' = seen /\ Len(lines) <= seen
      BY <1>a, <3>1, <3>3, <2>1, <1>c DEF PrefixInv, ShownIsPrefix
    <3>4. CASE seen' = Len(lines) /\ seen < Len(lines)
      <4>1. shown' = 1..Len(lines)
        BY <1>a, <3>1, <3>4
      <4>2. \A t \in Sub : cursor'[t] <= seen' + 1
        BY <1>a, <3>1, <3>4 DEF PrefixInv
      <4> QED
        BY <4>1, <4>2, <2>1, <3>4, <1>c DEF PrefixInv, ShownIsPrefix
    <3> QED
      BY <1>a, <3>1, <3>2, <3>3, <3>4
  <2>3. CASE /\ UNCHANGED <<seen, shown>>
             /\ \A t \in Sub : cursor'[t] \in Nat /\ cursor'[t] <= cursor[t]
    BY <1>a, <1>c, <2>1, <2>3 DEF PrefixInv, ShownIsPrefix
  <2> QED
    BY <1>c, <2>2, <2>3
<1>d. Largest(Transcript) = Len(lines)
  BY <1>a DEF Largest, Transcript
<1>1. CASE AgentStep \/ WriteLine \/ AppendFails \/ Claim \/ Settle \/ Seal
  BY <1>1, <1>b DEF AgentStep, LogMessage, LogNote, Partial, WriteLine, AppendFails, Claim,
                    Settle, Seal
<1>2. CASE EmitRunning \/ EmitEnd \/ EmitEntry \/ EmitPartial
  BY <1>2, <1>b DEF EmitRunning, EmitEnd, EmitEntry, EmitPartial, Emit
<1>3. ASSUME NEW s \in Sub, Clamp(s) PROVE PrefixInv'
  <2>1. \A t \in Sub : cursor'[t] \in Nat /\ cursor'[t] <= cursor[t]
    BY <1>3, <1>a DEF Clamp, FeedInv, FeedOK, Tail1
  <2> QED
    BY <1>3, <2>1, <1>c DEF Clamp, Working
<1>4. ASSUME NEW s \in Sub, Pump(s) PROVE PrefixInv'
  BY <1>4, <1>c DEF Pump, Working
<1>5. ASSUME NEW s \in Sub, MetaFrame(s) \/ PartialFrame(s) PROVE PrefixInv'
  BY <1>5, <1>a, <1>c DEF MetaFrame, PartialFrame, Working
<1>6. ASSUME NEW s \in Sub, LifeFrame(s) \/ ErrorFrame(s) PROVE PrefixInv'
  BY <1>6, <1>c DEF LifeFrame, ErrorFrame, Working
<1>7. CASE SelectLive
  <2>1. PICK s \in Sub, from \in FromLine : /\ StartSubscription(s, from)
                                            /\ TranscriptReset(from - 1)
    BY <1>7 DEF SelectLive
  <2>2. /\ \A t \in Sub : cursor'[t] = from
        /\ seen' = from - 1 /\ shown' = 1..(from - 1) /\ from \in Nat \ {0} /\ have' = TRUE
    BY <1>7, <2>1, FeedAssumption
       DEF SelectLive, StartSubscription, TranscriptReset, OneTail, FeedInv, FeedOK
  <2> QED
    BY <2>2 DEF PrefixInv, ShownIsPrefix
<1>8. CASE SelectTerminal
  <2>1. have' = TRUE /\ UNCHANGED <<cursor, jobs, current>>
    BY <1>8 DEF SelectTerminal
  <2>2. CASE have
    BY <1>8, <2>1, <2>2, <1>a DEF SelectTerminal, PrefixInv, ShownIsPrefix
  <2>3. CASE ~have
    <3>1. seen' = Len(lines) /\ shown' = 1..Len(lines)
      BY <1>8, <2>3, <1>d DEF SelectTerminal, TranscriptReset
    <3> QED
      BY <2>1, <2>3, <3>1, <1>a DEF PrefixInv, ShownIsPrefix
  <2> QED
    BY <2>2, <2>3
<1>9. CASE Deselect
  BY <1>9, <1>a DEF Deselect, Unsubscribe, PrefixInv, ShownIsPrefix
<1>10. CASE UNCHANGED vars
  BY <1>10, <1>b DEF vars
<1> QED
  BY <1>1, <1>2, <1>3, <1>4, <1>5, <1>6, <1>7, <1>8, <1>9, <1>10
     DEF Next, SessionStep, WriterStep, ViewStep, SubStep

(* The lines on screen of a session that was tailed once are the first      *)
(* lines of its file: the reducer drops what it has seen, and no frame      *)
(* skips a line (transcript/append).  OneTail is needed: the frames an      *)
(* earlier subscription still had in its chain move the seen line.          *)
THEOREM NoHoleOnScreen ==
    ASSUME OneTail
    PROVE  Spec => []ShownIsPrefix
<1>1. Init => PrefixInv
  BY DEF Init, PrefixInv, ShownIsPrefix
<1>2. FeedInv /\ PrefixInv /\ [Next]_vars => PrefixInv'
  BY PrefixStep
<1>3. PrefixInv => ShownIsPrefix
  BY DEF PrefixInv
<1> QED
  BY <1>1, <1>2, <1>3, FeedInvariant, PTL DEF Spec
=============================================================================
