----------------------------- MODULE SessionFeed -----------------------------
(***************************************************************************)
(* From an agent's log calls to a front end's screen: the transcript       *)
(* writer of one session, the subscriptions of one connection that replay  *)
(* and tail its file, and the view the GUI folds from their frames.        *)
(*                                                                         *)
(* Writer and subscriptions are promise chains: each runs one job after    *)
(* the other, and the chains interleave at every awaited read or write.    *)
(* Frames reach the front end in the order they are sent. The project-wide *)
(* session-changed channel is left out.                                    *)
(***************************************************************************)
EXTENDS Integers, Sequences, FiniteSets

CONSTANTS
    Sub,          \* SessionSubscription objects, each used once
    NoSub,
    FromLine,     \* values of from_line
    MaxMessage,   \* bound: assistant messages the agent logs
    MaxNote,      \* bound: other entries it logs
    MaxPartial,   \* bound: snapshots it streams
    MaxFault      \* bound: appends that fail

ASSUME FeedAssumption ==
    /\ NoSub \notin Sub
    /\ FromLine \subseteq Nat \ {0}
    /\ {MaxMessage, MaxNote, MaxPartial, MaxFault} \subseteq Nat

VARIABLES
    \* the agent and its session
    life,       \* meta status, and whether its event is out
    failing,    \* it ends failed or aborted, not done
    logged,     \* assistant messages logged so far
    notes, partials,
    \* the transcript writer
    lines,      \* the lines of <id>.jsonl
    wjobs,      \* its chain
    wrote,      \* the head of the chain is on disk, its event not yet out
    \* the connection
    current,    \* sessionSubs.get(id)
    cursor, jobs,
    \* the front end
    view,       \* "none", "tail" or "snapshot"
    have,       \* transcriptBySession holds the session
    seen,       \* seenLineBySession
    shown,      \* the line numbers on screen
    bubble,     \* the live partial: its message number, or 0
    status,     \* the session status of the last frame that was folded
    notice,     \* the error of the session has been put up
    faults

agentVars == <<life, failing, logged, notes, partials>>
writerVars == <<lines, wjobs, wrote>>
subVars == <<current, cursor, jobs>>
viewVars == <<view, have, seen, shown, bubble, status, notice>>
vars == <<agentVars, writerVars, subVars, viewVars, faults>>

Line(kind, n) == [kind |-> kind, n |-> n]
Job(kind, n)  == [kind |-> kind, n |-> n]

(* The status in <id>.json. *)
Meta == CASE life = "queued" -> "queued"
          [] life \in {"claimed", "running", "ending"} -> "running"
          [] life \in {"sealed", "over"} -> IF failing THEN "failed" ELSE "done"

Tail1 == Len(lines) + 1

Init ==
    /\ life = "queued" /\ failing = FALSE /\ logged = 0 /\ notes = 0 /\ partials = 0
    /\ lines = <<Line("header", 0)>> /\ wjobs = <<>> /\ wrote = FALSE
    /\ current = NoSub
    /\ cursor = [s \in Sub |-> 0] /\ jobs = [s \in Sub |-> <<>>]
    /\ view = "none" /\ have = FALSE /\ seen = 0 /\ shown = {}
    /\ bubble = 0 /\ status = "none" /\ notice = FALSE
    /\ faults = 0

-----------------------------------------------------------------------------
(* The fan-out of an engine event: to the subscription in the map, if any. *)

Emit(kind, n) ==
    jobs' = [s \in Sub |-> IF s = current THEN Append(jobs[s], Job(kind, n))
                                          ELSE jobs[s]]

-----------------------------------------------------------------------------
(* The session. *)

Claim ==
    /\ life = "queued" /\ life' = "claimed"
    /\ UNCHANGED <<failing, logged, notes, partials, writerVars, subVars, viewVars,
                   faults>>

EmitRunning ==
    /\ life = "claimed" /\ life' = "running"
    /\ Emit("status", 0)
    /\ UNCHANGED <<failing, logged, notes, partials, writerVars, current, cursor,
                   viewVars, faults>>

(* ctx.log stays usable after the session settled. *)
CanLog == life \in {"running", "ending", "sealed", "over"}

LogMessage ==
    /\ CanLog /\ logged < MaxMessage
    /\ logged' = logged + 1
    /\ wjobs' = Append(wjobs, Job("assistant", logged + 1))
    /\ UNCHANGED <<life, failing, notes, partials, lines, wrote, subVars, viewVars,
                   faults>>

LogNote ==
    /\ CanLog /\ notes < MaxNote
    /\ notes' = notes + 1
    /\ wjobs' = Append(wjobs, Job("note", 0))
    /\ UNCHANGED <<life, failing, logged, partials, lines, wrote, subVars, viewVars,
                   faults>>

(* ctx.partial: a snapshot of the message the agent will log next. *)
Partial ==
    /\ CanLog /\ partials < MaxPartial /\ logged < MaxMessage
    /\ partials' = partials + 1
    /\ wjobs' = Append(wjobs, Job("partial", logged + 1))
    /\ UNCHANGED <<life, failing, logged, notes, lines, wrote, subVars, viewVars, faults>>

(* A settler, of a session that is done or of one that failed or was      *)
(* aborted, writes the structural entries and flushes.                     *)
Settle ==
    /\ life \in {"queued", "claimed", "running"} /\ life' = "ending"
    /\ failing' \in BOOLEAN
    /\ wjobs' = Append(wjobs, Job("end", 0))
    /\ UNCHANGED <<logged, notes, partials, lines, wrote, subVars, viewVars,
                   faults>>

Seal ==
    /\ life = "ending" /\ life' = "sealed"
    /\ \A i \in 1..Len(wjobs) : wjobs[i].kind # "end"
    /\ UNCHANGED <<failing, logged, notes, partials, writerVars, subVars, viewVars,
                   faults>>

(* Mutant: the terminal frame of a session is not sent. *)
EndUnsent ==
    /\ life = "sealed" /\ life' = "over"
    /\ UNCHANGED <<failing, logged, notes, partials, writerVars, subVars, viewVars,
                   faults>>

(* A failed and an aborted session end with an "error". *)
EmitEnd ==
    /\ life = "sealed" /\ life' = "over"
    /\ Emit(IF failing THEN "error" ELSE "done", 0)
    /\ UNCHANGED <<failing, logged, notes, partials, writerVars, current, cursor,
                   viewVars, faults>>

-----------------------------------------------------------------------------
(* The transcript writer. *)

WriteLine ==
    /\ wjobs # <<>> /\ ~wrote /\ Head(wjobs).kind # "partial"
    /\ lines' = Append(lines, Head(wjobs)) /\ wrote' = TRUE
    /\ UNCHANGED <<agentVars, wjobs, subVars, viewVars, faults>>

(* The file is synced and closed: onEntry. *)
EmitEntry ==
    /\ wrote /\ wrote' = FALSE
    /\ wjobs' = Tail(wjobs)
    /\ Emit("message", 0)
    /\ UNCHANGED <<agentVars, lines, current, cursor, viewVars, faults>>

(* The append throws: a warning is logged and the entry is lost. *)
AppendFails ==
    /\ wjobs # <<>> /\ ~wrote /\ Head(wjobs).kind # "partial"
    /\ faults < MaxFault /\ faults' = faults + 1
    /\ wjobs' = Tail(wjobs)
    /\ UNCHANGED <<agentVars, lines, wrote, subVars, viewVars>>

EmitPartial ==
    /\ wjobs # <<>> /\ ~wrote /\ Head(wjobs).kind = "partial"
    /\ wjobs' = Tail(wjobs)
    /\ Emit("partial", Head(wjobs).n)
    /\ UNCHANGED <<agentVars, lines, wrote, current, cursor, viewVars, faults>>

-----------------------------------------------------------------------------
(* A subscription works off its chain. *)

Working(s, kind) == jobs[s] # <<>> /\ Head(jobs[s]).kind = kind
Done(s) == jobs' = [jobs EXCEPT ![s] = Tail(@)]

(* The lines from the cursor on go out; the reducer drops those it has     *)
(* seen, and an assistant line it keeps ends the live bubble.              *)
Fresh(s) == {i \in cursor[s]..Len(lines) : i > seen}
Largest(S) == CHOOSE x \in S : \A y \in S : y <= x
TranscriptAppended(got) ==
    shown' = shown \cup got /\ seen' = Largest({seen} \cup got)
ShowLines(s) ==
    /\ cursor' = [cursor EXCEPT ![s] = IF @ > Len(lines) THEN @ ELSE Tail1]
    /\ TranscriptAppended(Fresh(s))
BubbleAfter(s) ==
    IF \E i \in Fresh(s) : lines[i].kind = "assistant" THEN 0 ELSE bubble

(* The store folds the session of a status or done frame: a session that   *)
(* is over has no bubble. Of an error frame it only puts up the text.      *)
SessionUpsert(meta, b) ==
    status' = meta /\ bubble' = IF meta \in {"done", "failed"} THEN 0 ELSE b

(* Mutant: from_line is taken as it comes. *)
ClampSkipped(s) ==
    /\ Working(s, "clamp") /\ Done(s)
    /\ UNCHANGED <<agentVars, writerVars, current, cursor, viewVars, faults>>

(* Mutant: a subscription starts at the tail. *)
ClampToTail(s) ==
    /\ Working(s, "clamp") /\ Done(s)
    /\ cursor' = [cursor EXCEPT ![s] = Tail1]
    /\ UNCHANGED <<agentVars, writerVars, current, viewVars, faults>>

Clamp(s) ==
    /\ Working(s, "clamp") /\ Done(s)
    /\ cursor' = [cursor EXCEPT ![s] = IF @ > Tail1 THEN Tail1 ELSE @]
    /\ UNCHANGED <<agentVars, writerVars, current, viewVars, faults>>

Pump(s) ==
    /\ Working(s, "replay") \/ Working(s, "message")
    /\ Done(s) /\ ShowLines(s) /\ bubble' = BubbleAfter(s)
    /\ UNCHANGED <<agentVars, writerVars, current, view, have, status, notice, faults>>

(* The last part of start(): the meta as it is by now, and with it the     *)
(* "done" or "error" of a session that is over.                            *)
MetaFrame(s) ==
    /\ Working(s, "meta") /\ Done(s)
    /\ SessionUpsert(Meta, bubble)
    /\ notice' = (notice \/ Meta = "failed")
    /\ UNCHANGED <<agentVars, writerVars, current, cursor, view, have, seen,
                   shown, faults>>

(* A lifecycle event: the lines first, then the meta the event carries. *)
LifeFrame(s) ==
    \E kind \in {"status", "done"} :
        /\ Working(s, kind) /\ Done(s) /\ ShowLines(s)
        /\ SessionUpsert(IF kind = "done" THEN "done" ELSE "running", BubbleAfter(s))
        /\ UNCHANGED <<agentVars, writerVars, current, view, have, notice, faults>>

ErrorFrame(s) ==
    /\ Working(s, "error") /\ Done(s) /\ ShowLines(s)
    /\ notice' = TRUE /\ bubble' = BubbleAfter(s)
    /\ UNCHANGED <<agentVars, writerVars, current, view, have, status, faults>>

PartialFrame(s) ==
    /\ Working(s, "partial") /\ Done(s)
    /\ bubble' = Head(jobs[s]).n
    /\ UNCHANGED <<agentVars, writerVars, current, cursor, view, have, seen,
                   shown, status, notice, faults>>

-----------------------------------------------------------------------------
(* The front end. *)

(* session.subscribe, session.unsubscribe and session.transcript. *)
StartSubscription(s, from) ==
    /\ cursor' = [cursor EXCEPT ![s] = from]
    /\ jobs' = [jobs EXCEPT ![s] = <<Job("clamp", 0), Job("replay", 0), Job("meta", 0)>>]
    /\ current' = s
Unsubscribe == current' = NoSub
Transcript == 1..Len(lines)

TranscriptReset(upto) == shown' = 1..upto /\ seen' = upto /\ bubble' = 0

(* A live session is selected: reset, then subscribe. *)
SelectLive ==
    /\ view = "none" /\ life # "over"
    /\ view' = "tail" /\ have' = TRUE
    /\ \E s \in Sub, from \in FromLine :
        /\ cursor[s] = 0
        /\ StartSubscription(s, from)
        /\ TranscriptReset(from - 1)
    /\ UNCHANGED <<agentVars, writerVars, status, notice, faults>>

(* A terminal session is selected: its transcript is loaded at most once. *)
SelectTerminal ==
    /\ view = "none" /\ life = "over"
    /\ view' = "snapshot" /\ have' = TRUE
    /\ IF have
       THEN UNCHANGED <<seen, shown, bubble>>
       ELSE TranscriptReset(Largest(Transcript))
    /\ UNCHANGED <<agentVars, writerVars, subVars, status, notice, faults>>

(* Another selection: the tail is unsubscribed, its chain runs on. *)
Deselect ==
    /\ view # "none" /\ view' = "none"
    /\ Unsubscribe
    /\ UNCHANGED <<agentVars, writerVars, cursor, jobs, have, seen, shown,
                   bubble, status, notice, faults>>

AgentStep == LogMessage \/ LogNote \/ Partial
SessionStep == Claim \/ EmitRunning \/ Settle \/ Seal \/ EmitEnd
WriterStep == WriteLine \/ EmitEntry \/ EmitPartial
SubStep(s) ==
    \/ Clamp(s) \/ Pump(s) \/ MetaFrame(s)
    \/ LifeFrame(s) \/ ErrorFrame(s) \/ PartialFrame(s)
ViewStep == SelectLive \/ SelectTerminal \/ Deselect

Next ==
    \/ AgentStep \/ SessionStep \/ WriterStep \/ AppendFails \/ ViewStep
    \/ \E s \in Sub : SubStep(s)

Spec == Init /\ [][Next]_vars

(* The event loop completes every read and write it has begun. *)
FairSpec ==
    /\ Spec
    /\ WF_vars(WriterStep) /\ WF_vars(Seal) /\ WF_vars(EmitEnd)
    /\ WF_vars(EmitRunning)
    /\ \A s \in Sub : WF_vars(SubStep(s))

-----------------------------------------------------------------------------
(* Properties. *)

(* No chain has a job left. *)
Quiet == wjobs = <<>> /\ \A s \in Sub : jobs[s] = <<>>

(* Tailing misses no line: whenever the chains are idle the subscription   *)
(* has sent every line of the file, wherever it started and however its    *)
(* replay overlapped with appends.                                         *)
CursorAtTail == Quiet /\ current # NoSub => cursor[current] = Tail1

(* The front end never has a hole in what it shows of a session it tailed  *)
(* once: the lines on screen are the first lines of the file.              *)
ShownIsPrefix == shown = 1..seen

(* A subscriber learns that the session has ended, also when the end fell  *)
(* into the replay: a session that is done is shown as done, and no stale  *)
(* status frame stays the last one; of one that failed or was aborted the  *)
(* error is put up, the status on screen may stay what it was.             *)
EndIsLearned == life = "over" /\ view = "tail" /\ current # NoSub
    ~> view # "tail" \/ (IF failing THEN notice ELSE status = "done")
=============================================================================
