------------------------------ MODULE PiDriver ------------------------------
(***************************************************************************)
(* @autosk/pi-agent: one onRun of piAgent, its PiDriver and the spawned    *)
(* `pi --mode rpc`, for a task (runTurns) or for a chat (runChat).         *)
(*                                                                         *)
(* The driver mirrors pi's run-active flag from what it reads on stdout.   *)
(* A prompt opens a cycle; its boundary is agent_settled, or agent_end on  *)
(* a pi that never emits agent_settled, which a grace timer decides. The   *)
(* stdout handler is synchronous; the code awaiting a response, the gate   *)
(* or a turn-end goes on later, in a step of its own.                      *)
(*                                                                         *)
(* pi itself is external: modelled from what the driver says of it.        *)
(***************************************************************************)
EXTENDS Integers, Sequences
LOCAL INSTANCE Functions

CONSTANTS
    Input,           \* steer and followup messages, each sent once
    MaxCorrections, MaxAttempts,
    MaxMessage,      \* bound: assistant messages
    MaxExtra,        \* bound: message_update lines, post-run phases, inputs
                     \* and the death of pi together
    MaxPipe          \* bound: lines pi may have written and not been read

ASSUME DriverAssumption ==
    /\ "loop" \notin Input
    /\ MaxAttempts \in Nat \ {0}
    /\ {MaxCorrections, MaxMessage, MaxExtra, MaxPipe} \subseteq Nat

VARIABLES
    \* pi
    build,      \* "modern" emits agent_settled, "legacy" never does
    hasty,      \* the grace fired while pi was in one of its short pauses
    pi,         \* phase of the run, and what is left of the bounds
    cmds, out,  \* its stdin and stdout
    \* the driver
    view,       \* streaming, settled, settleSupport, turnEnded, grace, turnQueue
    life,       \* exited, aborted, shuttingDown
    target,     \* pendingTarget is set
    part,       \* the Coalescer: timer, buffered snapshot
    \* what it logs and streams
    logged,     \* messages committed
    bubble,     \* message of the last snapshot streamed, 0 once committed
    sealed,     \* the session runtime has sealed the session
    \* its users
    loop,       \* onRun and runTurns
    inp,        \* the calls of input()
    count       \* prompts accepted from runTurns and from input, turns ended

piVars == <<build, hasty, pi, cmds, out>>
drvVars == <<view, life, target, part>>
vars == <<piVars, drvVars, logged, bubble, sealed, loop, inp, count>>

Line(kind, by, ok) == [kind |-> kind, by |-> by, ok |-> ok]
Say(kind) == Line(kind, "pi", "ok")
Running == pi.phase \notin {"idle", "dead"}    \* pi's run-active flag
Spawned == loop.pc \notin {"workspace", "mcp"}
Busy(phase) == [pi EXCEPT !.phase = phase]
----------------------------------------------------------------------------
(* The driver's run state.                                                 *)
ClearGrace(v) == [v EXCEPT !.grace = "off"]
OpenGate(v) == [v EXCEPT !.settled = TRUE]
Emit(v, r)  == [v EXCEPT !.turns = Append(@, r)]
(* Mutant: a boundary always ends a turn. *)
CloseAlways(v) == Emit([OpenGate(v) EXCEPT !.streaming = FALSE], "ended")
CloseCycle(v) ==
    LET o == [OpenGate(v) EXCEPT !.streaming = FALSE]
    IN  IF v.ended THEN o ELSE Emit([o EXCEPT !.ended = TRUE], "ended")
OpenCycle(v) ==
    [v EXCEPT !.streaming = TRUE, !.settled = FALSE, !.ended = FALSE]
StillRunning(v) ==
    LET support == IF v.support = "legacy" THEN "unknown" ELSE v.support
    IN  [v EXCEPT !.streaming = TRUE, !.settled = FALSE, !.support = support,
                  !.grace = IF support = "unknown" THEN "armed" ELSE @]
Idle(v) == OpenGate([v EXCEPT !.streaming = FALSE])

StateMismatch(answer) == answer \in {"busy", "idle"}
ApplyResponse(v, line) ==
    CASE line.ok = "prompt" -> OpenCycle(v)
      [] line.ok = "queued" -> v
      [] line.ok = "busy"   -> StillRunning(v)
      [] line.ok = "idle"   -> Idle(v)

AgentStart(v) ==
    [ClearGrace(v) EXCEPT !.streaming = TRUE, !.settled = FALSE]
(* Mutant: no grace, the driver trusts every pi to be a modern one. *)
AgentEndTrusting(v) == v
AgentEnd(v) ==
    CASE v.support = "legacy"  -> CloseCycle(v)
      [] v.support = "unknown" -> [v EXCEPT !.grace = "armed"]
      [] v.support = "modern"  -> v
AgentSettled(v) ==
    CloseCycle([ClearGrace(v) EXCEPT !.support = "modern"])

(* Mutant: a compaction does not suspend the deadline. *)
PostRunUnheard(v, kind) ==
    IF v.support = "unknown" /\ kind = "retry" /\ v.grace = "armed"
    THEN [v EXCEPT !.grace = "extended"] ELSE v
PostRunSignal(v, kind) ==
    CASE v.support # "unknown" -> v
      [] kind = "retry" /\ v.grace \in {"armed", "extended"} ->
            [v EXCEPT !.grace = "extended"]
      [] kind = "compaction_start" /\ v.grace \in {"armed", "extended"} ->
            [v EXCEPT !.grace = "suspended"]
      [] kind = "compaction_end" /\ v.grace = "suspended" ->
            [v EXCEPT !.grace = "armed"]
      [] OTHER -> v

(* What a line does to the run state.                                      *)
Seen(v, line) ==
    CASE line.kind = "response"      -> ApplyResponse(v, line)
      [] line.kind = "agent_start"   -> AgentStart(v)
      [] line.kind = "agent_end"     -> AgentEnd(v)
      [] line.kind = "agent_settled" -> AgentSettled(v)
      [] line.kind \in {"retry", "compaction_start", "compaction_end"} ->
            PostRunSignal(v, line.kind)
      [] OTHER -> v

(* The timer a parked sendPrompt was racing is cancelled.                  *)
Cancelled(l) == [l EXCEPT !.ceiling = FALSE]

(* A change of the run state that opens the gate lets a parked sendPrompt  *)
(* go on; one that ends a turn is counted.                                 *)
See(v) ==
    /\ view' = v
    /\ loop' = IF v.settled /\ loop.pc = "gate" THEN [Cancelled(loop) EXCEPT !.pc = "write"] ELSE loop
    /\ count' = IF Len(v.turns) > Len(view.turns) /\ v.turns[Len(v.turns)] = "ended"
                THEN [count EXCEPT !.ends = @ + 1] ELSE count
----------------------------------------------------------------------------
(* The Coalescer, holding the number of the message it has a snapshot of.  *)
NoPart == [timer |-> FALSE, held |-> 0]
StopParts == part' = NoPart
Push(m) ==
    IF part.timer THEN /\ part' = [part EXCEPT !.held = m]
                       /\ UNCHANGED bubble
                  ELSE /\ part' = [timer |-> TRUE, held |-> 0]
                       /\ bubble' = m
(* Mutant: the boundary leaves the buffered snapshot and its timer.        *)
FlushForgotten(next) == bubble' = next /\ UNCHANGED part
(* flush(), followed by what the caller streams or commits.                *)
Flush(next) == part' = NoPart /\ bubble' = next
Held == IF part.held # 0 THEN part.held ELSE bubble

PartialTimer ==
    /\ part.timer
    /\ IF part.held = 0 THEN part' = NoPart /\ UNCHANGED bubble
                        ELSE part' = [timer |-> TRUE, held |-> 0] /\ bubble' = part.held
    /\ UNCHANGED <<piVars, view, life, target, logged, sealed, loop, inp, count>>
----------------------------------------------------------------------------
ObserveToolCall(line) == target' = (target \/ line.kind = "transit")
ObservePartial == Push(logged + 1) /\ UNCHANGED logged
MirrorMessage == logged' = logged + 1

(* onLine: one line of stdout. A response also goes to the call that       *)
(* waits for it.                                                           *)
Deliver(line) ==
    /\ view' = Seen(view, line)
    /\ IF line.by = "loop"
       THEN /\ loop' = [loop EXCEPT !.pc = "answered", !.got = line.ok]
            /\ UNCHANGED inp
            /\ count' = IF line.ok = "prompt" THEN [count EXCEPT !.own = @ + 1] ELSE count
       ELSE /\ inp' = [inp EXCEPT ![line.by].pc =
                    IF StateMismatch(line.ok) /\ @ = "first" THEN "rejected" ELSE "done"]
            /\ loop' = IF view'.settled /\ loop.pc = "gate"
                       THEN [loop EXCEPT !.pc = "write"] ELSE loop
            /\ count' = IF line.ok = "prompt" THEN [count EXCEPT !.other = @ + 1] ELSE count
    /\ UNCHANGED <<target, part, logged, bubble>>

ReadLine ==
    /\ out # <<>> /\ Spawned
    /\ out' = Tail(out)
    /\ LET line == Head(out) IN
       IF line.kind = "response"
       THEN IF life.exited THEN UNCHANGED <<view, target, part, logged, bubble, loop, inp, count>>
                           ELSE Deliver(line)
       ELSE /\ See(Seen(view, line))
            /\ ObserveToolCall(line)
            /\ CASE line.kind = "update" -> ObservePartial
                 [] line.kind = "message" -> Flush(0) /\ MirrorMessage
                 [] line.kind = "agent_end" -> Flush(Held) /\ UNCHANGED logged
                 [] OTHER -> UNCHANGED <<part, bubble, logged>>
            /\ UNCHANGED inp
    /\ UNCHANGED <<build, hasty, pi, cmds, life, sealed>>

(* The legacy-detect deadline. It means what it says only if pi is not in  *)
(* a pause longer than the grace: an announced one has to reshape it.      *)
ShortPause ==
    \/ out # <<>>
    \/ Running /\ pi.phase \notin {"sleep", "compacting"}
    \/ view.grace = "extended" /\ pi.phase = "sleep"
GraceFires ==
    /\ view.grace \in {"armed", "extended"}
    /\ hasty' = (hasty \/ ShortPause)
    /\ LET v == ClearGrace(view) IN
       See(IF v.support = "unknown" THEN CloseCycle([v EXCEPT !.support = "legacy"]) ELSE v)
    /\ UNCHANGED <<build, pi, cmds, out, life, target, part, logged, bubble, sealed, inp>>

(* child.exited resolves, possibly before the rest of stdout is read.      *)
Exited ==
    /\ pi.phase = "dead" /\ ~life.exited /\ Spawned
    /\ life' = [life EXCEPT !.exited = TRUE]
    /\ StopParts
    /\ LET v == Emit(OpenGate(view), IF life.aborted THEN "aborted" ELSE "exited")
       IN  view' = v
    /\ loop' = CASE loop.pc = "gate" -> [loop EXCEPT !.pc = "write"]
                 [] loop.pc = "ack"  -> [loop EXCEPT !.pc = "answered", !.got = "gone"]
                 [] OTHER -> loop
    /\ inp' = [i \in Input |-> IF inp[i].pc \in {"first", "second"}
                               THEN [inp[i] EXCEPT !.pc = "done"] ELSE inp[i]]
    /\ UNCHANGED <<piVars, target, logged, bubble, sealed, count>>
----------------------------------------------------------------------------
(* session.abort: the signal reaches the driver and kills the child; the   *)
(* onAbort hook shuts the driver down; then the runtime seals the session. *)
OnAbort ==
    /\ ~life.aborted /\ ~sealed /\ loop.pc # "done"
    /\ life' = [life EXCEPT !.aborted = TRUE]
    /\ IF ~Spawned
       THEN UNCHANGED <<view, part, loop, count>>
       ELSE /\ StopParts
            /\ See(Emit(OpenGate(ClearGrace(view)), "aborted"))
    /\ UNCHANGED <<piVars, target, logged, bubble, sealed, inp>>

AbortHook ==
    /\ life.aborted /\ ~life.shutting
    /\ loop.pc \notin {"workspace", "mcp", "done"}
    /\ life' = [life EXCEPT !.shutting = TRUE]
    /\ UNCHANGED <<piVars, view, target, part, logged, bubble, sealed, loop, inp, count>>

(* The runtime seals an aborted session, or one whose onRun is over.       *)
Seal ==
    /\ ~sealed
    /\ \/ loop.pc = "done"
       \/ life.aborted /\ (life.shutting \/ ~Spawned)
    /\ sealed' = TRUE
    /\ UNCHANGED <<piVars, drvVars, logged, bubble, loop, inp, count>>
----------------------------------------------------------------------------
(* onRun and runTurns.                                                     *)
Goto(pc) == loop' = [loop EXCEPT !.pc = pc]
LoopOnly == UNCHANGED <<piVars, drvVars, logged, bubble, sealed, inp, count>>

Workspace ==
    /\ loop.pc = "workspace"
    /\ IF loop.chat THEN Goto("mcp")
       ELSE \E next \in {"mcp", "done"} : Goto(next)      \* "done": it threw
    /\ LoopOnly
(* The new driver of a child that is killed as it is spawned if the        *)
(* session was aborted meanwhile.                                          *)
Construct ==
    IF life.aborted
    THEN /\ pi' = Busy("dead")
         /\ view' = Emit(OpenGate(view), "aborted")
    ELSE UNCHANGED <<pi, view>>
(* newMCPServer, spawn, new PiDriver, liveSessions.set.                    *)
Register ==
    /\ loop.pc = "mcp"
    /\ Goto(IF loop.chat THEN "chat" ELSE "seed")
    /\ Construct
    /\ UNCHANGED <<build, hasty, cmds, out, life, target, part, logged, bubble, sealed,
                   inp, count>>

Gate == IF view.settled \/ life.exited \/ life.aborted THEN "write" ELSE "gate"
SendPrompt(corr) ==
    loop' = [loop EXCEPT !.pc = Gate, !.corr = corr]
Seeded == loop.pc = "seed" /\ SendPrompt(0) /\ LoopOnly

WriteRaw(c) == cmds' = Append(cmds, c)
WritePrompt ==
    /\ loop.pc = "write"
    /\ IF life.exited \/ life.aborted
       THEN loop' = [loop EXCEPT !.pc = "answered", !.got = "gone"] /\ UNCHANGED cmds
       ELSE Goto("ack") /\ WriteRaw([cmd |-> "prompt", by |-> "loop"])
    /\ UNCHANGED <<build, hasty, pi, out, drvVars, logged, bubble, sealed, inp, count>>

(* The wait for the gate before another attempt is bounded unless this pi  *)
(* is known to emit agent_settled.                                         *)
RetryWait == view.support # "modern"
Answered ==
    /\ loop.pc = "answered"
    /\ LET next == [Cancelled(loop) EXCEPT !.got = "none", !.try = 1] IN
       loop' = CASE loop.got = "prompt" -> [next EXCEPT !.pc = "await"]
                 [] loop.got = "busy" /\ ~life.exited /\ ~life.aborted
                    /\ loop.try < MaxAttempts ->
                       [next EXCEPT !.pc = Gate, !.try = loop.try + 1,
                                    !.ceiling = RetryWait]
                 [] OTHER -> [next EXCEPT !.pc = "finally"]
    /\ LoopOnly

GateCeiling ==
    /\ loop.pc = "gate" /\ loop.ceiling
    /\ loop' = [Cancelled(loop) EXCEPT !.pc = "write"]
    /\ LoopOnly

(* What waitForTurnEnd resolves with.                                      *)
WaitForTurnEnd ==
    CASE view.turns # <<>> -> Head(view.turns)
      [] view.turns = <<>> /\ life.aborted -> "aborted"
      [] view.turns = <<>> /\ life.exited /\ ~life.aborted -> "exited"
      [] OTHER -> "none"
TakePendingTarget == target' = FALSE
TurnEnd ==
    /\ loop.pc = "await"
    /\ WaitForTurnEnd # "none"
    /\ view' = IF view.turns = <<>> THEN view ELSE [view EXCEPT !.turns = Tail(@)]
    /\ IF WaitForTurnEnd = "ended"
       THEN /\ TakePendingTarget
            /\ CASE target -> Goto("commit")
                 [] ~target /\ loop.corr >= MaxCorrections -> Goto("finally")
                 [] OTHER -> SendPrompt(loop.corr + 1)
       ELSE Goto("finally") /\ UNCHANGED target
    /\ UNCHANGED <<piVars, life, part, logged, bubble, sealed, inp, count>>

(* ctx.transit commits and seals the session, or throws.                   *)
CommitTransit ==
    /\ loop.pc = "commit"
    /\ \/ ~life.aborted /\ sealed' = TRUE /\ Goto("finally")
       \/ /\ UNCHANGED sealed
          /\ IF loop.corr >= MaxCorrections THEN Goto("finally") ELSE SendPrompt(loop.corr + 1)
    /\ UNCHANGED <<piVars, drvVars, logged, bubble, inp, count>>

(* runChat: no prompt of its own and no turns, until the session ends.     *)
WaitForSignal == life.aborted
RunChat ==
    /\ loop.pc = "chat" /\ WaitForSignal
    /\ Goto("finally")
    /\ LoopOnly

(* finally: liveSessions.delete, driver.shutdown, sandbox.stop, mcp.close. *)
Finally ==
    /\ loop.pc = "finally"
    /\ Goto(IF life.shutting THEN "done" ELSE "closing")
    /\ life' = [life EXCEPT !.shutting = TRUE]
    /\ UNCHANGED <<piVars, view, target, part, logged, bubble, sealed, inp, count>>
Closed ==
    /\ loop.pc = "closing"
    /\ Goto("done")
    /\ LoopOnly
----------------------------------------------------------------------------
(* session.input: forward, then PiDriver.input.                            *)
Shape(streaming) == IF streaming THEN "queue" ELSE "prompt"
Send(i, pc, shape) ==
    IF life.exited \/ life.aborted
    THEN inp' = [inp EXCEPT ![i].pc = "done"] /\ UNCHANGED cmds
    ELSE /\ inp' = [inp EXCEPT ![i].pc = pc, ![i].sent = @ \cup {shape}]
         /\ WriteRaw([cmd |-> shape, by |-> i])

InputCall(i) ==
    /\ inp[i].pc = "new" /\ ~sealed
    /\ pi.extra < MaxExtra /\ pi' = [pi EXCEPT !.extra = @ + 1]
    /\ IF loop.pc \in {"workspace", "mcp", "closing", "done"}
       THEN inp' = [inp EXCEPT ![i].pc = "done"] /\ UNCHANGED cmds    \* no live driver
       ELSE Send(i, "first", Shape(view.streaming))
    /\ UNCHANGED <<build, hasty, out, drvVars, logged, bubble, sealed, loop, count>>

InputRetry(i) ==
    /\ inp[i].pc = "rejected"
    /\ Send(i, "second", CHOOSE shape \in {"queue", "prompt"} : shape \notin inp[i].sent)
    /\ UNCHANGED <<build, hasty, pi, out, drvVars, logged, bubble, sealed, loop, count>>
----------------------------------------------------------------------------
(* pi. A prompt sets the flag before it is acknowledged.                   *)
PiStep(next, lines) ==
    /\ Spawned
    /\ Len(out) < MaxPipe
    /\ pi' = next
    /\ out' = out \o lines
    /\ UNCHANGED <<build, hasty, drvVars, logged, bubble, sealed, loop, inp, count>>

PiReads ==
    /\ cmds # <<>> /\ pi.phase # "dead"
    /\ cmds' = Tail(cmds)
    /\ LET c == Head(cmds)
           answer == CASE c.cmd = "prompt" /\ ~Running -> "prompt"
                       [] c.cmd = "prompt" /\ Running  -> "busy"
                       [] c.cmd = "queue" /\ Running   -> "queued"
                       [] OTHER -> "idle"
       IN  PiStep(IF answer = "prompt" THEN Busy("accepted") ELSE pi,
                  <<Line("response", c.by, answer)>>)
PiStarts  == pi.phase = "accepted" /\ PiStep(Busy("run"), <<Say("agent_start")>>) /\ UNCHANGED cmds
PiUpdates ==
    /\ pi.phase = "run" /\ pi.extra < MaxExtra /\ pi.messages < MaxMessage
    /\ PiStep([pi EXCEPT !.extra = @ + 1], <<Say("update")>>)
    /\ UNCHANGED cmds
PiSpeaks ==
    /\ pi.phase = "run" /\ pi.messages < MaxMessage
    /\ \E lines \in {<<Say("message")>>, <<Say("message"), Say("transit")>>} :
          /\ Say("transit") \in Range(lines) => ~loop.chat     \* not offered in a chat
          /\ PiStep([pi EXCEPT !.messages = @ + 1], lines)
    /\ UNCHANGED cmds
PiEnds    == pi.phase = "run" /\ PiStep(Busy("post"), <<Say("agent_end")>>) /\ UNCHANGED cmds
PiPostRun ==
    /\ pi.phase = "post" /\ pi.extra < MaxExtra
    /\ \/ PiStep([pi EXCEPT !.phase = "sleep", !.extra = @ + 1], <<Say("retry")>>)
       \/ PiStep([pi EXCEPT !.phase = "compacting", !.extra = @ + 1], <<Say("compaction_start")>>)
       \/ PiStep([pi EXCEPT !.phase = "accepted", !.extra = @ + 1], <<>>)
    /\ UNCHANGED cmds
PiResumes ==
    /\ \/ pi.phase = "sleep" /\ PiStep(Busy("accepted"), <<>>)
       \/ pi.phase = "compacting" /\ PiStep(Busy("post"), <<Say("compaction_end")>>)
    /\ UNCHANGED cmds
PiSettles ==
    /\ pi.phase = "post"
    /\ PiStep(Busy("idle"), IF build = "modern" THEN <<Say("agent_settled")>> ELSE <<>>)
    /\ UNCHANGED cmds
(* pi dies: of itself, of its closed stdin, or killed.                     *)
PiDies ==
    /\ pi.phase # "dead" /\ Spawned
    /\ IF life.aborted \/ life.shutting
       THEN pi' = Busy("dead")
       ELSE pi.extra < MaxExtra /\ pi' = [pi EXCEPT !.phase = "dead", !.extra = @ + 1]
    /\ UNCHANGED <<build, hasty, cmds, out, drvVars, logged, bubble, sealed, loop, inp, count>>
----------------------------------------------------------------------------
Init ==
    /\ build \in {"modern", "legacy"} /\ hasty = FALSE
    /\ pi = [phase |-> "idle", extra |-> 0, messages |-> 0]
    /\ cmds = <<>> /\ out = <<>>
    /\ view = [streaming |-> FALSE, settled |-> TRUE, support |-> "unknown",
               ended |-> TRUE, grace |-> "off", turns |-> <<>>]
    /\ life = [exited |-> FALSE, aborted |-> FALSE, shutting |-> FALSE]
    /\ target = FALSE
    /\ part = NoPart
    /\ logged = 0 /\ bubble = 0 /\ sealed = FALSE
    /\ \E chat \in BOOLEAN :
          loop = [pc |-> "workspace", chat |-> chat, try |-> 1, corr |-> 0,
                  ceiling |-> FALSE, got |-> "none"]
    /\ inp = [i \in Input |-> [pc |-> "new", sent |-> {}]]
    /\ count = [own |-> 0, other |-> 0, ends |-> 0]

Driver == ReadLine \/ GraceFires \/ PartialTimer \/ Exited
Loop == Workspace \/ Register \/ Seeded \/ WritePrompt \/ Answered \/ GateCeiling
        \/ TurnEnd \/ CommitTransit \/ RunChat \/ Finally \/ Closed
Pi == PiReads \/ PiStarts \/ PiUpdates \/ PiSpeaks \/ PiEnds \/ PiPostRun \/ PiResumes
      \/ PiSettles
Next ==
    \/ Driver \/ Loop \/ Pi \/ PiDies
    \/ OnAbort \/ AbortHook \/ Seal
    \/ \E i \in Input : InputCall(i) \/ InputRetry(i)

(* The event loop reads stdout, fires timers and resumes what is ready; pi *)
(* gets on with its run, and a killed or closed pi dies. A client need not *)
(* send or abort anything.                                                 *)
Fairness ==
    /\ WF_vars(ReadLine) /\ WF_vars(GraceFires) /\ WF_vars(Exited)
    /\ WF_vars(Loop)
    /\ WF_vars(PiReads \/ PiStarts \/ PiResumes)
    /\ WF_vars(PiEnds) /\ WF_vars(PiSettles)
    /\ WF_vars((life.aborted \/ life.shutting) /\ PiDies)

Spec == Init /\ [][Next]_vars
FairSpec == Spec /\ Fairness
----------------------------------------------------------------------------
(* No phantom turn: however late agent_settled comes, after whatever       *)
(* verdict, a prompt that pi accepted ends at most one turn.               *)
TurnPerCycle == count.ends <= count.own + count.other

(* With a grace longer than pi's unannounced pauses, pi never refuses a    *)
(* prompt of runTurns as long as no steer or followup went out as a prompt *)
(* of its own.                                                             *)
NeverToldBusy ==
    loop.got = "busy"
        => \/ build = "legacy" \/ hasty
           \/ \E i \in Input : "prompt" \in inp[i].sent

(* No snapshot of a message is streamed after the message was committed.   *)
NoStalePartial == bubble # 0 => bubble > logged

(* onRun returns, whatever pi and the grace do: no prompt is stuck at the  *)
(* gate, no turn is waited for in vain. A chat waits for its end.          *)
RunReturns == <>[](loop.pc = "done" \/ (loop.chat /\ ~life.aborted))
=============================================================================
