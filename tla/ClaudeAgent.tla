----------------------------- MODULE ClaudeAgent -----------------------------
(***************************************************************************)
(* One session of @autosk/claude-agent, in task mode or as an interactive  *)
(* chat: the session runtime (start, input, activity, end, abort, settle), *)
(* onRun with runTurns or runChat, the ClaudeDriver and the spawned claude.*)
(*                                                                         *)
(* Claude's stdin is fire-and-forget: nothing says whether a message       *)
(* started a turn, joined the one under way or waits for its end, and the  *)
(* driver takes a turn to be over with every result.                       *)
(*                                                                         *)
(* The scheduling of task sessions is module Engine: a task session is     *)
(* running here from the start. claude itself is external.                 *)
(***************************************************************************)
EXTENDS Integers, Sequences

CONSTANTS
    Mode,            \* the modes of a session: "task", "chat"
    MaxCorrections,
    MaxBlock,        \* bound: content blocks committed
    MaxExtra,        \* bound: inputs, stream deltas and the death of claude
    MaxPipe          \* bound: lines claude may have written and not been read

ASSUME AgentAssumption ==
    /\ Mode \subseteq {"task", "chat"}
    /\ {MaxCorrections, MaxBlock, MaxExtra, MaxPipe} \subseteq Nat

VARIABLES
    mode, extra,
    \* the session runtime
    rt,        \* its flags, the finaliser's outcome and progress (fin), whether
               \* the engine still routes calls to it (live), and the daemon
    meta,      \* status and activity on disk
    patches,   \* writes of the meta waiting for the session's lock
    call,      \* the calls of end() and abort()
    inbox,     \* inputs whose steer entry is being flushed
    servers,   \* open MCP servers of the session
    late,      \* one was minted after the session had settled
    \* the agent and its driver
    run,       \* where onRun is, corrections, whether it threw
    drv, part, acc,
    \* what it logs and streams
    logged, bubble,
    \* claude
    claude, cmds, out

sessVars == <<meta, patches, call, inbox, servers, late>>
viewVars == <<part, acc, logged, bubble>>
cliVars  == <<claude, cmds, out>>
vars == <<mode, extra, rt, sessVars, run, drv, viewVars, cliVars>>

Terminal == {"done", "failed", "aborted"}
Extra == extra < MaxExtra /\ extra' = extra + 1
-----------------------------------------------------------------------------
(* The driver. Its turn ends are consumed by runTurns only.                *)
Emit(d, r) == IF mode = "task" THEN [d EXCEPT !.turns = Append(@, r)] ELSE d

Write(messages) == cmds' = cmds \o messages
Message == <<"message">>
Interrupt == <<"interrupt">>

(* A chat is given no transit, and claude no tool for it.                  *)
BuildContext == IF mode = "task" THEN {"log", "transit"} ELSE {"log", "setActivity"}
ClaudeTools == {"transit"} \cap BuildContext

(* Activity of a chat: patched on the meta, then fanned out as status.     *)
SetActivity(b) ==
    IF "setActivity" \in BuildContext /\ rt.started /\ ~rt.settled THEN Append(patches, b) ELSE patches

BeginTurn(d) ==
    /\ drv' = [d EXCEPT !.streaming = TRUE]
    /\ patches' = IF d.streaming THEN patches ELSE SetActivity("busy")

ForwardInput(kind) ==
    IF drv.streaming
    THEN /\ Write(IF kind = "steer" THEN Interrupt \o Message ELSE Message)
         /\ UNCHANGED <<drv, patches>>
    ELSE BeginTurn(drv) /\ Write(Message)

NoPart == [timer |-> FALSE, held |-> {}]
Push(snapshot) ==
    IF part.timer THEN part' = [part EXCEPT !.held = snapshot] /\ UNCHANGED bubble
                  ELSE part' = [NoPart EXCEPT !.timer = TRUE] /\ bubble' = snapshot
Stopped == part' = NoPart
PartialTimer ==
    /\ part.timer
    /\ IF part.held = {} THEN Stopped /\ UNCHANGED bubble
                         ELSE part' = [timer |-> TRUE, held |-> {}] /\ bubble' = part.held
    /\ UNCHANGED <<mode, extra, rt, sessVars, run, drv, acc, logged, cliVars>>

(* Lines of stdout.                                                        *)
Accumulate(block) == acc \cup {block}
OnStreamEvent(block) ==
    /\ acc' = Accumulate(block)
    /\ Push(acc')
    /\ UNCHANGED <<logged, drv, patches>>

OnAssistant(line) ==
    /\ Stopped /\ bubble' = {} /\ logged' = line.block
    /\ acc' = {}
    /\ drv' = [drv EXCEPT !.target = @ \/ line.transit]
    /\ UNCHANGED patches

(* Mutant: a result ends the turn and is not reported.                     *)
OnResultUnreported ==
    /\ Stopped /\ bubble' = IF part.held # {} THEN part.held ELSE bubble
    /\ drv' = Emit([drv EXCEPT !.streaming = FALSE], "ended")
    /\ UNCHANGED <<acc, logged, patches>>
OnResult ==
    /\ Stopped /\ bubble' = IF part.held # {} THEN part.held ELSE bubble
    /\ drv' = Emit([drv EXCEPT !.streaming = FALSE], "ended")
    /\ patches' = SetActivity("idle")
    /\ UNCHANGED <<acc, logged>>

ReadLine ==
    /\ out # <<>>
    /\ out' = Tail(out)
    /\ LET line == Head(out) IN
       CASE line.kind = "delta"     -> OnStreamEvent(line.block)
         [] line.kind = "assistant" -> OnAssistant(line)
         [] line.kind = "result"    -> OnResult
    /\ UNCHANGED <<mode, extra, rt, meta, call, inbox, servers, late, run, claude, cmds>>

(* child.exited resolves, possibly before the rest of stdout is read.      *)
Exited ==
    /\ claude.phase = "dead" /\ drv.made /\ ~drv.exited
    /\ drv' = Emit([drv EXCEPT !.exited = TRUE], IF rt.signal THEN "aborted" ELSE "exited")
    /\ Stopped
    /\ UNCHANGED <<mode, extra, rt, sessVars, run, acc, logged, bubble, cliVars>>
-----------------------------------------------------------------------------
(* The finalisers. settleOnce is claimed at once; then the transcript is   *)
(* flushed, the MCP servers are closed and the seal goes to the store.     *)

SettleOnce(r, how) ==
    IF r.settled THEN r
    ELSE [r EXCEPT !.settled = TRUE, !.outcome = how, !.fin = "flush"]

(* Mutant: the engine leaves the servers to the agent's own close.         *)
CloseNothing == UNCHANGED servers
CloseMcpServers == servers' = 0
NewMCPServer == servers' = 1

Finalize ==
    /\ rt.fin = "flush"
    /\ rt' = [rt EXCEPT !.fin = "patch"]
    /\ CloseMcpServers
    /\ patches' = Append(patches, rt.outcome)
    /\ UNCHANGED <<mode, extra, meta, call, inbox, late, run, drv, viewVars, cliVars>>

(* Mutant: what onRun did decides, whatever the user asked for.            *)
OutcomeOfRun(r, threw) ==
    CASE r.aborted -> "aborted"
      [] ~r.aborted /\ mode = "task" -> "failed"
      [] ~r.aborted /\ mode = "chat" -> IF threw THEN "failed" ELSE "done"
OutcomeOf(r, threw) ==
    CASE r.aborted -> "aborted"
      [] ~r.aborted /\ mode = "task" -> "failed"
      [] ~r.aborted /\ mode = "chat" -> IF threw /\ ~r.ending THEN "failed" ELSE "done"

(* run() goes on when onRun is over, and the engine forgets the runtime    *)
(* once the finaliser that run() awaits, if it is its own, is done.        *)
RunEnds(how) ==
    /\ rt' = [SettleOnce(rt, how) EXCEPT !.live = ~rt.settled]
    /\ run' = [run EXCEPT !.pc = IF rt.settled THEN "over" ELSE "settling"]
OnRunSettled ==
    /\ run.pc = "back"
    /\ RunEnds(OutcomeOf(rt, run.threw))
    /\ UNCHANGED <<mode, extra, sessVars, drv, viewVars, cliVars>>
RunOver ==
    /\ run.pc = "settling" /\ rt.fin = "sealed"
    /\ run' = [run EXCEPT !.pc = "over"]
    /\ rt' = [rt EXCEPT !.live = FALSE]
    /\ UNCHANGED <<mode, extra, sessVars, drv, viewVars, cliVars>>
-----------------------------------------------------------------------------
(* Spawn and registration, or a throw.                                     *)
Register(pc) ==
    \/ /\ drv' = LET d == [drv EXCEPT !.reg = TRUE, !.made = TRUE]
                 IN  IF rt.signal THEN Emit(d, "aborted") ELSE d
       /\ claude' = [claude EXCEPT !.phase = IF rt.signal THEN "dead" ELSE "idle"]
       /\ run' = [run EXCEPT !.pc = pc]
    \/ /\ run' = [run EXCEPT !.pc = "back", !.threw = TRUE]
       /\ UNCHANGED <<drv, claude>>

(* The store applies the oldest patch under the session's lock, and the    *)
(* code that awaits it goes on. The claim is the start of a chat: onRun    *)
(* mints its server, spawns and registers without yielding.                *)
Claim ==
    IF meta.status = "queued" /\ ~rt.settled
    THEN /\ rt' = [rt EXCEPT !.started = TRUE]
         /\ NewMCPServer
         /\ Register("chat")
    ELSE /\ rt' = [rt EXCEPT !.live = FALSE]
         /\ CloseMcpServers
         /\ run' = [run EXCEPT !.pc = "over"]
         /\ UNCHANGED <<drv, claude>>

StoreApplies ==
    /\ patches # <<>>
    /\ patches' = Tail(patches)
    /\ LET p == Head(patches) IN
       \/ /\ p \in {"busy", "idle"}
          /\ meta' = [meta EXCEPT !.activity = p]
          /\ UNCHANGED <<rt, servers, run, drv, claude>>
       \/ /\ p \in Terminal
          /\ meta' = [meta EXCEPT !.status = p]
          /\ rt' = [rt EXCEPT !.fin = "sealed"]
          /\ UNCHANGED <<servers, run, drv, claude>>
       \/ /\ p = "claim"
          /\ meta' = [meta EXCEPT !.status = IF @ = "queued" THEN "running" ELSE @]
          /\ Claim
    /\ UNCHANGED <<mode, extra, call, inbox, late, viewVars, cmds, out>>

(* The write of the claim fails: session_start_failed.                     *)
StartFails ==
    /\ patches # <<>> /\ Head(patches) = "claim"
    /\ patches' = Tail(patches)
    /\ RunEnds("failed")
    /\ UNCHANGED <<mode, extra, meta, call, inbox, servers, late, drv, viewVars, cliVars>>
-----------------------------------------------------------------------------
(* The signal kills the child, stops the coalescer and ends a turn.        *)
Signal(d) ==
    /\ claude' = [claude EXCEPT !.phase = IF @ = "none" THEN @ ELSE "dead"]
    /\ Stopped
    /\ drv' = IF drv.made /\ ~rt.signal THEN Emit(d, "aborted") ELSE d

(* end() and abort(): the flag, the signal, then onAbort, which shuts a    *)
(* registered driver down; a second shutdown returns at once.              *)
Finish(r, c) == SettleOnce(r, IF c = "end" THEN "done" ELSE "aborted")
Ask(c) ==
    LET waits == rt.started /\ drv.reg /\ ~drv.shutting
        r == [rt EXCEPT !.signal = TRUE, !.ending = @ \/ c = "end",
                        !.aborted = @ \/ c = "abort"]
    IN  /\ call[c] = "no" /\ rt.live /\ ~rt.settled
        /\ call' = [call EXCEPT ![c] = IF waits THEN "hook" ELSE "back"]
        /\ rt' = IF waits THEN r ELSE Finish(r, c)
        /\ Signal([drv EXCEPT !.shutting = @ \/ waits])
        /\ UNCHANGED <<mode, extra, meta, patches, inbox, servers, late, run, acc, logged,
                       bubble, cmds, out>>
AbortCall == Ask("abort")
EndCall == mode = "chat" /\ Ask("end")
HookReturns(c) ==
    /\ call[c] = "hook"
    /\ call' = [call EXCEPT ![c] = "back"]
    /\ rt' = Finish(rt, c)
    /\ UNCHANGED <<mode, extra, meta, patches, inbox, servers, late, run, drv, viewVars,
                   cliVars>>

(* engine.stop detaches every session, settled or not: nothing is written, *)
(* the signal fires, the servers close. A finaliser under way goes on.     *)
Detach ==
    /\ rt.live /\ rt.daemon = "up"
    /\ rt' = [rt EXCEPT !.settled = TRUE, !.fin = IF rt.settled THEN @ ELSE "detached",
                        !.signal = TRUE, !.daemon = "stopping"]
    /\ CloseMcpServers
    /\ Signal(drv)
    /\ UNCHANGED <<mode, extra, meta, patches, call, inbox, late, run, acc, logged, bubble,
                   cmds, out>>

(* The process has exited or was killed, with whatever it still had to do; *)
(* the next one reaps what is live on disk.                                *)
Live == meta.status \in {"queued", "running"}
Gone ==
    /\ rt.daemon # "gone"
    /\ rt' = [rt EXCEPT !.settled = TRUE, !.fin = "sealed", !.live = FALSE, !.daemon = "gone",
                        !.outcome = IF Live THEN "lost" ELSE @]
    /\ run' = [run EXCEPT !.pc = "over"]
    /\ claude' = [claude EXCEPT !.phase = "dead"]
    /\ patches' = <<>> /\ cmds' = <<>> /\ out' = <<>> /\ inbox' = <<>>
    /\ servers' = 0
    /\ UNCHANGED <<mode, extra, call, late, drv, viewVars>>
(* Mutant: a chat has no task to park and is skipped.                      *)
RecoverTasks ==
    /\ Gone
    /\ meta' = [meta EXCEPT !.status = IF mode = "task" /\ Live THEN "failed" ELSE @]
RecoverProject ==
    /\ Gone
    /\ meta' = [meta EXCEPT !.status = IF Live THEN "failed" ELSE @]
-----------------------------------------------------------------------------
(* input(): the steer entry is flushed, then the hook forwards to the      *)
(* driver, if there still is one.                                          *)
SessionInput(kind) ==
    /\ rt.started /\ ~rt.settled /\ Extra
    /\ inbox' = Append(inbox, kind)
    /\ UNCHANGED <<mode, rt, meta, patches, call, servers, late, run, drv, viewVars,
                   cliVars>>
InputCall(kind) == rt.live /\ SessionInput(kind)
InputHook ==
    /\ inbox # <<>>
    /\ inbox' = Tail(inbox)
    /\ IF drv.reg THEN ForwardInput(Head(inbox)) ELSE UNCHANGED <<drv, patches, cmds>>
    /\ UNCHANGED <<mode, extra, rt, meta, call, servers, late, run, viewVars, claude, out>>
-----------------------------------------------------------------------------
(* onRun.                                                                  *)
Goto(pc) == run' = [run EXCEPT !.pc = pc]
RunOnly == UNCHANGED <<mode, extra, rt, sessVars, drv, viewVars, cliVars>>

Workspace ==
    /\ run.pc = "workspace"
    /\ \/ NewMCPServer /\ late' = rt.settled /\ Register("seed")
       \/ /\ run' = [run EXCEPT !.pc = "back", !.threw = TRUE]     \* it threw
          /\ UNCHANGED <<servers, late, drv, claude>>
    /\ UNCHANGED <<mode, extra, rt, meta, patches, call, inbox, viewVars, cmds, out>>

SendPrompt(d, corr) ==
    /\ BeginTurn(d) /\ Write(Message)
    /\ run' = [run EXCEPT !.pc = "wait", !.corr = corr]
Seeded ==
    /\ run.pc = "seed" /\ SendPrompt(drv, 0)
    /\ UNCHANGED <<mode, extra, rt, meta, call, inbox, servers, late, viewVars, claude, out>>

TakePendingTarget(d) == [d EXCEPT !.target = FALSE]
(* waitForTurnEnd looks at what has happened, then waits to be told.       *)
TurnEnds == drv.turns # <<>> \/ (run.pc = "wait" /\ (rt.signal \/ drv.exited))
WaitForTurnEnd ==
    /\ run.pc = "wait" /\ ~TurnEnds /\ Goto("waiting") /\ RunOnly
TurnEnd ==
    LET how == IF drv.turns # <<>> THEN Head(drv.turns)
               ELSE IF rt.signal THEN "aborted" ELSE "exited"
        left == IF drv.turns = <<>> THEN <<>> ELSE Tail(drv.turns)
        told == [drv EXCEPT !.turns = left]
        gone == IF how = "ended" THEN TakePendingTarget(told) ELSE told
        corrects == how = "ended" /\ ~drv.target /\ run.corr < MaxCorrections
    IN  /\ run.pc \in {"wait", "waiting"} /\ TurnEnds
        /\ IF corrects THEN SendPrompt(gone, run.corr + 1)
           ELSE /\ drv' = gone
                /\ run' = [run EXCEPT !.pc = IF how = "ended" /\ drv.target THEN "commit"
                                             ELSE "finally",
                                      !.threw = how = "exited"]
                /\ UNCHANGED <<patches, cmds>>
        /\ UNCHANGED <<mode, extra, rt, meta, call, inbox, servers, late, viewVars, claude,
                       out>>

(* ctx.transit commits and seals the session, or throws; a rejection is    *)
(* the next prompt.                                                        *)
CommitTransit ==
    /\ run.pc = "commit" /\ "transit" \in BuildContext
    /\ \/ /\ ~rt.settled
          /\ rt' = SettleOnce(rt, "done")
          /\ Goto("committed")
          /\ UNCHANGED <<drv, patches, cmds>>
       \/ /\ IF run.corr >= MaxCorrections THEN Goto("finally") /\ UNCHANGED <<drv, patches, cmds>>
             ELSE SendPrompt(drv, run.corr + 1)
          /\ UNCHANGED rt
    /\ UNCHANGED <<mode, extra, meta, call, inbox, servers, late, viewVars, claude, out>>
Committed ==
    /\ run.pc = "committed" /\ rt.fin = "sealed" /\ Goto("finally") /\ RunOnly

WaitForSignal == run.pc = "chat" /\ rt.signal
(* runChat waits for the signal. An agent may throw while it winds down.   *)
ChatWakes ==
    /\ WaitForSignal
    /\ \E threw \in BOOLEAN : run' = [run EXCEPT !.pc = "finally", !.threw = threw]
    /\ RunOnly

(* finally: unregister, shut down, close the server.                       *)
Finally ==
    /\ run.pc = "finally" /\ Goto("closing")
    /\ drv' = [drv EXCEPT !.reg = FALSE, !.shutting = TRUE]
    /\ UNCHANGED <<mode, extra, rt, sessVars, viewVars, cliVars>>
Closed ==
    /\ run.pc = "closing" /\ Goto("back")
    /\ claude' = [claude EXCEPT !.phase = "dead"]
    /\ servers' = 0
    /\ UNCHANGED <<mode, extra, rt, meta, patches, call, inbox, late, drv, viewVars, cmds,
                   out>>
-----------------------------------------------------------------------------
(* claude.                                                                 *)
Line(kind, block, transit) == [kind |-> kind, block |-> block, transit |-> transit]
Says(line) == Len(out) < MaxPipe /\ out' = Append(out, line)
CliOnly == UNCHANGED <<mode, rt, sessVars, run, drv, viewVars>>

(* A message starts a turn; in a turn it waits, or joins the turn.         *)
ClaudeReads ==
    /\ cmds # <<>> /\ claude.phase \in {"idle", "turn"}
    /\ CASE claude.phase = "idle" -> UNCHANGED out
         [] Head(cmds) = "message" -> UNCHANGED out
         [] OTHER -> Says(Line("result", 0, FALSE))
    /\ cmds' = Tail(cmds)
    /\ claude' = [claude EXCEPT !.phase =
           CASE Head(cmds) = "message" -> "turn" [] OTHER -> "idle"]
    /\ CliOnly /\ UNCHANGED extra
ClaudeStreams ==
    /\ claude.phase = "turn" /\ claude.block < MaxBlock /\ Extra
    /\ Says(Line("delta", claude.block + 1, FALSE))
    /\ CliOnly /\ UNCHANGED <<claude, cmds>>
ClaudeSpeaks ==
    /\ claude.phase = "turn" /\ claude.block < MaxBlock
    /\ \E transit \in BOOLEAN :
           /\ transit => "transit" \in ClaudeTools
           /\ Says(Line("assistant", claude.block + 1, transit))
    /\ claude' = [claude EXCEPT !.block = @ + 1]
    /\ CliOnly /\ UNCHANGED <<extra, cmds>>
ClaudeEndsTurn ==
    /\ claude.phase = "turn"
    /\ Says(Line("result", 0, FALSE))
    /\ claude' = [claude EXCEPT !.phase = "idle"]
    /\ CliOnly /\ UNCHANGED <<extra, cmds>>
ClaudeDies ==
    /\ claude.phase \in {"idle", "turn"} /\ Extra
    /\ claude' = [claude EXCEPT !.phase = "dead"]
    /\ CliOnly /\ UNCHANGED <<cmds, out>>
-----------------------------------------------------------------------------
(* A chat has been created queued and its claim is under way; a task       *)
(* session is in onRun.                                                    *)
NewRuntime ==
    [started |-> mode = "task", settled |-> FALSE, aborted |-> FALSE, ending |-> FALSE,
     signal |-> FALSE, live |-> TRUE, outcome |-> "none", fin |-> "no", daemon |-> "up"]
NewDriver ==
    [reg |-> FALSE, made |-> FALSE, streaming |-> FALSE, exited |-> FALSE, shutting |-> FALSE,
     turns |-> <<>>, target |-> FALSE]
Init ==
    /\ mode \in Mode /\ extra = 0
    /\ rt = NewRuntime
    /\ meta = [status |-> IF mode = "chat" THEN "queued" ELSE "running", activity |-> "idle"]
    /\ patches = IF mode = "chat" THEN <<"claim">> ELSE <<>>
    /\ inbox = <<>> /\ servers = 0 /\ late = FALSE
    /\ call = [c \in {"end", "abort"} |-> "no"]
    /\ run = [pc |-> IF mode = "chat" THEN "claim" ELSE "workspace", corr |-> 0, threw |-> FALSE]
    /\ drv = NewDriver
    /\ part = NoPart /\ acc = {} /\ logged = 0 /\ bubble = {}
    /\ claude = [phase |-> "none", block |-> 0] /\ cmds = <<>> /\ out = <<>>

Driver == ReadLine \/ PartialTimer \/ Exited
Runtime == Finalize \/ OnRunSettled \/ RunOver \/ StoreApplies \/ InputHook
           \/ \E c \in {"end", "abort"} : HookReturns(c)
Agent == Workspace \/ Seeded \/ WaitForTurnEnd \/ TurnEnd \/ CommitTransit \/ Committed \/ ChatWakes \/ Finally \/ Closed
Claude == ClaudeReads \/ ClaudeEndsTurn

Next ==
    \/ Driver \/ Runtime \/ Agent \/ Claude
    \/ StartFails \/ Detach \/ RecoverProject
    \/ ClaudeStreams \/ ClaudeSpeaks \/ ClaudeDies
    \/ AbortCall \/ EndCall
    \/ \E kind \in {"steer", "followup"} : InputCall(kind)

(* The event loop reads stdout, resumes what is ready and runs the store's *)
(* queue; claude answers what it is sent; a daemon that stops is started   *)
(* again. No client need send, end or abort anything.                      *)
Fairness ==
    /\ WF_vars(ReadLine) /\ WF_vars(Exited) /\ WF_vars(Agent)
    /\ WF_vars(Finalize) /\ WF_vars(OnRunSettled) /\ WF_vars(RunOver)
    /\ WF_vars(StoreApplies)
    /\ WF_vars(rt.daemon = "stopping" /\ RecoverProject)
    /\ \A c \in {"end", "abort"} : WF_vars(HookReturns(c))
    /\ WF_vars(ClaudeReads) /\ WF_vars(ClaudeEndsTurn)

Spec == Init /\ [][Next]_vars
FairSpec == Spec /\ Fairness
-----------------------------------------------------------------------------
(* A user who ends a chat gets done, whatever its agent does on the way    *)
(* out, unless the chat was aborted too or the daemon's process ended      *)
(* before the seal was on disk.                                            *)
EndMeansDone ==
    rt.ending /\ ~rt.aborted /\ meta.status \in Terminal =>
        meta.status = "done" \/ rt.outcome = "lost"

(* No MCP server outlives its session, except one minted after the session *)
(* had settled by an onRun that then throws.                               *)
NoServerLeft == run.pc = "over" /\ rt.fin = "sealed" => servers = 0 \/ late

(* A chat does not look busy when claude has nothing to do.                *)
Owed == claude.phase = "turn" \/ cmds # <<>>
Quiet == out = <<>> /\ patches = <<>> /\ claude.phase = "idle" /\ ~rt.settled
IdleIsLearned == mode = "chat" /\ Quiet /\ ~Owed => meta.activity = "idle" /\ ~drv.streaming

(* The live bubble never repeats a block that is in the transcript.        *)
BubbleIsAhead == \A b \in bubble : b > logged

(* What the clients of a session are shown of its agent is so.             *)
ShownIsTrue == IdleIsLearned /\ BubbleIsAhead

(* A chat the user ends or aborts, or the daemon detaches, is sealed.      *)
EndedIsSealed == rt.signal ~> meta.status \in Terminal
=============================================================================
