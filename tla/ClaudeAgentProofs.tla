-------------------------- MODULE ClaudeAgentProofs --------------------------
(* Proofs about ClaudeAgent: what a session ends as, that its servers go,   *)
(* and that what clients are shown of its agent is so.                      *)
EXTENDS ClaudeAgent, SequenceTheorems, TLAPS

Patch == {"claim", "busy", "idle"} \cup Terminal
Said == [kind : {"delta", "assistant", "result"}, block : Nat, transit : BOOLEAN]

RtType ==
    [started : BOOLEAN, settled : BOOLEAN, aborted : BOOLEAN, ending : BOOLEAN,
     signal : BOOLEAN, live : BOOLEAN, outcome : Terminal \cup {"none", "lost"},
     fin : {"no", "flush", "patch", "sealed", "detached"}, daemon : {"up", "stopping", "gone"}]
DrvType ==
    [reg : BOOLEAN, made : BOOLEAN, streaming : BOOLEAN, exited : BOOLEAN,
     shutting : BOOLEAN, turns : Seq({"ended", "aborted", "exited"}), target : BOOLEAN]
RunType ==
    [pc : {"claim", "workspace", "seed", "wait", "waiting", "commit", "committed", "chat",
           "finally", "closing", "back", "settling", "over"},
     corr : Nat, threw : BOOLEAN]

PartType == [timer : BOOLEAN, held : SUBSET Nat]

TypeInv ==
    /\ mode \in {"task", "chat"} /\ extra \in Nat
    /\ rt \in RtType /\ (rt.fin = "flush" => rt.outcome \in Terminal)
    /\ meta \in [status : {"queued", "running"} \cup Terminal, activity : {"idle", "busy"}]
    /\ patches \in Seq(Patch)
    /\ call \in [{"end", "abort"} -> {"no", "hook", "back"}]
    /\ inbox \in Seq({"steer", "followup"})
    /\ servers \in {0, 1} /\ late \in BOOLEAN
    /\ run \in RunType
    /\ drv \in DrvType
    /\ part \in PartType /\ acc \in SUBSET Nat
    /\ logged \in Nat /\ bubble \in SUBSET Nat
    /\ claude \in [phase : {"none", "idle", "turn", "dead"}, block : Nat]
    /\ cmds \in Seq({"message", "interrupt"}) /\ out \in Seq(Said)

Chat == mode = "chat"

(* One outcome is claimed, at once, and it is the one that is sealed unless *)
(* the daemon is gone before: a session that is ended and not aborted was   *)
(* not settled before that. The claim heads the store's queue, the seal is  *)
(* the last it is asked for.                                                *)
SettleInv ==
    /\ rt.settled <=> rt.fin # "no"
    /\ rt.fin \in {"no", "detached"} => rt.outcome = "none"
    /\ rt.fin \in {"flush", "patch"} => rt.outcome \in Terminal
    /\ rt.ending => Chat /\ (rt.started \/ rt.settled)
    /\ rt.ending /\ ~rt.aborted /\ rt.outcome \in Terminal => rt.outcome = "done"
    /\ meta.status \in Terminal =>
           rt.fin = "sealed" /\ rt.outcome \in {meta.status, "lost"}
    /\ rt.fin \in {"patch", "sealed", "detached"} => servers = 0 \/ late
    /\ call["end"] = "hook" => rt.ending
    /\ call["abort"] = "hook" => rt.aborted
    /\ \A i \in 1..Len(patches) :
          /\ patches[i] \in Terminal =>
                i = Len(patches) /\ rt.fin = "patch" /\ patches[i] = rt.outcome
          /\ patches[i] = "claim" => i = 1 /\ Chat /\ ~rt.started

(* The part of a chat that has begun: a turn that streams is owed a result, *)
(* and when none does, the last activity asked for is idle.                 *)
Bound == claude.phase # "idle" \/ \E i \in 1..Len(cmds) : cmds[i] = "message"
Resulting == \E i \in 1..Len(out) : out[i].kind = "result"
GoesIdle(q, activity) ==
    \/ \E i \in 1..Len(q) : q[i] = "idle" /\ \A k \in (i + 1)..Len(q) : q[k] # "busy"
    \/ activity = "idle" /\ \A k \in 1..Len(q) : q[k] # "busy"
ChatInv ==
    Chat =>
        /\ run.pc \in {"claim", "chat", "finally", "closing", "back", "settling", "over"}
        /\ drv.reg => drv.made
        /\ drv.made => rt.started
        /\ ~drv.made => ~drv.streaming /\ claude.phase \in {"none", "dead"}
        /\ ~rt.settled =>
              /\ drv.streaming => Bound \/ Resulting
              /\ ~drv.streaming => GoesIdle(patches, meta.activity)

(* What is streamed is ahead of what is committed, and so is what is still  *)
(* to be read.                                                              *)
Ahead(S, n) == \A b \in S : b > n
BubbleInv ==
    /\ logged <= claude.block
    /\ Ahead(acc, logged) /\ Ahead(part.held, logged) /\ Ahead(bubble, logged)
    /\ \A i \in 1..Len(out) : out[i].kind = "assistant" => out[i].block <= claude.block
    /\ \A i \in 1..Len(out) : out[i].kind = "delta" => out[i].block > logged
    /\ \A i, j \in 1..Len(out) :
          j < i /\ out[i].kind = "delta" /\ out[j].kind = "assistant" => out[j].block < out[i].block

Inv == TypeInv /\ SettleInv /\ ChatInv /\ BubbleInv

-----------------------------------------------------------------------------
(* A line of a queue is one place nearer once its head is taken.            *)
LEMMA Shifted ==
    ASSUME NEW L \in Nat
    PROVE  \A n \in 1..(L - 1) : /\ n + 1 \in 1..L /\ n + 1 # 1
                                 /\ n + 1 = L => n = L - 1
OBVIOUS

(* A queue that grows at its tail and is taken from at its head.            *)
LEMMA SeqOps ==
    ASSUME NEW S, NEW q \in Seq(S)
    PROVE  /\ Len(q) \in Nat
           /\ \A x \in S : /\ Append(q, x) \in Seq(S) /\ Len(Append(q, x)) = Len(q) + 1
                           /\ \A i \in 1..Len(q) : Append(q, x)[i] = q[i]
                           /\ Append(q, x)[Len(q) + 1] = x
           /\ q # <<>> => /\ Tail(q) \in Seq(S) /\ Head(q) \in S /\ Head(q) = q[1]
                         /\ Len(q) > 0 /\ Len(Tail(q)) = Len(q) - 1
                         /\ \A i \in 1..(Len(q) - 1) : Tail(q)[i] = q[i + 1]
BY AppendProperties, HeadTailProperties, LenProperties, EmptySeq

(* What is written to claude's stdin is appended to what is there.          *)
LEMMA ConcatOps ==
    ASSUME NEW S, NEW q \in Seq(S), NEW r \in Seq(S)
    PROVE  /\ q \o r \in Seq(S) /\ Len(q \o r) = Len(q) + Len(r)
           /\ \A i \in 1..Len(q) : (q \o r)[i] = q[i]
           /\ \A i \in 1..Len(r) : (q \o r)[Len(q) + i] = r[i]
BY ConcatProperties, LenProperties

(* What the driver says of the end of a turn, and what it writes.           *)
LEMMA DriverOps ==
    ASSUME NEW d \in DrvType, NEW r \in {"ended", "aborted", "exited"}
    PROVE  /\ Emit(d, r) \in DrvType
           /\ Emit(d, r).streaming = d.streaming /\ Emit(d, r).made = d.made
           /\ Emit(d, r).reg = d.reg
<1>1. Append(d.turns, r) \in Seq({"ended", "aborted", "exited"})
  BY SeqOps DEF DrvType
<1> QED
  BY <1>1 DEF Emit, DrvType

(* An activity is patched in a chat that has started and not settled.       *)
LEMMA Activity ==
    ASSUME TypeInv, NEW b \in {"busy", "idle"}
    PROVE  /\ SetActivity(b) \in Seq(Patch)
           /\ SetActivity(b) = IF Chat /\ rt.started /\ ~rt.settled
                               THEN Append(patches, b) ELSE patches
BY SeqOps DEF SetActivity, BuildContext, TypeInv, Patch, Chat

(* A turn begins: the driver streams, and a chat that did not looks busy.   *)
LEMMA Began ==
    ASSUME TypeInv, NEW d \in DrvType, BeginTurn(d)
    PROVE  /\ drv' \in DrvType /\ patches' \in Seq(Patch)
           /\ drv'.streaming /\ drv'.made = d.made /\ drv'.reg = d.reg
           /\ patches' = IF ~d.streaming /\ Chat /\ rt.started /\ ~rt.settled
                         THEN Append(patches, "busy") ELSE patches
BY Activity DEF BeginTurn, DrvType, TypeInv

(* A message written to claude's stdin is among what it has yet to read.    *)
LEMMA Wrote ==
    ASSUME TypeInv, NEW m, m \in {Message, Interrupt, Interrupt \o Message}, Write(m)
    PROVE  /\ cmds' \in Seq({"message", "interrupt"})
           /\ \A i \in 1..Len(cmds) : i \in 1..Len(cmds') /\ cmds'[i] = cmds[i]
           /\ m # Interrupt => \E i \in 1..Len(cmds') : cmds'[i] = "message"
<1> DEFINE S == {"message", "interrupt"}
<1>1. Message \in Seq(S) /\ Interrupt \in Seq(S) /\ Len(Message) = 1 /\ Message[1] = "message"
      /\ Len(Interrupt) = 1
  BY DEF Message, Interrupt
<1>2. m \in Seq(S) /\ (m # Interrupt => \E k \in 1..Len(m) : m[k] = "message")
  <2>1. CASE m = Message \/ m = Interrupt
    BY <1>1, <2>1
  <2>2. CASE m = Interrupt \o Message
    <3>1. m \in Seq(S) /\ Len(m) = 2 /\ m[1 + 1] = Message[1]
      BY <1>1, <2>2, ConcatOps
    <3> QED
      BY <1>1, <3>1
  <2> QED
    BY <2>1, <2>2
<1>3. cmds \in Seq(S) /\ cmds' = cmds \o m /\ Len(cmds) \in Nat /\ Len(m) \in Nat
  BY <1>2, LenProperties DEF Write, TypeInv
<1> HIDE DEF S
<1>4. /\ cmds' \in Seq(S) /\ Len(cmds') = Len(cmds) + Len(m)
      /\ \A i \in 1..Len(cmds) : cmds'[i] = cmds[i]
      /\ \A i \in 1..Len(m) : cmds'[Len(cmds) + i] = m[i]
  BY <1>2, <1>3, ConcatOps
<1>5. \A i \in 1..Len(m) : Len(cmds) + i \in 1..Len(cmds')
  BY <1>3, <1>4
<1> QED
  BY <1>2, <1>3, <1>4, <1>5 DEF S

(* settleOnce: the first caller's outcome, and nothing for the next.        *)
LEMMA Settles ==
    ASSUME NEW r \in RtType, NEW how \in Terminal
    PROVE  /\ SettleOnce(r, how) \in RtType
           /\ r.settled => SettleOnce(r, how) = r
           /\ ~r.settled => SettleOnce(r, how) =
                  [r EXCEPT !.settled = TRUE, !.outcome = how, !.fin = "flush"]
           /\ (r.fin = "flush" => r.outcome \in Terminal) =>
                  (SettleOnce(r, how).fin = "flush" => SettleOnce(r, how).outcome \in Terminal)
BY DEF SettleOnce, RtType, Terminal

(* What the coalescer can hold.                                             *)
LEMMA Parts ==
    /\ NoPart \in PartType /\ NoPart.held = {}
    /\ \A b \in BOOLEAN, S \in SUBSET Nat : [timer |-> b, held |-> S] \in PartType
    /\ \A p \in PartType : p.held \in SUBSET Nat
                          /\ \A S \in SUBSET Nat : [p EXCEPT !.held = S] \in PartType
    /\ [NoPart EXCEPT !.timer = TRUE] \in PartType
BY DEF NoPart, PartType

(* A snapshot is shown at once or held until the coalescer's timer fires.   *)
LEMMA Pushed ==
    ASSUME NEW S \in SUBSET Nat, TypeInv, Push(S)
    PROVE  /\ part' \in PartType /\ bubble' \in SUBSET Nat
           /\ part'.held \in {{}, S} /\ bubble' \in {bubble, S}
BY DEF Push, NoPart, PartType, TypeInv

(* Types, and a finaliser that has an outcome to write.                     *)
LEMMA TypeStep == TypeInv /\ [Next]_vars => TypeInv'
<1> SUFFICES ASSUME TypeInv, [Next]_vars PROVE TypeInv'
  OBVIOUS
<1> USE DEF sessVars, viewVars, cliVars
<1>a. /\ rt \in RtType /\ drv \in DrvType /\ run \in RunType
      /\ patches \in Seq(Patch) /\ out \in Seq(Said) /\ inbox \in Seq({"steer", "followup"})
      /\ cmds \in Seq({"message", "interrupt"})
      /\ drv.turns \in Seq({"ended", "aborted", "exited"})
  BY DEF TypeInv, DrvType
<1>b. rt.fin = "flush" => rt.outcome \in Terminal
  BY DEF TypeInv
<1>1. CASE ReadLine
  <2>1. out' \in Seq(Said) /\ Head(out) \in Said
    BY <1>1, <1>a, SeqOps DEF ReadLine
  <2>2. UNCHANGED <<mode, extra, rt, meta, call, inbox, servers, late, run, claude, cmds>>
    BY <1>1 DEF ReadLine
  <2>3. CASE OnStreamEvent(Head(out).block)
    <3>1. acc' \in SUBSET Nat
      BY <2>1, <2>3 DEF OnStreamEvent, Accumulate, TypeInv, Said
    <3>2. part' \in PartType /\ bubble' \in SUBSET Nat
      <4> DEFINE S == acc \cup {Head(out).block}
      <4>1. S \in SUBSET Nat /\ Push(S)
        BY <2>1, <2>3 DEF OnStreamEvent, Accumulate, TypeInv, Said, Push
      <4> HIDE DEF S
      <4> QED
        BY <4>1, Pushed
    <3> QED
      BY <2>1, <2>2, <2>3, <3>1, <3>2 DEF OnStreamEvent, TypeInv
  <2>4. CASE OnAssistant(Head(out))
    <3>1. drv' \in DrvType /\ logged' \in Nat
      BY <2>1, <2>4, <1>a DEF OnAssistant, DrvType, Said
    <3> QED
      BY <2>1, <2>2, <2>4, <3>1, Parts DEF OnAssistant, Stopped, TypeInv
  <2>5. CASE OnResult
    <3>1. [drv EXCEPT !.streaming = FALSE] \in DrvType
      BY <1>a DEF DrvType
    <3>2. drv' \in DrvType /\ patches' \in Seq(Patch)
      BY <2>5, <3>1, DriverOps, Activity DEF OnResult
    <3> QED
      BY <2>1, <2>2, <2>5, <3>2, Parts DEF OnResult, Stopped, TypeInv
  <2> DEFINE line == Head(out)
  <2>6. line.kind \in {"delta", "assistant", "result"}
    BY <2>1 DEF Said
  <2>7. \/ OnStreamEvent(line.block) \/ OnAssistant(line) \/ OnResult
    BY <1>1, <2>6 DEF ReadLine
  <2> QED
    BY <2>3, <2>4, <2>5, <2>7
<1>2. CASE PartialTimer
  <2>1. part' \in PartType /\ bubble' \in SUBSET Nat
    BY <1>2, Parts DEF PartialTimer, Stopped, TypeInv
  <2> QED
    BY <1>2, <2>1 DEF PartialTimer, TypeInv
<1>3. CASE Exited
  <2>1. [drv EXCEPT !.exited = TRUE] \in DrvType
    BY <1>a DEF DrvType
  <2>2. drv' \in DrvType
    BY <1>3, <2>1, DriverOps DEF Exited
  <2> QED
    BY <1>3, <2>2, Parts DEF Exited, Stopped, TypeInv
<1>4. CASE Finalize
  <2>1. rt.outcome \in Patch /\ rt' \in RtType /\ rt'.fin = "patch"
    BY <1>4, <1>a DEF Finalize, RtType, Patch, TypeInv
  <2>2. patches' \in Seq(Patch)
    BY <1>4, <2>1, <1>a, SeqOps DEF Finalize
  <2> QED
    BY <1>4, <2>1, <2>2 DEF Finalize, CloseMcpServers, TypeInv
<1>5. ASSUME NEW how \in Terminal, RunEnds(how)
      PROVE  rt' \in RtType /\ run' \in RunType /\ (rt'.fin = "flush" => rt'.outcome \in Terminal)
  <2>1. SettleOnce(rt, how) \in RtType
    BY <1>a, Settles
  <2>2. SettleOnce(rt, how).fin = "flush" => SettleOnce(rt, how).outcome \in Terminal
    BY <1>a, <1>b, Settles
  <2>3. rt' = [SettleOnce(rt, how) EXCEPT !.live = ~rt.settled]
        /\ run' = [run EXCEPT !.pc = IF rt.settled THEN "over" ELSE "settling"]
        /\ rt.settled \in BOOLEAN
    BY <1>5, <1>a DEF RunEnds, RtType
  <2>4. rt' \in RtType /\ rt'.fin = SettleOnce(rt, how).fin
        /\ rt'.outcome = SettleOnce(rt, how).outcome
    <3> HIDE DEF Terminal
    <3> QED
      BY <2>1, <2>3 DEF RtType
  <2>5. run' \in RunType
    BY <1>a, <2>3 DEF RunType
  <2> QED
    BY <2>2, <2>4, <2>5
<1>6. CASE OnRunSettled
  <2>1. OutcomeOf(rt, run.threw) \in Terminal
    BY DEF OutcomeOf, Terminal, TypeInv
  <2>2. rt' \in RtType /\ run' \in RunType /\ (rt'.fin = "flush" => rt'.outcome \in Terminal)
    BY <1>5, <1>6, <2>1 DEF OnRunSettled
  <2> QED
    BY <1>6, <2>2 DEF OnRunSettled, TypeInv
<1>7. CASE RunOver
  BY <1>7, <1>a DEF RunOver, TypeInv, RtType, RunType
<1>8. ASSUME NEW pc \in {"chat", "seed"}, Register(pc)
      PROVE  /\ drv' \in DrvType /\ run' \in RunType
             /\ claude' \in [phase : {"none", "idle", "turn", "dead"}, block : Nat]
  <2> DEFINE d == [drv EXCEPT !.reg = TRUE, !.made = TRUE]
  <2>1. d \in DrvType
    BY <1>a DEF DrvType
  <2>2. Emit(d, "aborted") \in DrvType
    BY <2>1, DriverOps
  <2> QED
    BY <1>8, <1>a, <2>1, <2>2 DEF Register, TypeInv, RunType
<1>9. CASE StoreApplies
  <2>1. patches' \in Seq(Patch) /\ Head(patches) \in Patch
    BY <1>9, <1>a, SeqOps DEF StoreApplies
  <2>2. UNCHANGED <<mode, extra, call, inbox, late, acc, part, logged, bubble, cmds, out>>
    BY <1>9 DEF StoreApplies
  <2>3. CASE /\ Head(patches) \in {"busy", "idle"}
             /\ meta' = [meta EXCEPT !.activity = Head(patches)]
             /\ UNCHANGED <<rt, servers, run, drv, claude>>
    BY <2>1, <2>2, <2>3 DEF TypeInv
  <2>4. CASE /\ Head(patches) \in Terminal
             /\ meta' = [meta EXCEPT !.status = Head(patches)]
             /\ rt' = [rt EXCEPT !.fin = "sealed"]
             /\ UNCHANGED <<servers, run, drv, claude>>
    <3>1. rt' \in RtType /\ rt'.fin = "sealed"
      BY <2>4, <1>a DEF RtType
    <3> QED
      BY <2>1, <2>2, <2>4, <3>1 DEF TypeInv
  <2>5. CASE /\ meta' = [meta EXCEPT !.status = IF @ = "queued" THEN "running" ELSE @]
             /\ Claim
    <3>1. /\ rt' \in RtType /\ rt'.fin = rt.fin /\ rt'.outcome = rt.outcome
          /\ servers' \in {0, 1} /\ drv' \in DrvType /\ run' \in RunType
          /\ claude' \in [phase : {"none", "idle", "turn", "dead"}, block : Nat]
      <4>1. CASE meta.status = "queued" /\ ~rt.settled
        BY <2>5, <4>1, <1>8, <1>a DEF Claim, NewMCPServer, RtType
      <4>2. CASE ~(meta.status = "queued" /\ ~rt.settled)
        <5>1. /\ rt' = [rt EXCEPT !.live = FALSE] /\ CloseMcpServers
              /\ run' = [run EXCEPT !.pc = "over"] /\ UNCHANGED <<drv, claude>>
          BY <2>5, <4>2 DEF Claim
        <5>2. rt' \in RtType /\ rt'.fin = rt.fin /\ rt'.outcome = rt.outcome
          BY <1>a, <5>1 DEF RtType
        <5>3. run' \in RunType /\ servers' \in {0, 1}
          BY <1>a, <5>1 DEF RunType, CloseMcpServers
        <5> QED
          BY <1>a, <5>1, <5>2, <5>3 DEF TypeInv
      <4> QED
        BY <4>1, <4>2
    <3> QED
      BY <2>1, <2>2, <2>5, <3>1 DEF TypeInv
  <2> QED
    BY <1>9, <2>3, <2>4, <2>5 DEF StoreApplies
<1>10. CASE StartFails
  <2>1. "failed" \in Terminal
    BY DEF Terminal
  <2>2. rt' \in RtType /\ run' \in RunType /\ (rt'.fin = "flush" => rt'.outcome \in Terminal)
    BY <1>5, <1>10, <2>1 DEF StartFails
  <2>3. patches' \in Seq(Patch)
    BY <1>10, <1>a, SeqOps DEF StartFails
  <2> QED
    BY <1>10, <2>2, <2>3 DEF StartFails, TypeInv
<1>11. ASSUME NEW d \in DrvType, Signal(d)
       PROVE  /\ claude' \in [phase : {"none", "idle", "turn", "dead"}, block : Nat]
              /\ part' \in PartType /\ drv' \in DrvType
  <2>1. Emit(d, "aborted") \in DrvType
    BY DriverOps
  <2> QED
    BY <1>11, <1>a, <2>1, Parts DEF Signal, Stopped, TypeInv
<1>12. ASSUME NEW c \in {"end", "abort"}, Ask(c) PROVE TypeInv'
  <2> DEFINE waits == rt.started /\ drv.reg /\ ~drv.shutting
             r == [rt EXCEPT !.signal = TRUE, !.ending = @ \/ c = "end",
                             !.aborted = @ \/ c = "abort"]
             d == [drv EXCEPT !.shutting = @ \/ waits]
  <2>1. r \in RtType /\ d \in DrvType /\ r.fin = rt.fin /\ r.outcome = rt.outcome
    BY <1>a DEF RtType, DrvType
  <2>2. /\ rt' = IF waits THEN r ELSE Finish(r, c)
        /\ Signal(d)
        /\ call' = [call EXCEPT ![c] = IF waits THEN "hook" ELSE "back"]
        /\ UNCHANGED <<mode, extra, meta, patches, inbox, servers, late, run, acc, logged,
                       bubble, cmds, out>>
    BY <1>12 DEF Ask
  <2> HIDE DEF r, d, waits
  <2>3. Finish(r, c) \in RtType /\ (Finish(r, c).fin = "flush" => Finish(r, c).outcome \in Terminal)
    <3>1. "done" \in Terminal /\ "aborted" \in Terminal /\ (r.fin = "flush" => r.outcome \in Terminal)
      BY <2>1 DEF Terminal, TypeInv
    <3> QED
      BY <2>1, <3>1, Settles DEF Finish
  <2>4. /\ claude' \in [phase : {"none", "idle", "turn", "dead"}, block : Nat]
        /\ part' \in PartType /\ drv' \in DrvType
    BY <2>1, <2>2, <1>11
  <2> QED
    BY <2>1, <2>2, <2>3, <2>4 DEF TypeInv
<1>13. ASSUME NEW c \in {"end", "abort"}, HookReturns(c) PROVE TypeInv'
  <2>1. Finish(rt, c) \in RtType /\ (Finish(rt, c).fin = "flush" => Finish(rt, c).outcome \in Terminal)
    <3>1. "done" \in Terminal /\ "aborted" \in Terminal
      BY DEF Terminal
    <3> QED
      BY <1>a, <1>b, <3>1, Settles DEF Finish
  <2> QED
    BY <1>13, <2>1 DEF HookReturns, TypeInv
<1>14. CASE Detach
  <2>1. rt' \in RtType /\ (rt'.fin = "flush" => rt'.outcome \in Terminal)
    BY <1>14, <1>a DEF Detach, RtType, TypeInv
  <2>2. /\ claude' \in [phase : {"none", "idle", "turn", "dead"}, block : Nat]
        /\ part' \in PartType /\ drv' \in DrvType
    BY <1>14, <1>11, <1>a DEF Detach
  <2> QED
    BY <1>14, <2>1, <2>2 DEF Detach, CloseMcpServers, TypeInv
<1>15. CASE RecoverProject
  <2>1. rt' \in RtType /\ rt'.fin = "sealed" /\ run' \in RunType
    BY <1>15, <1>a DEF RecoverProject, Gone, RtType, RunType
  <2>2. meta' \in [status : {"queued", "running"} \cup Terminal, activity : {"idle", "busy"}]
    BY <1>15 DEF RecoverProject, TypeInv, Terminal
  <2> QED
    BY <1>15, <2>1, <2>2 DEF RecoverProject, Gone, TypeInv
<1>16. ASSUME NEW kind \in {"steer", "followup"}, InputCall(kind) PROVE TypeInv'
  <2>1. inbox' \in Seq({"steer", "followup"})
    BY <1>16, <1>a, SeqOps DEF InputCall, SessionInput
  <2> QED
    BY <1>16, <2>1 DEF InputCall, SessionInput, Extra, TypeInv
<1>17. CASE InputHook
  <2>1. inbox' \in Seq({"steer", "followup"})
    BY <1>17, <1>a, SeqOps DEF InputHook
  <2>2. drv' \in DrvType /\ patches' \in Seq(Patch) /\ cmds' \in Seq({"message", "interrupt"})
    BY <1>17, <1>a, Began, Wrote DEF InputHook, ForwardInput
  <2> QED
    BY <1>17, <2>1, <2>2 DEF InputHook, TypeInv
<1>18. CASE Workspace
  <2>1. late' \in BOOLEAN /\ servers' \in {0, 1}
    BY <1>18, <1>a DEF Workspace, NewMCPServer, TypeInv, RtType
  <2>2. /\ drv' \in DrvType /\ run' \in RunType
        /\ claude' \in [phase : {"none", "idle", "turn", "dead"}, block : Nat]
    <3>1. CASE Register("seed")
      BY <3>1, <1>8
    <3>2. CASE /\ run' = [run EXCEPT !.pc = "back", !.threw = TRUE]
               /\ UNCHANGED <<drv, claude>>
      BY <3>2, <1>a DEF RunType, TypeInv
    <3> QED
      BY <1>18, <3>1, <3>2 DEF Workspace
  <2> QED
    BY <1>18, <2>1, <2>2 DEF Workspace, TypeInv
<1>19. ASSUME NEW d \in DrvType, NEW n \in Nat, SendPrompt(d, n)
       PROVE  /\ drv' \in DrvType /\ patches' \in Seq(Patch) /\ run' \in RunType
              /\ cmds' \in Seq({"message", "interrupt"})
  BY <1>19, <1>a, Began, Wrote DEF SendPrompt, RunType
<1>20. CASE Seeded
  BY <1>20, <1>19, <1>a DEF Seeded, TypeInv
<1>21. CASE WaitForTurnEnd \/ Committed \/ ChatWakes
  BY <1>21, <1>a DEF WaitForTurnEnd, Committed, ChatWakes, Goto, RunOnly, TypeInv, RunType
<1>22. CASE TurnEnd
  <2> DEFINE left == IF drv.turns = <<>> THEN <<>> ELSE Tail(drv.turns)
             how == IF drv.turns # <<>> THEN Head(drv.turns)
                    ELSE IF rt.signal THEN "aborted" ELSE "exited"
             told == [drv EXCEPT !.turns = left]
             gone == IF how = "ended" THEN TakePendingTarget(told) ELSE told
  <2>1. left \in Seq({"ended", "aborted", "exited"})
    BY <1>a, SeqOps
  <2>2. told \in DrvType
    <3> HIDE DEF left
    <3> QED
      BY <1>a, <2>1 DEF DrvType
  <2>3. gone \in DrvType
    <3> HIDE DEF told
    <3> QED
      BY <2>2 DEF TakePendingTarget, DrvType
  <2>4. \/ SendPrompt(gone, run.corr + 1)
        \/ /\ drv' = gone
           /\ run' = [run EXCEPT !.pc = IF how = "ended" /\ drv.target THEN "commit"
                                        ELSE "finally",
                                 !.threw = how = "exited"]
           /\ UNCHANGED <<patches, cmds>>
    BY <1>22 DEF TurnEnd
  <2>5. UNCHANGED <<mode, extra, rt, meta, call, inbox, servers, late, viewVars, claude, out>>
    BY <1>22 DEF TurnEnd
  <2> HIDE DEF gone, how
  <2>6. run.corr + 1 \in Nat
    BY <1>a DEF RunType
  <2>7. /\ drv' \in DrvType /\ patches' \in Seq(Patch) /\ run' \in RunType
        /\ cmds' \in Seq({"message", "interrupt"})
    BY <2>3, <2>4, <2>6, <1>19, <1>a DEF RunType
  <2> QED
    BY <2>5, <2>7 DEF TypeInv
<1>23. CASE CommitTransit
  <2>1. run.corr + 1 \in Nat
    BY <1>a DEF RunType
  <2>2. "done" \in Terminal /\ "done" # "none"
    BY DEF Terminal
  <2>3. rt' \in RtType /\ (rt'.fin = "flush" => rt'.outcome \in Terminal)
    <3>1. rt' = rt \/ rt' = SettleOnce(rt, "done")
      BY <1>23 DEF CommitTransit
    <3> QED
      BY <3>1, <1>a, <1>b, <2>2, Settles
  <2>4. /\ drv' \in DrvType /\ patches' \in Seq(Patch) /\ run' \in RunType
        /\ cmds' \in Seq({"message", "interrupt"})
    BY <1>23, <2>1, <1>19, <1>a DEF CommitTransit, Goto, RunType, TypeInv
  <2> QED
    BY <1>23, <2>3, <2>4 DEF CommitTransit, TypeInv
<1>24. CASE Finally \/ Closed
  BY <1>24, <1>a DEF Finally, Closed, Goto, TypeInv, RunType, DrvType
<1>25. ASSUME NEW l \in Said, Says(l) PROVE out' \in Seq(Said)
  BY <1>25, <1>a, SeqOps DEF Says
<1>26. CASE ClaudeReads
  <2>1. Line("result", 0, FALSE) \in Said
    BY DEF Line, Said
  <2>2. out' \in Seq(Said)
    BY <1>26, <2>1, <1>25, <1>a DEF ClaudeReads
  <2>3. cmds' \in Seq({"message", "interrupt"})
    BY <1>26, <1>a, SeqOps DEF ClaudeReads
  <2> QED
    BY <1>26, <2>2, <2>3 DEF ClaudeReads, CliOnly, TypeInv
<1>27. CASE ClaudeStreams \/ ClaudeSpeaks \/ ClaudeEndsTurn
  <2>1. /\ claude.block + 1 \in Nat
        /\ claude' \in [phase : {"none", "idle", "turn", "dead"}, block : Nat]
        /\ extra' \in Nat
    <3> DEFINE C == [phase : {"none", "idle", "turn", "dead"}, block : Nat]
    <3>1. claude \in C /\ extra \in Nat
      BY DEF TypeInv
    <3>2. [claude EXCEPT !.block = claude.block + 1] \in C /\ [claude EXCEPT !.phase = "idle"] \in C
      BY <3>1
    <3>3. /\ claude' \in {claude, [claude EXCEPT !.block = claude.block + 1],
                         [claude EXCEPT !.phase = "idle"]}
          /\ extra' \in {extra, extra + 1}
      BY <1>27 DEF ClaudeStreams, ClaudeSpeaks, ClaudeEndsTurn, Extra
    <3>4. claude' \in C
      <4> HIDE DEF C
      <4> QED
        BY <3>1, <3>2, <3>3
    <3> QED
      BY <3>1, <3>3, <3>4
  <2>2. \A b \in Nat, t \in BOOLEAN, k \in {"delta", "assistant", "result"} :
           Line(k, b, t) \in Said
    BY DEF Line, Said
  <2>3. \E l \in Said : Says(l)
    BY <1>27, <2>1, <2>2 DEF ClaudeStreams, ClaudeSpeaks, ClaudeEndsTurn
  <2>4. out' \in Seq(Said)
    BY <2>3, <1>25
  <2> QED
    BY <1>27, <2>1, <2>4 DEF ClaudeStreams, ClaudeSpeaks, ClaudeEndsTurn, CliOnly, TypeInv
<1>28. CASE ClaudeDies
  <2>1. /\ claude' = [claude EXCEPT !.phase = "dead"] /\ extra' \in {extra, extra + 1}
        /\ UNCHANGED <<mode, rt, sessVars, run, drv, viewVars, cmds, out>>
    BY <1>28 DEF ClaudeDies, CliOnly, Extra
  <2>2. claude' \in [phase : {"none", "idle", "turn", "dead"}, block : Nat]
    BY <2>1 DEF TypeInv
  <2> QED
    BY <2>1, <2>2 DEF TypeInv
<1>29. CASE UNCHANGED vars
  BY <1>29 DEF vars, TypeInv
<1> QED
  BY <1>1, <1>2, <1>3, <1>4, <1>6, <1>7, <1>9, <1>10, <1>12, <1>13, <1>14, <1>15, <1>16, <1>17,
     <1>18, <1>20, <1>21, <1>22, <1>23, <1>24, <1>26, <1>27, <1>28, <1>29
     DEF Next, Driver, Runtime, Agent, Claude, AbortCall, EndCall

(* SettleInv is inductive.                                                  *)
LEMMA SettleStep == TypeInv /\ SettleInv /\ [Next]_vars => SettleInv'
<1> SUFFICES ASSUME TypeInv, SettleInv, [Next]_vars PROVE SettleInv'
  OBVIOUS
<1> USE DEF sessVars, viewVars, cliVars
<1>a. /\ rt \in RtType /\ drv \in DrvType /\ run \in RunType
      /\ patches \in Seq(Patch) /\ Len(patches) \in Nat /\ "busy" \in Patch /\ "idle" \in Patch
      /\ "busy" \notin Terminal /\ "idle" \notin Terminal /\ "claim" \notin Terminal
  BY LenProperties DEF TypeInv, Patch, Terminal
<1>b. /\ \A x \in Patch : /\ Len(Append(patches, x)) = Len(patches) + 1
                           /\ \A i \in 1..Len(patches) : Append(patches, x)[i] = patches[i]
                           /\ Append(patches, x)[Len(patches) + 1] = x
      /\ patches # <<>> => /\ Head(patches) = patches[1] /\ Len(patches) > 0
                           /\ Len(Tail(patches)) = Len(patches) - 1
                           /\ \A i \in 1..(Len(patches) - 1) : Tail(patches)[i] = patches[i + 1]
  BY <1>a, SeqOps
<1> DEFINE Q == \A i \in 1..Len(patches') :
                  /\ patches'[i] \in Terminal =>
                        i = Len(patches') /\ rt.fin = "patch" /\ patches'[i] = rt.outcome
                  /\ patches'[i] = "claim" => i = 1 /\ Chat /\ ~rt.started
<1>s. /\ \A j \in 1..Len(patches) :
            /\ patches[j] \in Terminal =>
                  j = Len(patches) /\ rt.fin = "patch" /\ patches[j] = rt.outcome
            /\ patches[j] = "claim" => j = 1 /\ Chat /\ ~rt.started
      /\ patches # <<>> => 1 \in 1..Len(patches)
  BY <1>a, <1>b DEF SettleInv
<1>q. patches' = patches => Q
  BY DEF SettleInv
<1>t. patches' = Tail(patches) /\ patches # <<>> =>
          Q /\ \A i \in 1..Len(patches') : patches'[i] # "claim"
  <2> SUFFICES ASSUME patches' = Tail(patches), patches # <<>>
               PROVE  \A n \in 1..Len(patches') :
                        /\ patches'[n] \in Terminal =>
                             n = Len(patches') /\ rt.fin = "patch" /\ patches'[n] = rt.outcome
                        /\ patches'[n] # "claim"
    OBVIOUS
  <2> HIDE DEF Q
  <2>1. Len(patches') = Len(patches) - 1 /\ Len(patches) \in Nat
        /\ \A n \in 1..(Len(patches) - 1) : patches'[n] = patches[n + 1]
    BY <1>a, <1>b
  <2>2. \A n \in 1..(Len(patches) - 1) :
           /\ n + 1 \in 1..Len(patches) /\ n + 1 # 1
           /\ n + 1 = Len(patches) => n = Len(patches) - 1
    BY <2>1, Shifted
  <2> QED
    BY <1>s, <2>1, <2>2
(* Activity joins the queue of a session that has not settled.              *)
<1>1. ASSUME NEW b \in {"busy", "idle"}, UNCHANGED <<mode, rt, meta, call, servers, late>>,
             patches' = patches \/ (~rt.settled /\ rt.started /\ patches' = Append(patches, b))
      PROVE  SettleInv'
  <2>1. CASE patches' = patches
    BY <1>1, <2>1 DEF SettleInv, Chat
  <2>2. CASE ~rt.settled /\ rt.started /\ patches' = Append(patches, b)
    <3>1. ASSUME NEW i \in 1..Len(patches')
          PROVE  patches'[i] \notin Terminal /\ patches'[i] # "claim"
      <4>1. CASE i \in 1..Len(patches)
        BY <1>a, <1>b, <2>2, <4>1 DEF SettleInv
      <4>2. CASE i = Len(patches) + 1
        BY <1>a, <1>b, <2>2, <4>2
      <4> QED
        BY <1>a, <1>b, <2>2, <4>1, <4>2
    <3> QED
      BY <1>1, <3>1 DEF SettleInv, Chat
  <2> QED
    BY <1>1, <2>1, <2>2
<1>2. CASE ReadLine \/ PartialTimer \/ Exited
  <2> DEFINE line == Head(out)
  <2>0. ReadLine => line.kind \in {"delta", "assistant", "result"}
    <3>1. out \in Seq(Said)
      BY DEF TypeInv
    <3>2. ReadLine => Head(out) \in Said
      BY <3>1, SeqOps DEF ReadLine
    <3> QED
      BY <3>2 DEF Said
  <2>1. patches' = patches \/ patches' = SetActivity("idle")
    BY <1>2, <2>0 DEF ReadLine, OnStreamEvent, OnAssistant, OnResult, PartialTimer, Exited
  <2>2. UNCHANGED <<mode, rt, meta, call, servers, late>>
    BY <1>2 DEF ReadLine, PartialTimer, Exited
  <2> QED
    BY <1>1, <2>1, <2>2, Activity
<1>3. CASE InputHook
  BY <1>1, <1>3, <1>a, Began DEF InputHook, ForwardInput
<1>4. CASE Seeded
  BY <1>1, <1>4, <1>a, Began DEF Seeded, SendPrompt
<1>5. CASE TurnEnd
  <2>1. patches' = patches \/ patches' = SetActivity("busy")
    BY <1>5 DEF TurnEnd, SendPrompt, BeginTurn
  <2>2. UNCHANGED <<mode, rt, meta, call, servers, late>>
    BY <1>5 DEF TurnEnd
  <2> QED
    BY <1>1, <2>1, <2>2, Activity
<1>6. CASE \/ WaitForTurnEnd \/ Committed \/ ChatWakes \/ Finally \/ UNCHANGED vars
           \/ \E kind \in {"steer", "followup"} : InputCall(kind)
           \/ ClaudeReads \/ ClaudeStreams \/ ClaudeSpeaks \/ ClaudeEndsTurn \/ ClaudeDies
  BY <1>1, <1>6 DEF WaitForTurnEnd, Committed, ChatWakes, Finally, RunOnly, InputCall,
     SessionInput, ClaudeReads, ClaudeStreams, ClaudeSpeaks, ClaudeEndsTurn, ClaudeDies, CliOnly,
     vars
<1>7. CASE RunOver
  BY <1>7, <1>a DEF RunOver, SettleInv, RtType, Chat
<1>8. CASE Closed
  BY <1>8 DEF Closed, SettleInv, Chat
<1>9. CASE Workspace
  BY <1>9 DEF Workspace, SettleInv, Chat
(* The outcome is claimed.                                                  *)
<1>10. ASSUME NEW r \in RtType, NEW how \in Terminal,
              r.settled = rt.settled, r.fin = rt.fin, r.outcome = rt.outcome,
              r.started = rt.started, rt.aborted => r.aborted, rt.ending => r.ending,
              rt.settled => r = rt, r.ending /\ ~r.aborted => rt.settled \/ how = "done",
              r.ending => Chat,
              rt'.settled = SettleOnce(r, how).settled, rt'.fin = SettleOnce(r, how).fin,
              rt'.outcome = SettleOnce(r, how).outcome, rt'.started = r.started,
              rt'.aborted = r.aborted, rt'.ending = r.ending,
              UNCHANGED <<mode, meta, servers, late>>, Q,
              call'["end"] = "hook" => r.ending, call'["abort"] = "hook" => r.aborted
       PROVE  SettleInv'
  <2>1. how # "none"
    BY DEF Terminal
  <2>2. CASE r.settled
    <3>1. SettleOnce(r, how) = r
      BY <2>2, Settles
    <3>2. /\ rt'.settled = rt.settled /\ rt'.fin = rt.fin /\ rt'.outcome = rt.outcome
          /\ rt'.started = rt.started /\ rt.settled
          /\ rt'.ending => Chat
          /\ rt'.ending = rt.ending /\ rt'.aborted = rt.aborted
          /\ call'["end"] = "hook" => rt'.ending
          /\ call'["abort"] = "hook" => rt'.aborted
      BY <1>10, <2>2, <3>1
    <3>3. UNCHANGED <<mode, meta, servers, late>> /\ Q
      BY <1>10
    <3> QED
      BY <3>2, <3>3 DEF SettleInv, Chat
  <2>3. CASE ~r.settled
    <3>0. SettleOnce(r, how) = [r EXCEPT !.settled = TRUE, !.outcome = how, !.fin = "flush"]
      BY <2>3, Settles
    <3>1. rt'.settled /\ rt'.fin = "flush" /\ rt'.outcome = how
      BY <1>10, <3>0 DEF RtType
    <3>2. rt.fin = "no" /\ rt.outcome = "none" /\ meta.status \notin Terminal
      BY <1>10, <2>3 DEF SettleInv
    <3> QED
      BY <1>10, <2>1, <2>3, <3>1, <3>2 DEF SettleInv, Chat
  <2> QED
    BY <2>2, <2>3
<1>11. ASSUME NEW how \in Terminal, RunEnds(how),
              rt.ending /\ ~rt.aborted /\ ~rt.settled => how = "done",
              UNCHANGED <<mode, meta, call, servers, late>>, Q
       PROVE  SettleInv'
  <2>1. SettleOnce(rt, how) \in RtType
    BY <1>a, Settles
  <2>2. /\ rt'.settled = SettleOnce(rt, how).settled /\ rt'.fin = SettleOnce(rt, how).fin
        /\ rt'.outcome = SettleOnce(rt, how).outcome
        /\ rt'.started = SettleOnce(rt, how).started
        /\ rt'.aborted = SettleOnce(rt, how).aborted /\ rt'.ending = SettleOnce(rt, how).ending
    BY <1>11, <2>1 DEF RunEnds, RtType
  <2>3. /\ SettleOnce(rt, how).started = rt.started /\ SettleOnce(rt, how).aborted = rt.aborted
        /\ SettleOnce(rt, how).ending = rt.ending
    BY <1>a DEF SettleOnce, RtType
  <2>4. (call["end"] = "hook" => rt.ending) /\ (call["abort"] = "hook" => rt.aborted)
        /\ (rt.ending => Chat)
    BY DEF SettleInv
  <2> QED
    BY <1>10, <1>11, <1>a, <2>2, <2>3, <2>4
<1>12. CASE OnRunSettled
  <2>1. OutcomeOf(rt, run.threw) \in Terminal
    BY DEF OutcomeOf, Terminal, TypeInv
  <2>2. rt.ending /\ ~rt.aborted => OutcomeOf(rt, run.threw) = "done"
    BY DEF OutcomeOf, SettleInv, Chat
  <2> QED
    BY <1>11, <1>12, <1>q, <2>1, <2>2 DEF OnRunSettled
<1>13. CASE StartFails
  <2>1. ~rt.started
    BY <1>13, <1>b, <1>s DEF StartFails
  <2>2. (rt.ending => rt.settled) /\ "failed" \in Terminal
    BY <2>1 DEF SettleInv, Terminal
  <2> QED
    BY <1>11, <1>13, <1>t, <2>2 DEF StartFails
<1>14. CASE CommitTransit
  <2>1. CASE rt' = SettleOnce(rt, "done") /\ UNCHANGED patches
    <3>1. /\ SettleOnce(rt, "done").started = rt.started
          /\ SettleOnce(rt, "done").aborted = rt.aborted
          /\ SettleOnce(rt, "done").ending = rt.ending
          /\ "done" \in Terminal
      BY <1>a DEF SettleOnce, RtType, Terminal
    <3>2. (call["end"] = "hook" => rt.ending) /\ (call["abort"] = "hook" => rt.aborted)
          /\ (rt.ending => Chat)
      BY DEF SettleInv
    <3>3. UNCHANGED <<mode, meta, call, servers, late>>
      BY <1>14 DEF CommitTransit
    <3> QED
      BY <1>10, <1>a, <1>q, <2>1, <3>1, <3>2, <3>3
  <2>2. CASE UNCHANGED rt
    <3>1. patches' = patches \/ patches' = SetActivity("busy")
      BY <1>14, <2>2 DEF CommitTransit, SendPrompt, BeginTurn
    <3>2. UNCHANGED <<mode, rt, meta, call, servers, late>>
      BY <1>14, <2>2 DEF CommitTransit
    <3> QED
      BY <1>1, <3>1, <3>2, Activity
  <2> QED
    BY <1>14, <2>1, <2>2 DEF CommitTransit
<1>15. ASSUME NEW c \in {"end", "abort"}, Ask(c), c = "end" => Chat PROVE SettleInv'
  <2> DEFINE waits == rt.started /\ drv.reg /\ ~drv.shutting
             r == [rt EXCEPT !.signal = TRUE, !.ending = @ \/ c = "end",
                             !.aborted = @ \/ c = "abort"]
  <2>1. /\ rt' = IF waits THEN r ELSE Finish(r, c)
        /\ call' = [call EXCEPT ![c] = IF waits THEN "hook" ELSE "back"]
        /\ UNCHANGED <<mode, meta, patches, servers, late>>
        /\ ~rt.settled /\ (waits => rt.started)
    BY <1>15 DEF Ask
  <2>2. /\ r \in RtType /\ r.settled = rt.settled /\ r.fin = rt.fin /\ r.outcome = rt.outcome
        /\ r.started = rt.started /\ r.aborted = (rt.aborted \/ c = "abort")
        /\ r.ending = (rt.ending \/ c = "end")
    BY <1>a DEF RtType
  <2>3. call \in [{"end", "abort"} -> {"no", "hook", "back"}]
    BY DEF TypeInv
  <2>4. (call'["end"] = "hook" => r.ending) /\ (call'["abort"] = "hook" => r.aborted)
    <3>1. (call'["end"] = "hook" => call["end"] = "hook" \/ c = "end")
          /\ (call'["abort"] = "hook" => call["abort"] = "hook" \/ c = "abort")
      BY <2>1, <2>3
    <3> HIDE DEF r, waits
    <3> QED
      BY <2>2, <3>1 DEF SettleInv
  <2> HIDE DEF r, waits
  <2>5. CASE waits
    <3>1. rt' = r /\ rt.fin = "no" /\ rt.outcome = "none" /\ "none" \notin Terminal
          /\ r.fin = "no" /\ r.outcome = "none" /\ rt.started
      BY <2>1, <2>2, <2>5 DEF SettleInv, Terminal
    <3>2. r.ending => Chat /\ mode' = mode
      BY <1>15, <2>1, <2>2 DEF SettleInv
    <3>3. r.settled <=> r.fin # "no"
      BY <2>2 DEF SettleInv
    <3> QED
      BY <2>1, <2>2, <2>4, <3>1, <3>2, <3>3 DEF SettleInv, Chat
  <2>6. CASE ~waits
    <3> DEFINE how == IF c = "end" THEN "done" ELSE "aborted"
    <3>1. how \in Terminal /\ Finish(r, c) = SettleOnce(r, how) /\ (c = "end" => how = "done")
          /\ (c # "end" => c = "abort")
      BY DEF Terminal, Finish
    <3> HIDE DEF how
    <3>2. /\ SettleOnce(r, how).started = r.started /\ SettleOnce(r, how).aborted = r.aborted
          /\ SettleOnce(r, how).ending = r.ending
      BY <2>2, <3>1 DEF SettleOnce, RtType
    <3>3. r.ending => Chat
      BY <1>15, <2>2 DEF SettleInv
    <3>4. r.ending /\ ~r.aborted => how = "done"
      BY <2>2, <2>1, <3>1 
    <3>5. Q
      BY <1>q, <2>1
    <3> HIDE DEF Q
    <3> QED
      BY <1>10, <2>1, <2>2, <2>4, <2>6, <3>1, <3>2, <3>3, <3>4, <3>5
  <2> QED
    BY <2>5, <2>6
<1>16. ASSUME NEW c \in {"end", "abort"}, HookReturns(c) PROVE SettleInv'
  <2> DEFINE how == IF c = "end" THEN "done" ELSE "aborted"
  <2>1. how \in Terminal /\ Finish(rt, c) = SettleOnce(rt, how)
        /\ (call[c] = "hook" /\ how # "done" => rt.aborted)
    BY DEF Terminal, Finish, SettleInv
  <2>2. /\ call[c] = "hook" /\ rt' = Finish(rt, c) /\ call' = [call EXCEPT ![c] = "back"]
        /\ UNCHANGED <<mode, meta, patches, servers, late>>
    BY <1>16 DEF HookReturns
  <2> HIDE DEF how
  <2>3. /\ SettleOnce(rt, how).started = rt.started /\ SettleOnce(rt, how).aborted = rt.aborted
        /\ SettleOnce(rt, how).ending = rt.ending
    BY <1>a, <2>1 DEF SettleOnce, RtType
  <2>4. (call'["end"] = "hook" => rt.ending) /\ (call'["abort"] = "hook" => rt.aborted)
        /\ (rt.ending => Chat)
    BY <2>2 DEF SettleInv, TypeInv
  <2> QED
    BY <1>10, <1>a, <1>q, <2>1, <2>2, <2>3, <2>4
<1>17. CASE Finalize
  <2>1. /\ patches' = Append(patches, rt.outcome) /\ rt.fin = "flush" /\ rt.outcome \in Terminal
        /\ rt.outcome \in Patch
    BY <1>17, <1>a DEF Finalize, TypeInv, RtType, Patch
  <2>2. /\ rt'.fin = "patch" /\ rt'.outcome = rt.outcome /\ rt'.settled = rt.settled
        /\ rt'.started = rt.started /\ rt'.aborted = rt.aborted /\ rt'.ending = rt.ending
    BY <1>17, <1>a DEF Finalize, RtType
  <2>3. servers' = 0 /\ UNCHANGED <<mode, meta, call, late>>
    BY <1>17 DEF Finalize, CloseMcpServers
  <2>4. ASSUME NEW i \in 1..Len(patches')
        PROVE  /\ patches'[i] \in Terminal => i = Len(patches') /\ patches'[i] = rt.outcome
               /\ patches'[i] = "claim" => i = 1 /\ Chat /\ ~rt.started
    <3>1. CASE i \in 1..Len(patches)
      BY <1>a, <1>b, <2>1, <3>1 DEF SettleInv
    <3>2. CASE i = Len(patches) + 1
      BY <1>a, <1>b, <2>1, <3>2
    <3> QED
      BY <1>a, <1>b, <2>1, <3>1, <3>2
  <2> QED
    BY <2>1, <2>2, <2>3, <2>4 DEF SettleInv, Chat, Terminal
<1>18. CASE StoreApplies
  <2>1. /\ patches' = Tail(patches) /\ patches # <<>> /\ UNCHANGED <<mode, call, late>>
        /\ Q /\ \A i \in 1..Len(patches') : patches'[i] # "claim"
    BY <1>18, <1>t DEF StoreApplies
  <2> HIDE DEF Q
  <2>2. CASE /\ Head(patches) \in {"busy", "idle"}
             /\ meta' = [meta EXCEPT !.activity = Head(patches)]
             /\ UNCHANGED <<rt, servers, run, drv, claude>>
    <3>1. meta'.status = meta.status
      BY <2>2 DEF TypeInv
    <3> QED
      BY <2>1, <2>2, <3>1 DEF SettleInv, Chat, Q
  <2>3. CASE /\ Head(patches) \in Terminal
             /\ meta' = [meta EXCEPT !.status = Head(patches)]
             /\ rt' = [rt EXCEPT !.fin = "sealed"]
             /\ UNCHANGED <<servers, run, drv, claude>>
    <3>1. rt.fin = "patch" /\ Head(patches) = rt.outcome /\ Len(patches) = 1
      BY <1>a, <1>b, <1>s, <2>1, <2>3
    <3>2. Len(patches') = 0 /\ meta'.status = rt.outcome
      BY <1>a, <1>b, <2>1, <2>3, <3>1 DEF TypeInv
    <3>3. /\ rt'.fin = "sealed" /\ rt'.outcome = rt.outcome /\ rt'.settled = rt.settled
          /\ rt'.started = rt.started /\ rt'.aborted = rt.aborted /\ rt'.ending = rt.ending
      BY <2>3, <1>a DEF RtType
    <3>4. UNCHANGED <<mode, call, late, servers>>
      BY <2>1, <2>3
    <3> QED
      BY <3>1, <3>2, <3>3, <3>4 DEF SettleInv, Chat
  <2>4. CASE /\ Head(patches) = "claim"
             /\ meta' = [meta EXCEPT !.status = IF @ = "queued" THEN "running" ELSE @]
             /\ Claim
    <3>1. Chat /\ ~rt.started
      BY <1>a, <1>b, <2>1, <2>4 DEF SettleInv
    <3>2. meta'.status \in Terminal => meta'.status = meta.status
      BY <2>4 DEF TypeInv, Terminal
    <3>3. /\ rt'.fin = rt.fin /\ rt'.outcome = rt.outcome /\ rt'.settled = rt.settled
          /\ rt'.aborted = rt.aborted /\ rt'.ending = rt.ending
          /\ rt.started => rt'.started
          /\ servers' = 0 \/ ~rt.settled
      BY <2>4, <1>a DEF Claim, RtType, CloseMcpServers
    <3> QED
      BY <2>1, <3>1, <3>2, <3>3 DEF SettleInv, Chat, Q
  <2> QED
    BY <1>18, <2>2, <2>3, <2>4 DEF StoreApplies
<1>19. CASE Detach
  <2>1. /\ rt'.settled /\ rt'.fin = (IF rt.settled THEN rt.fin ELSE "detached")
        /\ rt'.outcome = rt.outcome
        /\ rt'.started = rt.started /\ rt'.aborted = rt.aborted /\ rt'.ending = rt.ending
    BY <1>19, <1>a DEF Detach, RtType
  <2>2. servers' = 0 /\ UNCHANGED <<mode, meta, patches, call, late>>
    BY <1>19 DEF Detach, CloseMcpServers
  <2> QED
    BY <2>1, <2>2 DEF SettleInv, Chat
<1>20. CASE RecoverProject
  <2>1. /\ rt'.settled /\ rt'.fin = "sealed" /\ rt'.outcome = (IF Live THEN "lost" ELSE rt.outcome)
        /\ rt'.started = rt.started /\ rt'.aborted = rt.aborted /\ rt'.ending = rt.ending
    BY <1>20, <1>a DEF RecoverProject, Gone, RtType
  <2>2. servers' = 0 /\ patches' = <<>> /\ UNCHANGED <<mode, call, late>>
    BY <1>20 DEF RecoverProject, Gone
  <2>3. ~Live => meta' = meta
    BY <1>20 DEF RecoverProject, TypeInv
  <2>4. "lost" \notin Terminal /\ "none" \notin Terminal
    BY DEF Terminal
  <2> QED
    BY <2>1, <2>2, <2>3, <2>4 DEF SettleInv, Chat
<1> QED
  BY <1>2, <1>3, <1>4, <1>5, <1>6, <1>7, <1>8, <1>9, <1>12, <1>13, <1>14, <1>15, <1>16, <1>17,
     <1>18, <1>19, <1>20
     DEF Next, Driver, Runtime, Agent, Claude, AbortCall, EndCall, Chat

(* BubbleInv is inductive.                                                  *)
LEMMA BubbleStep == TypeInv /\ BubbleInv /\ [Next]_vars => BubbleInv'
<1> SUFFICES ASSUME TypeInv, BubbleInv, [Next]_vars PROVE BubbleInv'
  OBVIOUS
<1> USE DEF sessVars, viewVars, cliVars
<1>a. /\ out \in Seq(Said) /\ Len(out) \in Nat /\ logged \in Nat /\ claude.block \in Nat
      /\ acc \in SUBSET Nat /\ bubble \in SUBSET Nat /\ part.held \in SUBSET Nat
      /\ \A i \in 1..Len(out) : out[i] \in Said
  BY LenProperties, ElementOfSeq, Parts DEF TypeInv
<1>b. NoPart.held = {}
  BY Parts
(* What leaves the lines alone leaves them ahead.                           *)
<1>1. ASSUME UNCHANGED <<acc, logged, bubble, out>>, claude'.block = claude.block,
             part' = part \/ part' = NoPart
      PROVE  BubbleInv'
  BY <1>1, <1>b DEF BubbleInv, Ahead
<1>2. CASE ReadLine
  <2> DEFINE line == Head(out)
  <2>1. /\ out # <<>> /\ out' = Tail(out) /\ UNCHANGED claude
        /\ line \in Said /\ line = out[1] /\ 1 \in 1..Len(out)
        /\ Len(out') = Len(out) - 1 /\ \A i \in 1..(Len(out) - 1) : out'[i] = out[i + 1]
    BY <1>2, <1>a, SeqOps DEF ReadLine
  <2>2. \A n \in 1..(Len(out) - 1) :
           n + 1 \in 1..Len(out) /\ 1 < n + 1 /\ \A m \in 1..(Len(out) - 1) : m < n => m + 1 < n + 1
    BY <1>a
  <2>3. /\ \A i \in 1..Len(out') : out'[i].kind = "assistant" => out'[i].block <= claude.block
        /\ \A i \in 1..Len(out') : out'[i].kind = "delta" => out'[i].block > logged
        /\ \A i, j \in 1..Len(out') :
              j < i /\ out'[i].kind = "delta" /\ out'[j].kind = "assistant" =>
                  out'[j].block < out'[i].block
        /\ line.kind = "assistant" =>
              \A i \in 1..Len(out') : out'[i].kind = "delta" => line.block < out'[i].block
    BY <2>1, <2>2 DEF BubbleInv
  <2>4. \/ line.kind = "delta" /\ OnStreamEvent(line.block)
        \/ line.kind = "assistant" /\ OnAssistant(line)
        \/ line.kind = "result" /\ OnResult
    <3>1. line.kind \in {"delta", "assistant", "result"}
      BY <2>1 DEF Said
    <3> QED
      BY <1>2, <3>1 DEF ReadLine
  <2>5. line.block \in Nat /\ (line.kind = "delta" => line.block > logged)
        /\ (line.kind = "assistant" => line.block <= claude.block)
    BY <2>1 DEF Said, BubbleInv
  <2> HIDE DEF line
  <2>6. CASE line.kind = "delta" /\ OnStreamEvent(line.block)
    <3> DEFINE S == acc \cup {line.block}
    <3>1. S \in SUBSET Nat /\ Push(S) /\ acc' = S /\ logged' = logged /\ Ahead(S, logged)
      BY <2>5, <2>6, <1>a DEF OnStreamEvent, Accumulate, Push, BubbleInv, Ahead
    <3> HIDE DEF S
    <3>2. part'.held \in {{}, S} /\ bubble' \in {bubble, S}
      BY <3>1, Pushed
    <3> QED
      BY <2>1, <2>3, <3>1, <3>2 DEF BubbleInv, Ahead
  <2>7. CASE line.kind = "assistant" /\ OnAssistant(line)
    BY <2>1, <2>3, <2>5, <2>7, <1>b DEF OnAssistant, Stopped, BubbleInv, Ahead
  <2>8. CASE line.kind = "result" /\ OnResult
    BY <2>1, <2>3, <2>8, <1>b DEF OnResult, Stopped, BubbleInv, Ahead
  <2> QED
    BY <2>4, <2>6, <2>7, <2>8
<1>3. CASE PartialTimer
  <2>1. /\ UNCHANGED <<acc, logged, out, claude>>
        /\ part'.held = {} /\ bubble' \in {bubble, part.held}
    BY <1>3, <1>b DEF PartialTimer, Stopped
  <2> QED
    BY <2>1 DEF BubbleInv, Ahead
<1>4. ASSUME NEW l \in Said, Says(l), UNCHANGED <<acc, logged, bubble, part>>,
             claude'.block \in Nat, claude.block <= claude'.block,
             l.kind = "assistant" => l.block <= claude'.block,
             l.kind = "delta" => l.block > claude.block
      PROVE  BubbleInv'
  <2>1. /\ Len(out') = Len(out) + 1 /\ out'[Len(out) + 1] = l
        /\ \A i \in 1..Len(out) : out'[i] = out[i] /\ i < Len(out) + 1
    BY <1>4, <1>a, SeqOps DEF Says
  <2>2. \A i \in 1..Len(out') : i \in 1..Len(out) \/ i = Len(out) + 1
    BY <1>a, <2>1
  <2>3. \A i \in 1..Len(out) : out[i].block \in Nat
    BY <1>a DEF Said
  <2>4. l.block \in Nat
    BY DEF Said
  <2>5. \A i \in 1..Len(out') : out'[i].kind = "assistant" => out'[i].block <= claude'.block
    BY <1>4, <1>a, <2>1, <2>2, <2>3, <2>4 DEF BubbleInv
  <2>6. \A i \in 1..Len(out') : out'[i].kind = "delta" => out'[i].block > logged
    BY <1>4, <1>a, <2>1, <2>2, <2>3, <2>4 DEF BubbleInv
  <2>7. ASSUME NEW i \in 1..Len(out'), NEW j \in 1..Len(out'), j < i,
               out'[i].kind = "delta", out'[j].kind = "assistant"
        PROVE  out'[j].block < out'[i].block
    <3>1. j \in 1..Len(out)
      BY <1>a, <2>1, <2>7
    <3>2. CASE i \in 1..Len(out)
      BY <2>1, <2>7, <3>1, <3>2 DEF BubbleInv
    <3>3. CASE i = Len(out) + 1
      <4>1. out[j].block <= claude.block /\ l.block > claude.block
        BY <1>4, <2>1, <2>7, <3>1, <3>3 DEF BubbleInv
      <4> QED
        BY <1>a, <2>1, <2>3, <2>4, <3>1, <3>3, <4>1
    <3> QED
      BY <2>2, <3>2, <3>3
  <2>8. logged <= claude'.block
    BY <1>4, <1>a DEF BubbleInv
  <2> QED
    BY <1>4, <2>5, <2>6, <2>7, <2>8 DEF BubbleInv, Ahead
<1>5. \A k \in {"delta", "assistant", "result"}, b \in Nat, t \in BOOLEAN :
         Line(k, b, t) \in Said /\ Line(k, b, t).kind = k /\ Line(k, b, t).block = b
  BY DEF Line, Said
<1>r. /\ Line("result", 0, FALSE) \in Said /\ Line("result", 0, FALSE).kind = "result"
      /\ claude.block <= claude.block
  BY <1>a DEF Line, Said
<1>6. CASE ClaudeReads
  <2>1. UNCHANGED <<acc, logged, bubble, part>> /\ claude'.block = claude.block
    BY <1>6 DEF ClaudeReads, CliOnly, TypeInv
  <2>2. CASE UNCHANGED out
    BY <2>1, <2>2, <1>1
  <2>3. CASE Says(Line("result", 0, FALSE))
    BY <2>1, <2>3, <1>4, <1>r, <1>a
  <2> QED
    BY <1>6, <2>2, <2>3 DEF ClaudeReads
<1>7. CASE ClaudeStreams
  <2> DEFINE l == Line("delta", claude.block + 1, FALSE)
  <2>1. /\ l \in Said /\ l.kind = "delta" /\ l.block > claude.block
        /\ claude.block <= claude.block
    BY <1>a DEF Line, Said
  <2>2. Says(l) /\ UNCHANGED <<acc, logged, bubble, part, claude>>
    BY <1>7 DEF ClaudeStreams, CliOnly
  <2> HIDE DEF l
  <2> QED
    BY <2>1, <2>2, <1>4, <1>a
<1>8. CASE ClaudeSpeaks
  <2>1. claude'.block = claude.block + 1 /\ claude.block + 1 \in Nat
        /\ UNCHANGED <<acc, logged, bubble, part>>
    BY <1>8, <1>a DEF ClaudeSpeaks, CliOnly, TypeInv
  <2> QED
    BY <1>8, <2>1, <1>4, <1>5, <1>a DEF ClaudeSpeaks
<1>9. CASE ClaudeEndsTurn
  <2>1. claude'.block = claude.block /\ UNCHANGED <<acc, logged, bubble, part>>
    BY <1>9 DEF ClaudeEndsTurn, CliOnly, TypeInv
  <2> QED
    BY <1>9, <2>1, <1>4, <1>r, <1>a DEF ClaudeEndsTurn
<1>10. ASSUME NEW pc, Register(pc) PROVE claude'.block = claude.block
  BY <1>10 DEF Register, TypeInv
<1>11. ASSUME NEW d, Signal(d) PROVE claude'.block = claude.block /\ part' = NoPart
  BY <1>11 DEF Signal, Stopped, TypeInv
<1>12. CASE StoreApplies
  <2>1. claude'.block = claude.block /\ UNCHANGED <<acc, logged, bubble, out, part>>
    BY <1>12, <1>10 DEF StoreApplies, Claim
  <2> QED
    BY <2>1, <1>1
<1>13. CASE Workspace
  BY <1>13, <1>1, <1>10 DEF Workspace
<1>14. CASE AbortCall \/ EndCall
  <2>1. PICK c \in {"end", "abort"} : Ask(c)
    BY <1>14 DEF AbortCall, EndCall
  <2>2. claude'.block = claude.block /\ part' = NoPart
    BY <2>1, <1>11 DEF Ask
  <2> QED
    BY <2>1, <2>2, <1>1 DEF Ask
<1>15. CASE Detach
  BY <1>15, <1>1, <1>11 DEF Detach
<1>16. CASE RecoverProject
  <2>1. out' = <<>> /\ claude'.block = claude.block /\ UNCHANGED <<acc, logged, bubble, part>>
    BY <1>16 DEF RecoverProject, Gone, TypeInv
  <2> QED
    BY <2>1 DEF BubbleInv, Ahead
<1>17. CASE Exited \/ ClaudeDies \/ Closed
  <2>1. claude'.block = claude.block
    BY <1>17 DEF Exited, ClaudeDies, Closed, TypeInv
  <2> QED
    BY <1>17, <2>1, <1>1 DEF Exited, ClaudeDies, Closed, Stopped, CliOnly
<1>18. CASE Finalize \/ OnRunSettled \/ RunOver \/ InputHook \/ StartFails
            \/ (\E c \in {"end", "abort"} : HookReturns(c))
            \/ (\E kind \in {"steer", "followup"} : InputCall(kind))
  BY <1>18, <1>1 DEF Finalize, OnRunSettled, RunOver, InputHook, StartFails, HookReturns,
     InputCall, SessionInput
<1>19. CASE Seeded \/ WaitForTurnEnd \/ TurnEnd \/ CommitTransit \/ Committed \/ ChatWakes
            \/ Finally \/ UNCHANGED vars
  BY <1>19, <1>1 DEF Seeded, WaitForTurnEnd, TurnEnd, CommitTransit, Committed, ChatWakes,
     Finally, RunOnly, vars
<1> QED
  BY <1>2, <1>3, <1>6, <1>7, <1>8, <1>9, <1>12, <1>13, <1>14, <1>15, <1>16, <1>17, <1>18, <1>19
     DEF Next, Driver, Runtime, Agent, Claude

(* Idle asked for last is the activity once the queue has drained.          *)
LEMMA IdleOps ==
    ASSUME NEW q \in Seq(Patch), NEW a
    PROVE  /\ GoesIdle(Append(q, "idle"), a)
           /\ q # <<>> /\ GoesIdle(q, a) =>
                  GoesIdle(Tail(q), IF Head(q) \in {"busy", "idle"} THEN Head(q) ELSE a)
<1>1. /\ Len(q) \in Nat /\ Len(Append(q, "idle")) = Len(q) + 1
      /\ Append(q, "idle")[Len(q) + 1] = "idle"
  BY SeqOps DEF Patch
<1>2. GoesIdle(Append(q, "idle"), a)
  <2>1. Len(q) + 1 \in 1..(Len(q) + 1) /\ \A k \in (Len(q) + 1 + 1)..(Len(q) + 1) : FALSE
    BY <1>1
  <2> QED
    BY <1>1, <2>1 DEF GoesIdle
<1>3. ASSUME q # <<>>, GoesIdle(q, a)
      PROVE  GoesIdle(Tail(q), IF Head(q) \in {"busy", "idle"} THEN Head(q) ELSE a)
  <2>1. /\ Head(q) = q[1] /\ Len(q) > 0 /\ Len(Tail(q)) = Len(q) - 1
        /\ \A i \in 1..(Len(q) - 1) : Tail(q)[i] = q[i + 1]
    BY <1>3, SeqOps
  <2>2. ASSUME NEW i \in 1..Len(q), q[i] = "idle", \A k \in (i + 1)..Len(q) : q[k] # "busy"
        PROVE  GoesIdle(Tail(q), IF Head(q) \in {"busy", "idle"} THEN Head(q) ELSE a)
    <3>1. CASE i = 1
      <4>1. \A k \in 1..(Len(q) - 1) : Tail(q)[k] # "busy"
        <5>1. \A k \in 1..(Len(q) - 1) : k + 1 \in 2..Len(q)
          BY <1>1
        <5> QED
          BY <2>1, <2>2, <3>1, <5>1
      <4>2. Head(q) = "idle"
        BY <2>1, <2>2, <3>1
      <4> QED
        BY <2>1, <4>1, <4>2 DEF GoesIdle
    <3>2. CASE i # 1
      <4>1. i - 1 \in 1..Len(Tail(q)) /\ (i - 1) + 1 = i
        BY <1>1, <2>1, <3>2
      <4>2. Tail(q)[i - 1] = "idle"
        BY <2>1, <2>2, <4>1
      <4>3. \A k \in ((i - 1) + 1)..Len(Tail(q)) : Tail(q)[k] # "busy"
        <5>1. \A k \in i..(Len(q) - 1) : k + 1 \in (i + 1)..Len(q) /\ k \in 1..(Len(q) - 1)
          BY <1>1
        <5> QED
          BY <2>1, <2>2, <4>1, <5>1
      <4> QED
        BY <4>1, <4>2, <4>3 DEF GoesIdle
    <3> QED
      BY <3>1, <3>2
  <2>3. ASSUME a = "idle", \A k \in 1..Len(q) : q[k] # "busy"
        PROVE  GoesIdle(Tail(q), IF Head(q) \in {"busy", "idle"} THEN Head(q) ELSE a)
    <3>1. \A k \in 1..(Len(q) - 1) : k + 1 \in 1..Len(q)
      BY <1>1
    <3>2. Head(q) # "busy" /\ \A k \in 1..Len(Tail(q)) : Tail(q)[k] # "busy"
      BY <1>1, <2>1, <2>3, <3>1
    <3> QED
      BY <2>3, <3>2 DEF GoesIdle
  <2> QED
    BY <1>3, <2>2, <2>3 DEF GoesIdle
<1> QED
  BY <1>2, <1>3

(* A session's mode is its agent's for good.                                *)
LEMMA ModeStays == [Next]_vars => mode' = mode
<1> USE DEF CliOnly, RunOnly
<1>1. Driver \/ Runtime => mode' = mode
  BY DEF Driver, Runtime, ReadLine, PartialTimer, Exited, Finalize, OnRunSettled, RunOver,
     StoreApplies, InputHook, HookReturns
<1>2. Agent \/ Claude => mode' = mode
  BY DEF Agent, Claude, Workspace, Seeded, WaitForTurnEnd, TurnEnd, CommitTransit, Committed,
     ChatWakes, Finally, Closed, ClaudeReads, ClaudeEndsTurn
<1>3. StartFails \/ Detach \/ RecoverProject \/ ClaudeStreams \/ ClaudeSpeaks \/ ClaudeDies
          \/ AbortCall \/ EndCall => mode' = mode
  BY DEF StartFails, Detach, RecoverProject, Gone, ClaudeStreams, ClaudeSpeaks, ClaudeDies,
     AbortCall, EndCall, Ask
<1>4. (\E kind \in {"steer", "followup"} : InputCall(kind)) \/ UNCHANGED vars => mode' = mode
  BY DEF InputCall, SessionInput, vars
<1> QED
  BY <1>1, <1>2, <1>3, <1>4 DEF Next

(* ChatInv is inductive beside SettleInv: only a chat that has not settled  *)
(* still has its activity patched.                                          *)
LEMMA ChatStep == TypeInv /\ SettleInv /\ SettleInv' /\ ChatInv /\ [Next]_vars => ChatInv'
<1> SUFFICES ASSUME TypeInv, SettleInv, SettleInv', ChatInv, [Next]_vars, Chat PROVE ChatInv'
  BY ModeStays DEF ChatInv, Chat
<1> USE DEF sessVars, viewVars, cliVars
<1>a. /\ rt \in RtType /\ drv \in DrvType /\ run \in RunType /\ patches \in Seq(Patch)
      /\ out \in Seq(Said) /\ Len(out) \in Nat /\ cmds \in Seq({"message", "interrupt"})
      /\ Len(cmds) \in Nat /\ Chat /\ mode = "chat"
  BY LenProperties DEF TypeInv, Chat
<1>b. /\ run.pc \in {"claim", "chat", "finally", "closing", "back", "settling", "over"}
      /\ drv.reg => drv.made
      /\ drv.made => rt.started
      /\ ~drv.made => ~drv.streaming /\ claude.phase \in {"none", "dead"}
      /\ ~rt.settled /\ drv.streaming => Bound \/ Resulting
      /\ ~rt.settled /\ ~drv.streaming => GoesIdle(patches, meta.activity)
  BY <1>a DEF ChatInv
<1>c. ASSUME /\ run'.pc \in {"claim", "chat", "finally", "closing", "back", "settling", "over"}
             /\ drv'.reg => drv'.made
             /\ drv'.made => rt'.started
             /\ ~drv'.made => ~drv'.streaming /\ claude'.phase \in {"none", "dead"}
             /\ ~rt'.settled /\ drv'.streaming => Bound' \/ Resulting'
             /\ ~rt'.settled /\ ~drv'.streaming => GoesIdle(patches', meta'.activity)
      PROVE  ChatInv'
  BY <1>c DEF ChatInv
<1> USE DEF Emit
<1>1. CASE ReadLine
  <2> DEFINE line == Head(out)
  <2>1. /\ out # <<>> /\ out' = Tail(out) /\ UNCHANGED <<rt, meta, run, claude, cmds>>
        /\ line \in Said /\ line = out[1]
        /\ Len(out') = Len(out) - 1 /\ \A i \in 1..(Len(out) - 1) : out'[i] = out[i + 1]
    BY <1>1, <1>a, SeqOps DEF ReadLine
  <2>2. Bound' <=> Bound
    BY <2>1 DEF Bound
  <2>3. \/ /\ drv'.streaming = drv.streaming /\ drv'.made = drv.made /\ drv'.reg = drv.reg
           /\ UNCHANGED patches /\ line.kind # "result"
        \/ OnResult
    <3>1. line.kind \in {"delta", "assistant", "result"}
      BY <2>1 DEF Said
    <3> QED
      BY <1>1, <1>a, <3>1 DEF ReadLine, OnStreamEvent, OnAssistant, DrvType
  <2>4. CASE /\ drv'.streaming = drv.streaming /\ drv'.made = drv.made /\ drv'.reg = drv.reg
             /\ UNCHANGED patches /\ line.kind # "result"
    <3>1. Resulting => Resulting'
      <4> SUFFICES ASSUME NEW i \in 1..Len(out), out[i].kind = "result" PROVE Resulting'
        BY DEF Resulting
      <4>1. i # 1 /\ i - 1 \in 1..Len(out') /\ (i - 1) + 1 = i
        BY <1>a, <2>1, <2>4
      <4>2. out'[i - 1].kind = "result"
        BY <2>1, <4>1
      <4> QED
        BY <4>1, <4>2 DEF Resulting
    <3> HIDE DEF line
    <3> QED
      BY <1>b, <1>c, <2>1, <2>2, <2>4, <3>1
  <2>5. CASE OnResult
    <3>1. ~drv'.streaming /\ drv'.made = drv.made /\ drv'.reg = drv.reg
      BY <2>5, <1>a DEF OnResult, DrvType
    <3>2. ~rt.settled => GoesIdle(patches', meta.activity)
      <4>1. CASE rt.started
        BY <2>5, <4>1, <1>a, Activity, IdleOps DEF OnResult
      <4>2. CASE ~rt.started
        BY <2>5, <4>2, <1>a, <1>b, Activity DEF OnResult
      <4> QED
        BY <4>1, <4>2
    <3> HIDE DEF line
    <3> QED
      BY <1>b, <1>c, <2>1, <3>1, <3>2
  <2> QED
    BY <2>3, <2>4, <2>5
(* What touches neither the turn nor the queues.                            *)
<1>2. ASSUME UNCHANGED <<patches, meta, cmds, out>>, drv'.streaming = drv.streaming,
             drv'.made = drv.made, drv'.reg => drv.reg,
             rt'.started = rt.started, rt.settled => rt'.settled,
             run'.pc \in {"claim", "chat", "finally", "closing", "back", "settling", "over"},
             claude'.phase \in {claude.phase, "dead"}
      PROVE  ChatInv'
  <2>1. (Bound => Bound') /\ (Resulting => Resulting')
    BY <1>2 DEF Bound, Resulting
  <2> QED
    BY <1>2, <1>b, <1>c, <2>1
<1>3. CASE PartialTimer \/ Exited \/ RunOver \/ WaitForTurnEnd \/ Committed \/ ChatWakes \/ Finally
           \/ Closed \/ ClaudeDies \/ UNCHANGED vars
           \/ \E kind \in {"steer", "followup"} : InputCall(kind)
  <2>1. UNCHANGED <<patches, meta, cmds, out>> /\ rt'.started = rt.started
        /\ rt'.settled = rt.settled
    BY <1>3, <1>a DEF PartialTimer, Exited, RunOver, WaitForTurnEnd, Committed, ChatWakes,
       Finally, Closed, ClaudeDies, CliOnly, RunOnly, InputCall, SessionInput, vars, RtType
  <2>2. /\ drv'.streaming = drv.streaming /\ drv'.made = drv.made /\ (drv'.reg => drv.reg)
    BY <1>3, <1>a DEF PartialTimer, Exited, RunOver, WaitForTurnEnd, Committed, ChatWakes,
       Finally, Closed, ClaudeDies, CliOnly, RunOnly, InputCall, SessionInput, vars, DrvType
  <2>3. /\ run'.pc \in {"claim", "chat", "finally", "closing", "back", "settling", "over"}
    BY <1>3, <1>a, <1>b DEF PartialTimer, Exited, RunOver, WaitForTurnEnd, Committed, ChatWakes,
       Finally, Closed, ClaudeDies, CliOnly, RunOnly, InputCall, SessionInput, vars, RunType, Goto
  <2>4. claude'.phase \in {claude.phase, "dead"}
    BY <1>3, <1>a DEF PartialTimer, Exited, RunOver, WaitForTurnEnd, Committed, ChatWakes,
       Finally, Closed, ClaudeDies, CliOnly, RunOnly, InputCall, SessionInput, vars, TypeInv
  <2> QED
    BY <2>1, <2>2, <2>3, <2>4, <1>2
(* Once it has settled there is nothing left to say of its activity.        *)
<1>4. ASSUME rt'.settled, UNCHANGED drv, rt'.started = rt.started,
             run'.pc \in {"claim", "chat", "finally", "closing", "back", "settling", "over"},
             claude'.phase \in {claude.phase, "dead"}
      PROVE  ChatInv'
  BY <1>4, <1>b, <1>c
<1>5. \A how \in Terminal : SettleOnce(rt, how).settled /\ SettleOnce(rt, how).started = rt.started
  BY <1>a DEF SettleOnce, RtType
<1>6. ASSUME NEW how \in Terminal, RunEnds(how), UNCHANGED <<drv, claude>> PROVE ChatInv'
  <2>1. SettleOnce(rt, how) \in RtType
    BY <1>a, Settles
  <2>2. rt'.settled /\ rt'.started = rt.started /\ run'.pc \in {"over", "settling"}
    BY <1>6, <1>a, <1>5, <2>1 DEF RunEnds, RtType, RunType
  <2> QED
    BY <1>4, <1>6, <2>2
<1>7. CASE OnRunSettled
  <2>1. OutcomeOf(rt, run.threw) \in Terminal
    BY DEF OutcomeOf, Terminal, TypeInv
  <2> QED
    BY <1>6, <1>7, <2>1 DEF OnRunSettled
<1>8. CASE StartFails
  BY <1>6, <1>8 DEF StartFails, Terminal
<1>9. CASE Finalize
  <2>1. rt'.settled /\ rt'.started = rt.started /\ UNCHANGED <<drv, run, claude>>
    BY <1>9, <1>a DEF Finalize, SettleInv, RtType
  <2> QED
    BY <2>1, <1>4, <1>b
<1>10. ASSUME NEW c \in {"end", "abort"}, HookReturns(c) PROVE ChatInv'
  <2>1. rt'.settled /\ rt'.started = rt.started /\ UNCHANGED <<drv, run, claude>>
    BY <1>10, <1>5 DEF HookReturns, Finish, Terminal
  <2> QED
    BY <2>1, <1>4, <1>b
<1>11. CASE RecoverProject
  <2>1. rt'.settled /\ rt'.started = rt.started /\ UNCHANGED drv /\ run'.pc = "over"
        /\ claude'.phase = "dead"
    BY <1>11, <1>a DEF RecoverProject, Gone, RtType, RunType, TypeInv
  <2> QED
    BY <2>1, <1>4
<1>12. CASE Detach
  <2>1. rt'.settled /\ rt'.started = rt.started /\ UNCHANGED <<drv, run>>
        /\ claude'.phase \in {claude.phase, "dead"}
    BY <1>12, <1>a DEF Detach, Signal, RtType, TypeInv
  <2> QED
    BY <2>1, <1>4, <1>b
<1>13. CASE AbortCall \/ EndCall
  <2>1. PICK c \in {"end", "abort"} : Ask(c)
    BY <1>13 DEF AbortCall, EndCall
  <2> DEFINE waits == rt.started /\ drv.reg /\ ~drv.shutting
             r == [rt EXCEPT !.signal = TRUE, !.ending = @ \/ c = "end",
                             !.aborted = @ \/ c = "abort"]
             d == [drv EXCEPT !.shutting = @ \/ waits]
  <2>2. /\ rt' = IF waits THEN r ELSE Finish(r, c)
        /\ Signal(d) /\ ~rt.settled
        /\ UNCHANGED <<meta, patches, run, cmds, out>>
    BY <2>1 DEF Ask
  <2>3. /\ d.streaming = drv.streaming /\ d.made = drv.made /\ d.reg = drv.reg
        /\ r \in RtType /\ r.started = rt.started /\ r.settled = rt.settled
    BY <1>a DEF DrvType, RtType
  <2> HIDE DEF r, d, waits
  <2>4. rt'.started = rt.started
    BY <2>2, <2>3 DEF Finish, SettleOnce, RtType
  <2>5. /\ drv'.streaming = drv.streaming /\ drv'.made = drv.made /\ drv'.reg = drv.reg
        /\ claude'.phase \in {claude.phase, "dead"}
    BY <2>2, <2>3, <1>a DEF Signal, TypeInv
  <2> QED
    BY <2>2, <2>4, <2>5, <1>2, <1>b
<1>14. CASE StoreApplies
  <2>1. /\ patches # <<>> /\ patches' = Tail(patches) /\ UNCHANGED <<cmds, out>>
        /\ Head(patches) = patches[1] /\ 1 \in 1..Len(patches)
    BY <1>14, <1>a, SeqOps DEF StoreApplies
  <2>2. CASE /\ Head(patches) \in {"busy", "idle"}
             /\ meta' = [meta EXCEPT !.activity = Head(patches)]
             /\ UNCHANGED <<rt, servers, run, drv, claude>>
    <3>1. meta'.activity = Head(patches)
      BY <2>2 DEF TypeInv
    <3>2. GoesIdle(patches, meta.activity) => GoesIdle(patches', meta'.activity)
      BY <2>1, <2>2, <3>1, <1>a, IdleOps
    <3>3. (Bound' <=> Bound) /\ (Resulting' <=> Resulting)
      BY <2>1, <2>2 DEF Bound, Resulting
    <3> QED
      BY <2>2, <3>2, <3>3, <1>b, <1>c
  <2>3. CASE /\ Head(patches) \in Terminal
             /\ meta' = [meta EXCEPT !.status = Head(patches)]
             /\ rt' = [rt EXCEPT !.fin = "sealed"]
             /\ UNCHANGED <<servers, run, drv, claude>>
    <3>1. rt'.settled /\ rt'.started = rt.started
      BY <2>1, <2>3, <1>a DEF SettleInv, RtType
    <3> QED
      BY <2>3, <3>1, <1>4, <1>b
  <2>4. CASE /\ Head(patches) = "claim"
             /\ meta' = [meta EXCEPT !.status = IF @ = "queued" THEN "running" ELSE @]
             /\ Claim
    <3>1. ~rt.started /\ ~drv.made /\ ~drv.streaming /\ ~drv.reg
      BY <2>1, <2>4, <1>b DEF SettleInv
    <3>2. ~rt.settled => GoesIdle(patches', meta'.activity)
      <4>1. meta'.activity = meta.activity
        BY <2>4 DEF TypeInv
      <4> QED
        BY <2>1, <2>4, <4>1, <3>1, <1>a, <1>b, IdleOps
    <3>3. CASE meta.status = "queued" /\ ~rt.settled
      <4>1. rt'.started /\ Register("chat")
        BY <2>4, <3>3, <1>a DEF Claim, RtType
      <4>2. CASE /\ drv' = [drv EXCEPT !.reg = TRUE, !.made = TRUE]
                 /\ run' = [run EXCEPT !.pc = "chat"]
        <5>1. drv'.made /\ ~drv'.streaming /\ run'.pc = "chat"
          BY <4>2, <3>1, <1>a DEF DrvType, RunType
        <5>2. ~rt'.settled => ~rt.settled
          BY <3>3
        <5> QED
          BY <4>1, <3>2, <5>1, <5>2, <1>c
      <4>3. CASE /\ run' = [run EXCEPT !.pc = "back", !.threw = TRUE]
                 /\ UNCHANGED <<drv, claude>>
        <5>1. run'.pc = "back"
          BY <4>3, <1>a DEF RunType
        <5>2. ~rt'.settled => ~rt.settled
          BY <3>3
        <5> QED
          BY <4>1, <4>3, <3>1, <3>2, <5>1, <5>2, <1>b, <1>c
      <4> QED
        BY <4>1, <4>2, <4>3, <1>a DEF Register
    <3>4. CASE ~(meta.status = "queued" /\ ~rt.settled)
      <4>1. rt'.settled = rt.settled /\ run'.pc = "over" /\ UNCHANGED <<drv, claude>>
        BY <2>4, <3>4, <1>a DEF Claim, RtType, RunType
      <4> QED
        BY <4>1, <3>1, <3>2, <1>b, <1>c
    <3> QED
      BY <3>3, <3>4
  <2> QED
    BY <1>14, <2>2, <2>3, <2>4 DEF StoreApplies
<1>15. CASE InputHook
  <2>1. UNCHANGED <<rt, meta, run, claude, out>>
    BY <1>15 DEF InputHook
  <2>2. CASE UNCHANGED <<drv, patches, cmds>>
    BY <2>1, <2>2, <1>2, <1>b
  <2>3. CASE drv.reg /\ drv.streaming /\ UNCHANGED <<drv, patches>>
             /\ \E m \in {Message, Interrupt \o Message} : Write(m)
    <3>1. PICK m \in {Message, Interrupt \o Message} : Write(m)
      BY <2>3
    <3>2. Bound => Bound'
      BY <2>1, <3>1, Wrote DEF Bound
    <3>3. Resulting => Resulting'
      BY <2>1 DEF Resulting
    <3> QED
      BY <2>1, <2>3, <3>2, <3>3, <1>b, <1>c
  <2>4. CASE drv.reg /\ BeginTurn(drv) /\ Write(Message)
    <3>1. Message # Interrupt
      BY DEF Message, Interrupt
    <3>2. Bound'
      BY <2>4, <3>1, Wrote DEF Bound
    <3>3. drv'.streaming /\ drv'.made = drv.made /\ drv'.reg = drv.reg
      BY <2>4, <1>a, Began
    <3> QED
      BY <2>1, <2>4, <3>2, <3>3, <1>b, <1>c
  <2> QED
    BY <1>15, <2>2, <2>3, <2>4 DEF InputHook, ForwardInput
<1>16. Workspace \/ Seeded \/ TurnEnd \/ CommitTransit => FALSE
  BY <1>b DEF Workspace, Seeded, TurnEnd, CommitTransit
<1>17. ASSUME NEW l \in Said, Says(l)
       PROVE  (Resulting => Resulting') /\ (l.kind = "result" => Resulting')
  <2>1. /\ Len(out') = Len(out) + 1 /\ out'[Len(out) + 1] = l
        /\ \A i \in 1..Len(out) : out'[i] = out[i]
    BY <1>17, <1>a, SeqOps DEF Says
  <2>2. Len(out) + 1 \in 1..Len(out') /\ \A i \in 1..Len(out) : i \in 1..Len(out')
    BY <1>a, <2>1
  <2> QED
    BY <2>1, <2>2 DEF Resulting
<1>18. CASE ClaudeReads \/ ClaudeStreams \/ ClaudeSpeaks \/ ClaudeEndsTurn
  <2>1. UNCHANGED <<rt, meta, patches, run, drv>>
    BY <1>18 DEF ClaudeReads, ClaudeStreams, ClaudeSpeaks, ClaudeEndsTurn, CliOnly
  <2>2. drv.made
    BY <1>18, <1>b DEF ClaudeReads, ClaudeStreams, ClaudeSpeaks, ClaudeEndsTurn
  <2>3. \A k \in {"delta", "assistant", "result"}, b \in Nat, t \in BOOLEAN :
           Line(k, b, t) \in Said /\ Line(k, b, t).kind = k
    BY DEF Line, Said
  <2>4. claude.block + 1 \in Nat /\ Line("result", 0, FALSE) \in Said
        /\ Line("result", 0, FALSE).kind = "result"
    BY DEF TypeInv, Line, Said
  <2>5. Bound \/ Resulting => Bound' \/ Resulting'
    <3>1. CASE ClaudeStreams
      <4>1. claude'.phase = "turn"
        BY <3>1 DEF ClaudeStreams
      <4> QED
        BY <4>1 DEF Bound
    <3>2. CASE ClaudeSpeaks
      <4>1. claude'.phase = "turn"
        BY <3>2 DEF ClaudeSpeaks, TypeInv
      <4> QED
        BY <4>1 DEF Bound
    <3>3. CASE ClaudeEndsTurn
      BY <3>3, <2>4, <1>17 DEF ClaudeEndsTurn
    <3>4. CASE ClaudeReads
      <4>1. /\ cmds # <<>> /\ cmds' = Tail(cmds) /\ Head(cmds) = cmds[1]
            /\ Len(cmds') = Len(cmds) - 1 /\ \A i \in 1..(Len(cmds) - 1) : cmds'[i] = cmds[i + 1]
        BY <3>4, <1>a, SeqOps DEF ClaudeReads
      <4>2. CASE Head(cmds) = "message"
        <5>1. claude'.phase = "turn"
          BY <3>4, <4>2 DEF ClaudeReads, TypeInv
        <5> QED
          BY <5>1 DEF Bound
      <4>3. CASE Head(cmds) # "message" /\ claude.phase = "idle"
        <5>1. Resulting => Resulting'
          BY <3>4, <4>3 DEF ClaudeReads, Resulting
        <5>2. Bound => Bound'
          <6> SUFFICES ASSUME NEW i \in 1..Len(cmds), cmds[i] = "message" PROVE Bound'
            BY <4>3 DEF Bound
          <6>1. i # 1 /\ i - 1 \in 1..Len(cmds') /\ (i - 1) + 1 = i
            BY <1>a, <4>1, <4>3
          <6>2. cmds'[i - 1] = "message"
            BY <4>1, <6>1
          <6> QED
            BY <6>1, <6>2 DEF Bound
        <5> QED
          BY <5>1, <5>2
      <4>4. CASE Head(cmds) # "message" /\ claude.phase # "idle"
        BY <3>4, <4>4, <2>4, <1>17 DEF ClaudeReads
      <4> QED
        BY <4>2, <4>3, <4>4
    <3> QED
      BY <1>18, <3>1, <3>2, <3>3, <3>4
  <2> QED
    BY <2>1, <2>2, <2>5, <1>b, <1>c
<1> QED
  BY <1>1, <1>3, <1>7, <1>8, <1>9, <1>10, <1>11, <1>12, <1>13, <1>14, <1>15, <1>16, <1>18
     DEF Next, Driver, Runtime, Agent, Claude

-----------------------------------------------------------------------------
(* Inv is an invariant.                                                     *)
LEMMA Invariant == Spec => []Inv
<1>1. Init => Inv
  <2> SUFFICES ASSUME Init PROVE Inv
    OBVIOUS
  <2>1. mode \in {"task", "chat"}
    BY AgentAssumption DEF Init
  <2>2. \A S : <<>> \in Seq(S) /\ Len(<<>>) = 0
    BY EmptySeq
  <2>3. patches \in Seq(Patch) /\ Len(patches) \in {0, 1}
        /\ \A i \in 1..Len(patches) : i = 1 /\ patches[i] = "claim" /\ mode = "chat"
    <3>1. <<"claim">> \in Seq(Patch) /\ Len(<<"claim">>) = 1 /\ <<"claim">>[1] = "claim"
      BY DEF Patch
    <3> QED
      BY <2>2, <3>1 DEF Init
  <2>4. rt \in RtType /\ drv \in DrvType /\ run \in RunType /\ part \in PartType
    BY <2>2, Parts DEF Init, NewRuntime, NewDriver, RtType, DrvType, RunType
  <2>5. TypeInv
    BY <2>1, <2>2, <2>3, <2>4 DEF Init, NewRuntime, TypeInv, Terminal
  <2>6. SettleInv
    BY <2>3 DEF Init, NewRuntime, SettleInv, Chat, Terminal
  <2>7. ChatInv
    <3>1. mode = "chat" => GoesIdle(patches, "idle")
      BY <2>3 DEF GoesIdle
    <3> QED
      BY <3>1 DEF Init, NewDriver, ChatInv, Chat
  <2>8. BubbleInv
    BY <2>2, Parts DEF Init, BubbleInv, Ahead
  <2> QED
    BY <2>5, <2>6, <2>7, <2>8 DEF Inv
<1>2. Inv /\ [Next]_vars => Inv'
  BY TypeStep, SettleStep, ChatStep, BubbleStep DEF Inv
<1> QED
  BY <1>1, <1>2, PTL DEF Spec

(* A user who ends a chat gets done, whatever the agent does on the way out *)
(* and whichever of its calls finalises, if the daemon lives to write it:   *)
(* the claim is settleOnce's.                                               *)
THEOREM EndedMeansDone == Spec => []EndMeansDone
<1>1. Inv => EndMeansDone
  BY DEF Inv, SettleInv, EndMeansDone, Terminal
<1> QED
  BY <1>1, Invariant, PTL

(* A sealed session has no MCP server open, but one its onRun minted late.  *)
THEOREM ServersGo == Spec => []NoServerLeft
<1>1. Inv => NoServerLeft
  BY DEF Inv, SettleInv, NoServerLeft
<1> QED
  BY <1>1, Invariant, PTL

(* When claude has nothing to do a chat does not look busy, and the live    *)
(* bubble holds nothing that is in the transcript.                          *)
THEOREM ClientsSeeItsAgent == Spec => []ShownIsTrue
<1>1. Inv => IdleIsLearned
  <2> SUFFICES ASSUME Inv, mode = "chat", Quiet, ~Owed
               PROVE  meta.activity = "idle" /\ ~drv.streaming
    BY DEF IdleIsLearned
  <2>1. out = <<>> /\ patches = <<>> /\ cmds = <<>> /\ claude.phase = "idle" /\ ~rt.settled
    BY DEF Quiet, Owed
  <2>2. Len(out) = 0 /\ Len(cmds) = 0 /\ Len(patches) = 0
    BY <2>1
  <2>3. ~Bound /\ ~Resulting
    BY <2>1, <2>2 DEF Bound, Resulting
  <2>4. ~drv.streaming /\ GoesIdle(patches, meta.activity)
    BY <2>1, <2>3 DEF Inv, ChatInv, Chat
  <2> QED
    BY <2>2, <2>4 DEF GoesIdle
<1>2. Inv => BubbleIsAhead
  BY DEF Inv, BubbleInv, Ahead, BubbleIsAhead
<1> QED
  BY <1>1, <1>2, Invariant, PTL DEF ShownIsTrue
=============================================================================
