--------------------------- MODULE PiDriverProofs ---------------------------
(* Proofs about PiDriver: a prompt ends at most one turn, what is streamed  *)
(* is ahead of the transcript, and pi refuses no prompt of runTurns without *)
(* a reason.                                                                *)
EXTENDS PiDriver, SequenceTheorems, TLAPS

Answer == {"prompt", "queued", "busy", "idle"}
Kind == {"agent_start", "agent_end", "agent_settled", "retry", "compaction_start",
         "compaction_end", "update", "message", "transit"}
Said == [kind : Kind, by : {"pi"}, ok : {"ok"}]
        \cup [kind : {"response"}, by : Input \cup {"loop"}, ok : Answer]
Cmd == [cmd : {"prompt", "queue"}, by : Input \cup {"loop"}]
Turn == {"ended", "aborted", "exited"}

PiType ==
    [phase : {"idle", "accepted", "run", "post", "sleep", "compacting", "dead"},
     extra : Nat, messages : Nat]
ViewType ==
    [streaming : BOOLEAN, settled : BOOLEAN, support : {"unknown", "legacy", "modern"},
     ended : BOOLEAN, grace : {"off", "armed", "extended", "suspended"}, turns : Seq(Turn)]
LifeType == [exited : BOOLEAN, aborted : BOOLEAN, shutting : BOOLEAN]
PartType == [timer : BOOLEAN, held : Nat]
LoopType ==
    [pc : {"workspace", "mcp", "chat", "seed", "gate", "write", "ack", "answered", "await",
           "commit", "finally", "closing", "done"},
     chat : BOOLEAN, try : Nat, corr : Nat, ceiling : BOOLEAN, got : Answer \cup {"none", "gone"}]
(* A call that may yet be retried has a shape left to try.                  *)
InpType ==
    {c \in [pc : {"new", "first", "rejected", "second", "done"}, sent : SUBSET {"prompt", "queue"}] :
        /\ c.pc = "new" => c.sent = {}
        /\ c.pc \in {"first", "rejected"} => {"queue", "prompt"} \ c.sent # {}}
CountType == [own : Nat, other : Nat, ends : Nat]

TypeInv ==
    /\ build \in {"modern", "legacy"} /\ hasty \in BOOLEAN /\ pi \in PiType
    /\ cmds \in Seq(Cmd) /\ out \in Seq(Said)
    /\ view \in ViewType /\ life \in LifeType /\ target \in BOOLEAN /\ part \in PartType
    /\ logged \in Nat /\ bubble \in Nat /\ sealed \in BOOLEAN
    /\ loop \in LoopType /\ inp \in [Input -> InpType] /\ count \in CountType

(* A cycle that has not ended has been opened by a prompt, and is counted.  *)
TurnInv == count.ends + (IF view.ended THEN 0 ELSE 1) <= count.own + count.other

PartInv ==
    /\ part.held # 0 => part.held > logged
    /\ bubble # 0 => bubble > logged

(* As long as nobody but runTurns prompts a modern pi and the grace is not  *)
(* hasty: runTurns has one prompt on its way at most, and pi is idle when   *)
(* it goes out. For the gate opens only on what pi says at its end.         *)
Calm == build = "modern" /\ ~hasty /\ \A i \in Input : "prompt" \notin inp[i].sent
Asks(c) == c.cmd = "prompt"
Response(l) == l.kind = "response"
Accepts(l) == Response(l) /\ l.ok = "prompt"
Opens(l) == l.kind = "agent_settled" \/ (Response(l) /\ l.ok = "idle")
Pending(kind) ==
    \E i \in 1..Len(out) :
        out[i].kind = kind /\ \A j \in 1..Len(out) : j > i => Response(out[j])
CallsInv ==
    /\ loop.got # "busy" /\ ~loop.ceiling
    /\ life.exited => pi.phase = "dead"
    /\ \A i \in 1..Len(cmds) : Asks(cmds[i]) <=> cmds[i].by = "loop"
    /\ \A i \in 1..Len(out) : Response(out[i]) =>
          out[i].ok # "busy" /\ (Accepts(out[i]) <=> out[i].by = "loop")
    /\ pi.phase # "dead" =>
          /\ \A i \in 1..Len(cmds) : Asks(cmds[i]) =>
                /\ loop.pc = "ack" /\ ~Running
                /\ \A j \in 1..Len(cmds) : Asks(cmds[j]) => j = i
                /\ \A j \in 1..Len(out) : ~Accepts(out[j])
          /\ \A i \in 1..Len(out) : Accepts(out[i]) =>
                /\ loop.pc = "ack"
                /\ \A j \in 1..Len(out) : Accepts(out[j]) => j = i
GateInv ==
    /\ loop.pc = "write" /\ ~life.aborted => ~Running
    /\ view.settled /\ ~life.aborted /\ Running => \E i \in 1..Len(out) : Accepts(out[i])
    /\ Running => \A i \in 1..Len(out) : Opens(out[i]) =>
                     \E j \in 1..Len(out) : j > i /\ Accepts(out[j])
GraceInv ==
    /\ view.support = "legacy" => pi.phase = "dead"
    /\ view.support = "unknown" =>
          /\ pi.phase = "sleep" =>
                \/ Pending("retry")
                \/ view.grace # "armed" /\ \A i \in 1..Len(out) : Response(out[i])
          /\ pi.phase = "compacting" =>
                \/ Pending("compaction_start")
                \/ view.grace \in {"off", "suspended"} /\ \A i \in 1..Len(out) : Response(out[i])
          /\ pi.phase = "idle" =>
                \/ \E i \in 1..Len(out) : out[i].kind = "agent_settled"
                \/ view.grace = "off" /\ \A i \in 1..Len(out) : out[i].kind # "agent_end"
CalmInv == Calm => CallsInv /\ GateInv /\ GraceInv

Inv == TypeInv /\ TurnInv /\ PartInv /\ CalmInv

-----------------------------------------------------------------------------
(* A line of a queue is one place nearer once its head is taken.            *)
LEMMA Shifted ==
    ASSUME NEW L \in Nat
    PROVE  \A n \in 1..(L - 1) : n + 1 \in 1..L /\ n + 1 # 1 /\ 1 < n + 1
OBVIOUS

(* A queue that grows at its tail and is taken from at its head.            *)
LEMMA SeqOps ==
    ASSUME NEW S, NEW q \in Seq(S)
    PROVE  /\ Len(q) \in Nat
           /\ \A x \in S : /\ Append(q, x) \in Seq(S) /\ Len(Append(q, x)) = Len(q) + 1
                           /\ \A i \in 1..Len(q) : Append(q, x)[i] = q[i]
                           /\ Append(q, x)[Len(q) + 1] = x
           /\ q # <<>> => /\ Tail(q) \in Seq(S) /\ Head(q) \in S /\ Head(q) = q[1]
                         /\ Len(q) > 0 /\ Len(Tail(q)) = Len(q) - 1
                         /\ \A i \in 1..(Len(q) - 1) : Tail(q)[i] = q[i + 1]
BY AppendProperties, HeadTailProperties, LenProperties, EmptySeq

(* What pi writes follows what it has written.                              *)
LEMMA ConcatOps ==
    ASSUME NEW S, NEW q \in Seq(S), NEW r \in Seq(S)
    PROVE  /\ q \o r \in Seq(S) /\ Len(q \o r) = Len(q) + Len(r)
           /\ \A i \in 1..Len(q) : (q \o r)[i] = q[i]
           /\ \A i \in 1..Len(r) : (q \o r)[Len(q) + i] = r[i]
BY ConcatProperties, LenProperties

(* A report to runTurns, the gate and the grace are apart from each other.  *)
LEMMA ViewOps ==
    ASSUME NEW v \in ViewType, NEW r \in Turn
    PROVE  /\ ClearGrace(v) \in ViewType /\ OpenGate(v) \in ViewType /\ Emit(v, r) \in ViewType
           /\ ClearGrace(v) = [v EXCEPT !.grace = "off"]
           /\ Emit(v, r).turns = Append(v.turns, r) /\ Emit(v, r).ended = v.ended
           /\ Emit(v, r).settled = v.settled /\ Emit(v, r).support = v.support
           /\ Emit(v, r).grace = v.grace
           /\ OpenGate(v).settled /\ OpenGate(v).turns = v.turns /\ OpenGate(v).ended = v.ended
           /\ OpenGate(v).support = v.support /\ OpenGate(v).grace = v.grace
<1>1. Append(v.turns, r) \in Seq(Turn)
  BY SeqOps DEF ViewType
<1> QED
  BY <1>1 DEF ClearGrace, OpenGate, Emit, ViewType

(* CloseCycle opens the gate, and reports a turn that has not ended.        *)
LEMMA Closes ==
    ASSUME NEW v \in ViewType
    PROVE  /\ CloseCycle(v) \in ViewType /\ CloseCycle(v).settled /\ CloseCycle(v).ended
           /\ CloseCycle(v).support = v.support /\ CloseCycle(v).grace = v.grace
           /\ \/ /\ v.ended /\ CloseCycle(v).ended = v.ended
                 /\ CloseCycle(v).turns = v.turns
              \/ ~v.ended /\ CloseCycle(v).turns = Append(v.turns, "ended")
<1> DEFINE o == [OpenGate(v) EXCEPT !.streaming = FALSE]
           p == [o EXCEPT !.ended = TRUE]
<1>1. /\ o \in ViewType /\ o.settled /\ o.ended = v.ended /\ o.support = v.support
      /\ o.grace = v.grace /\ o.turns = v.turns
  BY DEF OpenGate, ViewType
<1>2. CloseCycle(v) = IF v.ended THEN o ELSE Emit(p, "ended")
  BY DEF CloseCycle
<1> HIDE DEF o
<1>3. /\ p \in ViewType /\ p.settled /\ p.ended /\ p.support = o.support
      /\ p.grace = o.grace /\ p.turns = o.turns
  BY <1>1 DEF ViewType
<1> HIDE DEF p
<1>4. CASE v.ended
  <2>1. CloseCycle(v) = o /\ v.ended = TRUE
    BY <1>2, <1>4 DEF ViewType
  <2> QED
    BY <1>1, <1>4, <2>1
<1>5. CASE ~v.ended
  <2>1. CloseCycle(v) = Emit(p, "ended") /\ "ended" \in Turn
    BY <1>2, <1>5 DEF Turn
  <2> QED
    BY <1>1, <1>3, <1>5, <2>1, ViewOps
<1> QED
  BY <1>4, <1>5

(* What a line does to the driver's run state.                              *)
LEMMA Sees ==
    ASSUME NEW v \in ViewType, NEW line \in Said
    PROVE  /\ Seen(v, line) \in ViewType
           /\ \/ Seen(v, line).turns = v.turns /\ Seen(v, line).ended = v.ended /\ ~Accepts(line)
              \/ Accepts(line) /\ Seen(v, line).turns = v.turns /\ ~Seen(v, line).ended
              \/ /\ ~Response(line) /\ ~v.ended /\ Seen(v, line).ended
                 /\ Seen(v, line).turns = Append(v.turns, "ended")
           /\ Seen(v, line).settled =>
                 \/ v.settled /\ ~Accepts(line)
                 \/ Opens(line)
                 \/ v.support = "legacy"
           /\ Seen(v, line).support = "legacy" => v.support = "legacy"
           /\ Seen(v, line).support = "unknown" /\ line.ok # "busy" =>
                 v.support = "unknown" /\ line.kind # "agent_settled"
           /\ Response(line) /\ line.ok # "busy" => Seen(v, line).grace = v.grace
           /\ v.support = "unknown" =>
                 /\ line.kind = "retry" => Seen(v, line).grace # "armed"
                 /\ line.kind = "compaction_start" => Seen(v, line).grace \in {"off", "suspended"}
                 /\ v.grace = "off" /\ line.kind # "agent_end" /\ line.ok # "busy" =>
                       Seen(v, line).grace = "off"
<1> USE DEF Response, Accepts, Opens
<1> DEFINE c == ClearGrace(v)
           m == [c EXCEPT !.support = "modern"]
<1>1. c \in ViewType /\ c.turns = v.turns /\ c.ended = v.ended /\ c.grace = "off"
      /\ c.support = v.support
  BY DEF ClearGrace, ViewType
<1> HIDE DEF c
<1>2. /\ m \in ViewType /\ m.turns = v.turns /\ m.ended = v.ended
      /\ m.support = "modern" /\ m.grace = "off"
  BY <1>1 DEF ViewType
<1> HIDE DEF m
<1>3. CASE line.kind = "response"
  <2>1. line.ok \in Answer /\ Seen(v, line) = ApplyResponse(v, line)
    BY <1>3 DEF Said, Seen, Kind
  <2>2. CASE line.ok = "prompt"
    BY <1>3, <2>1, <2>2 DEF ApplyResponse, OpenCycle, ViewType
  <2>3. CASE line.ok = "queued"
    BY <1>3, <2>1, <2>3 DEF ApplyResponse
  <2>4. CASE line.ok = "busy"
    <3>1. Seen(v, line) = StillRunning(v)
      BY <2>1, <2>4 DEF ApplyResponse
    <3> QED
      BY <1>3, <3>1, <2>4 DEF StillRunning, ViewType
  <2>5. CASE line.ok = "idle"
    <3>1. Seen(v, line) = Idle(v)
      BY <2>1, <2>5 DEF ApplyResponse
    <3> QED
      BY <1>3, <3>1, <2>5 DEF Idle, OpenGate, ViewType
  <2> QED
    BY <2>1, <2>2, <2>3, <2>4, <2>5 DEF Answer
<1>4. CASE line.kind = "agent_start"
  <2>1. Seen(v, line) = [c EXCEPT !.streaming = TRUE, !.settled = FALSE]
    BY <1>4 DEF Seen, AgentStart, c
  <2> QED
    BY <1>1, <1>4, <2>1 DEF ViewType
<1>5. CASE line.kind = "agent_end"
  <2>1. Seen(v, line) = AgentEnd(v)
    BY <1>5 DEF Seen
  <2>2. CASE v.support = "legacy"
    <3>1. Seen(v, line) = CloseCycle(v)
      BY <2>1, <2>2 DEF AgentEnd
    <3> QED
      BY <1>5, <2>2, <3>1, Closes
  <2>3. CASE v.support = "unknown"
    BY <1>5, <2>1, <2>3 DEF AgentEnd, ViewType
  <2>4. CASE v.support = "modern"
    BY <1>5, <2>1, <2>4 DEF AgentEnd
  <2> QED
    BY <2>2, <2>3, <2>4 DEF ViewType
<1>6. CASE line.kind = "agent_settled"
  <2>1. Seen(v, line) = CloseCycle(m)
    BY <1>6 DEF Seen, AgentSettled, m, c
  <2>2. /\ CloseCycle(m) \in ViewType /\ CloseCycle(m).settled /\ CloseCycle(m).ended
        /\ CloseCycle(m).support = "modern" /\ CloseCycle(m).grace = "off"
        /\ \/ m.ended /\ CloseCycle(m).ended = m.ended /\ CloseCycle(m).turns = m.turns
           \/ ~m.ended /\ CloseCycle(m).turns = Append(m.turns, "ended")
    BY <1>2, Closes
  <2> DEFINE w == Seen(v, line)
  <2>3. /\ w \in ViewType /\ w.settled /\ w.support = "modern" /\ w.grace = "off"
        /\ \/ w.turns = v.turns /\ w.ended = v.ended
           \/ ~v.ended /\ w.ended /\ w.turns = Append(v.turns, "ended")
    <3>1. CASE m.ended /\ CloseCycle(m).ended = m.ended /\ CloseCycle(m).turns = m.turns
      BY <1>2, <2>1, <2>2, <3>1
    <3>2. CASE ~m.ended /\ CloseCycle(m).turns = Append(m.turns, "ended")
      <4>1. ~v.ended
        BY <1>2, <3>2
      <4>2. Append(m.turns, "ended") = Append(v.turns, "ended")
        BY <1>2
      <4> QED
        BY <2>1, <2>2, <3>2, <4>1, <4>2
    <3> QED
      BY <2>2, <3>1, <3>2
  <2> HIDE DEF w
  <2>4. ~Response(line) /\ Opens(line)
    BY <1>6
  <2> QED
    BY <1>6, <2>3, <2>4 DEF w
<1>7. CASE line.kind \in {"retry", "compaction_start", "compaction_end"}
  <2>1. Seen(v, line) = PostRunSignal(v, line.kind)
    BY <1>7 DEF Seen
  <2>2. \E g \in {"armed", "extended", "suspended"} :
           \/ PostRunSignal(v, line.kind) = v
           \/ PostRunSignal(v, line.kind) = [v EXCEPT !.grace = g] /\ v.grace # "off"
    BY DEF PostRunSignal
  <2>3. \A g \in {"armed", "extended", "suspended"} :
           /\ [v EXCEPT !.grace = g] \in ViewType /\ [v EXCEPT !.grace = g].grace = g
           /\ [v EXCEPT !.grace = g].settled = v.settled
           /\ [v EXCEPT !.grace = g].support = v.support
           /\ [v EXCEPT !.grace = g].turns = v.turns /\ [v EXCEPT !.grace = g].ended = v.ended
    BY DEF ViewType
  <2>4. v.support = "unknown" =>
          /\ line.kind = "retry" => PostRunSignal(v, line.kind).grace # "armed"
          /\ line.kind = "compaction_start" =>
                PostRunSignal(v, line.kind).grace \in {"off", "suspended"}
    BY DEF PostRunSignal, ViewType
  <2>5. PICK g \in {"armed", "extended", "suspended"} :
           \/ Seen(v, line) = v
           \/ Seen(v, line) = [v EXCEPT !.grace = g] /\ v.grace # "off"
    BY <2>1, <2>2
  <2>6. /\ Seen(v, line) \in ViewType /\ Seen(v, line).turns = v.turns
        /\ Seen(v, line).ended = v.ended /\ Seen(v, line).settled = v.settled
        /\ Seen(v, line).support = v.support
        /\ v.grace = "off" => Seen(v, line).grace = "off"
    BY <2>3, <2>5
  <2> QED
    BY <1>7, <2>1, <2>4, <2>6
<1>8. CASE line.kind \in {"update", "message", "transit"}
  <2>1. Seen(v, line) = v
    BY <1>8 DEF Seen
  <2> QED
    BY <1>8, <2>1
<1>9. line.kind \in Kind \cup {"response"}
  BY DEF Said
<1> QED
  BY <1>3, <1>4, <1>5, <1>6, <1>7, <1>8, <1>9 DEF Kind

(* A change of the run state may let a parked sendPrompt go on.             *)
LEMMA SeeOps ==
    ASSUME TypeInv, NEW v \in ViewType, See(v)
    PROVE  /\ view' = v /\ loop' \in LoopType /\ count' \in CountType
           /\ loop'.got = loop.got /\ (loop'.ceiling => loop.ceiling)
           /\ IF v.settled /\ loop.pc = "gate" THEN loop'.pc = "write" ELSE loop'.pc = loop.pc
<1>1. loop \in LoopType /\ count \in CountType
  BY DEF TypeInv
<1>2. loop' \in {loop, [Cancelled(loop) EXCEPT !.pc = "write"]}
      /\ count' \in {count, [count EXCEPT !.ends = @ + 1]}
  BY DEF See
<1>3. [Cancelled(loop) EXCEPT !.pc = "write"] \in LoopType
  BY <1>1 DEF Cancelled, LoopType
<1>4. [count EXCEPT !.ends = @ + 1] \in CountType
  BY <1>1 DEF CountType
<1>5. /\ [Cancelled(loop) EXCEPT !.pc = "write"].got = loop.got
      /\ [Cancelled(loop) EXCEPT !.pc = "write"].ceiling = FALSE
      /\ [Cancelled(loop) EXCEPT !.pc = "write"].pc = "write"
  BY <1>1 DEF Cancelled, LoopType
<1> QED
  BY <1>1, <1>2, <1>3, <1>4, <1>5 DEF See

(* A response is delivered to the call that waits for it.                   *)
LEMMA Delivers ==
    ASSUME TypeInv, NEW line \in Said, Response(line), Deliver(line)
    PROVE  /\ loop' \in LoopType /\ inp' \in [Input -> InpType] /\ count' \in CountType
           /\ view' = Seen(view, line) /\ view' \in ViewType
           /\ \A i \in Input : inp'[i].sent = inp[i].sent
           /\ line.by = "loop" => loop'.pc = "answered" /\ loop'.got = line.ok
           /\ line.by # "loop" =>
                 /\ loop'.got = loop.got
                 /\ IF view'.settled /\ loop.pc = "gate" THEN loop'.pc = "write"
                                                        ELSE loop'.pc = loop.pc
           /\ loop'.ceiling = loop.ceiling
           /\ IF Accepts(line) THEN count'.own + count'.other = count.own + count.other + 1
                               ELSE count'.own + count'.other = count.own + count.other
           /\ count'.ends = count.ends
<1>1. /\ loop \in LoopType /\ count \in CountType /\ view \in ViewType
      /\ inp \in [Input -> InpType] /\ line.by \in Input \cup {"loop"} /\ line.ok \in Answer
  BY DEF TypeInv, Response, Said, Kind
<1>2. view' = Seen(view, line) /\ view' \in ViewType
  BY <1>1, Sees DEF Deliver
<1>3. CASE line.by = "loop"
  <2>1. loop' = [loop EXCEPT !.pc = "answered", !.got = line.ok] /\ UNCHANGED inp
        /\ count' = IF line.ok = "prompt" THEN [count EXCEPT !.own = @ + 1] ELSE count
    BY <1>3 DEF Deliver
  <2>2. /\ loop' \in LoopType /\ loop'.pc = "answered" /\ loop'.got = line.ok
        /\ loop'.ceiling = loop.ceiling
    BY <1>1, <2>1 DEF LoopType
  <2>3. /\ count' \in CountType /\ count'.ends = count.ends
        /\ count'.own + count'.other =
              IF line.ok = "prompt" THEN count.own + count.other + 1 ELSE count.own + count.other
    BY <1>1, <2>1 DEF CountType
  <2> QED
    BY <1>1, <1>2, <1>3, <2>1, <2>2, <2>3 DEF Accepts, Response
<1>4. CASE line.by # "loop"
  <2>1. /\ inp' = [inp EXCEPT ![line.by].pc =
                     IF StateMismatch(line.ok) /\ @ = "first" THEN "rejected" ELSE "done"]
        /\ loop' = IF view'.settled /\ loop.pc = "gate"
                    THEN [loop EXCEPT !.pc = "write"] ELSE loop
        /\ count' = IF line.ok = "prompt" THEN [count EXCEPT !.other = @ + 1] ELSE count
        /\ line.by \in Input
    BY <1>1, <1>4 DEF Deliver
  <2>2. /\ loop' \in LoopType /\ loop'.got = loop.got /\ loop'.ceiling = loop.ceiling
        /\ IF view'.settled /\ loop.pc = "gate" THEN loop'.pc = "write"
                                               ELSE loop'.pc = loop.pc
    BY <1>1, <2>1 DEF LoopType
  <2>3. /\ count' \in CountType /\ count'.ends = count.ends
        /\ count'.own + count'.other =
              IF line.ok = "prompt" THEN count.own + count.other + 1 ELSE count.own + count.other
    BY <1>1, <2>1 DEF CountType
  <2>4. inp' \in [Input -> InpType] /\ \A i \in Input : inp'[i].sent = inp[i].sent
    <3> DEFINE pc == IF StateMismatch(line.ok) /\ inp[line.by].pc = "first" THEN "rejected" ELSE "done"
               r == [inp[line.by] EXCEPT !.pc = pc]
    <3>1. inp' = [inp EXCEPT ![line.by] = r]
      BY <2>1
    <3>2. r \in InpType /\ r.sent = inp[line.by].sent
      BY <1>1, <2>1 DEF InpType
    <3> HIDE DEF r
    <3> QED
      BY <1>1, <3>1, <3>2
  <2> QED
    BY <1>1, <1>2, <1>4, <2>1, <2>2, <2>3, <2>4 DEF Accepts, Response
<1> QED
  BY <1>3, <1>4

(* A line that is no response changes the run state, the call that waits at *)
(* the gate and, when it ends a message, what is streamed.                  *)
LEMMA Reads ==
    ASSUME TypeInv, ReadLine
    PROVE  /\ out # <<>> /\ out' = Tail(out) /\ Head(out) \in Said
           /\ UNCHANGED <<build, hasty, pi, cmds, life, sealed>>
           /\ \/ /\ Response(Head(out)) /\ life.exited
                 /\ UNCHANGED <<view, target, part, logged, bubble, loop, inp, count>>
              \/ Response(Head(out)) /\ ~life.exited /\ Deliver(Head(out))
              \/ /\ ~Response(Head(out)) /\ See(Seen(view, Head(out))) /\ UNCHANGED inp
                 /\ target' \in BOOLEAN
                 /\ \/ Push(logged + 1) /\ UNCHANGED logged
                    \/ Flush(0) /\ logged' = logged + 1
                    \/ Flush(Held) /\ UNCHANGED logged
                    \/ UNCHANGED <<part, bubble, logged>>
<1>1. out # <<>> /\ Head(out) \in Said
  BY SeqOps DEF ReadLine, TypeInv
<1>2. CASE Response(Head(out))
  BY <1>1, <1>2 DEF ReadLine, Response
<1>3. CASE ~Response(Head(out))
  BY <1>1, <1>3 DEF ReadLine, Response, ObserveToolCall, ObservePartial, MirrorMessage, TypeInv
<1> QED
  BY <1>2, <1>3

(* What the coalescer holds and what is streamed.                           *)
LEMMA PartOps ==
    ASSUME TypeInv, \/ Push(logged + 1) /\ UNCHANGED logged
                    \/ Flush(0) /\ logged' = logged + 1
                    \/ Flush(Held) /\ UNCHANGED logged
                    \/ UNCHANGED <<part, bubble, logged>>
    PROVE  part' \in PartType /\ logged' \in Nat /\ bubble' \in Nat /\ (PartInv => PartInv')
<1>1. part \in PartType /\ logged \in Nat /\ bubble \in Nat
  BY DEF TypeInv
<1>2. CASE Push(logged + 1) /\ UNCHANGED logged
  <2>1. logged + 1 \in Nat /\ logged + 1 # 0 /\ logged + 1 > logged
    BY <1>1
  <2>2. CASE part.timer
    <3>1. part'.held = logged + 1 /\ part' \in PartType /\ UNCHANGED bubble
      BY <1>1, <1>2, <2>1, <2>2 DEF Push, PartType
    <3> QED
      BY <1>1, <1>2, <2>1, <3>1 DEF PartInv
  <2>3. CASE ~part.timer
    <3>1. part'.held = 0 /\ part' \in PartType /\ bubble' = logged + 1
      <4>1. part' = [timer |-> TRUE, held |-> 0] /\ bubble' = logged + 1
        BY <1>2, <2>3 DEF Push
      <4> QED
        BY <4>1 DEF PartType
    <3> QED
      BY <1>1, <1>2, <2>1, <3>1 DEF PartInv
  <2> QED
    BY <2>2, <2>3
<1>3. CASE Flush(0) /\ logged' = logged + 1
  BY <1>1, <1>3 DEF Flush, NoPart, PartType, PartInv
<1>4. CASE Flush(Held) /\ UNCHANGED logged
  BY <1>1, <1>4 DEF Flush, Held, NoPart, PartType, PartInv
<1>5. CASE UNCHANGED <<part, bubble, logged>>
  BY <1>1, <1>5 DEF PartInv
<1> QED
  BY <1>2, <1>3, <1>4, <1>5

(* What pi writes is typed, and comes last.                                 *)
LEMMA PiSays ==
    ASSUME TypeInv, NEW next \in PiType, NEW lines \in Seq(Said), PiStep(next, lines)
    PROVE  /\ pi' = next /\ pi' \in PiType
           /\ out' \in Seq(Said) /\ Len(out') = Len(out) + Len(lines)
           /\ \A i \in 1..Len(out) : i \in 1..Len(out') /\ out'[i] = out[i]
           /\ \A i \in 1..Len(lines) :
                 Len(out) + i \in 1..Len(out') /\ out'[Len(out) + i] = lines[i]
           /\ \A i \in 1..Len(out') :
                 i \in 1..Len(out) \/ \E k \in 1..Len(lines) : i = Len(out) + k
<1>1. out \in Seq(Said) /\ Len(out) \in Nat /\ Len(lines) \in Nat /\ out' = out \o lines
  BY LenProperties DEF TypeInv, PiStep
<1>2. /\ out' \in Seq(Said) /\ Len(out') = Len(out) + Len(lines)
      /\ \A i \in 1..Len(out) : out'[i] = out[i]
      /\ \A i \in 1..Len(lines) : out'[Len(out) + i] = lines[i]
  BY <1>1, ConcatOps
<1>3. \A i \in 1..Len(lines) : Len(out) + i \in 1..Len(out')
  BY <1>1, <1>2
<1>4. ASSUME NEW i \in 1..Len(out'), i \notin 1..Len(out)
      PROVE  \E k \in 1..Len(lines) : i = Len(out) + k
  <2>1. i - Len(out) \in 1..Len(lines) /\ i = Len(out) + (i - Len(out))
    BY <1>1, <1>2, <1>4
  <2> QED
    BY <2>1
<1> QED
  BY <1>1, <1>2, <1>3, <1>4 DEF PiStep

(* pi takes a command off its stdin and answers it.                         *)
LEMMA PiAnswers ==
    ASSUME TypeInv, PiReads
    PROVE  /\ cmds # <<>> /\ cmds' = Tail(cmds) /\ cmds' \in Seq(Cmd) /\ Head(cmds) \in Cmd
           /\ pi.phase # "dead"
           /\ \E answer \in Answer, next \in PiType :
                 /\ <<Line("response", Head(cmds).by, answer)>> \in Seq(Said)
                 /\ PiStep(next, <<Line("response", Head(cmds).by, answer)>>)
                 /\ answer = "prompt" <=> Asks(Head(cmds)) /\ ~Running
                 /\ answer = "busy" <=> Asks(Head(cmds)) /\ Running
                 /\ answer = "idle" => ~Running
                 /\ IF answer = "prompt" THEN next.phase = "accepted" ELSE next = pi
<1> DEFINE c == Head(cmds)
           answer == CASE c.cmd = "prompt" /\ ~Running -> "prompt"
                       [] c.cmd = "prompt" /\ Running  -> "busy"
                       [] c.cmd = "queue" /\ Running   -> "queued"
                       [] OTHER -> "idle"
           next == IF answer = "prompt" THEN Busy("accepted") ELSE pi
<1>1. cmds # <<>> /\ cmds' = Tail(cmds) /\ cmds' \in Seq(Cmd) /\ c \in Cmd /\ pi.phase # "dead"
      /\ PiStep(next, <<Line("response", c.by, answer)>>)
  BY SeqOps DEF PiReads, TypeInv
<1>2. /\ answer \in Answer
      /\ answer = "prompt" <=> Asks(c) /\ ~Running
      /\ answer = "busy" <=> Asks(c) /\ Running
      /\ answer = "idle" => ~Running
  BY <1>1 DEF Answer, Asks, Cmd
<1> HIDE DEF answer
<1>3. next \in PiType /\ (IF answer = "prompt" THEN next.phase = "accepted" ELSE next = pi)
  BY DEF Busy, PiType, TypeInv
<1> HIDE DEF next
<1>4. Line("response", c.by, answer) \in Said
  BY <1>1, <1>2 DEF Line, Said, Cmd
<1>5. <<Line("response", c.by, answer)>> \in Seq(Said)
  BY <1>4
<1> QED
  BY <1>1, <1>2, <1>3, <1>5

(* Otherwise pi gets on with a run. It is idle only after it has said so.   *)
LEMMA PiMoves ==
    ASSUME TypeInv, Pi, ~PiReads
    PROVE  /\ UNCHANGED cmds /\ Running
           /\ \E next \in PiType, lines \in Seq(Said) :
                 /\ PiStep(next, lines)
                 /\ \A i \in 1..Len(lines) :
                       /\ ~Response(lines[i])
                       /\ lines[i].kind = "agent_settled" => next.phase = "idle"
                 /\ \/ next.phase \in {"accepted", "run", "post"}
                    \/ next.phase = "sleep" /\ Len(lines) = 1 /\ lines[1].kind = "retry"
                    \/ /\ next.phase = "compacting"
                       /\ Len(lines) = 1 /\ lines[1].kind = "compaction_start"
                    \/ /\ next.phase = "idle"
                       /\ build = "modern" =>
                             Len(lines) = 1 /\ lines[1].kind = "agent_settled"
<1>1. \A k \in Kind : /\ Say(k) \in Said /\ Say(k).kind = k
                      /\ <<Say(k)>> \in Seq(Said) /\ Len(<<Say(k)>>) = 1 /\ <<Say(k)>>[1] = Say(k)
  BY DEF Say, Line, Said
<1>2. <<>> \in Seq(Said) /\ Len(<<>>) = 0
  OBVIOUS
<1>3. \A k \in Kind : ~Response(Say(k))
  BY <1>1 DEF Response, Kind
<1>4. pi \in PiType /\ pi.extra + 1 \in Nat /\ pi.messages + 1 \in Nat
  BY DEF PiType, TypeInv
<1> DEFINE Moved(next, lines) ==
               /\ PiStep(next, lines)
               /\ \A i \in 1..Len(lines) :
                     /\ ~Response(lines[i])
                     /\ lines[i].kind = "agent_settled" => next.phase = "idle"
               /\ \/ next.phase \in {"accepted", "run", "post"}
                  \/ next.phase = "sleep" /\ Len(lines) = 1 /\ lines[1].kind = "retry"
                  \/ /\ next.phase = "compacting"
                     /\ Len(lines) = 1 /\ lines[1].kind = "compaction_start"
                  \/ /\ next.phase = "idle"
                     /\ build = "modern" =>
                           Len(lines) = 1 /\ lines[1].kind = "agent_settled"
<1>5. ASSUME NEW next \in PiType, NEW k \in Kind, PiStep(next, <<Say(k)>>),
             \/ next.phase \in {"accepted", "run", "post"} /\ k # "agent_settled"
             \/ next.phase = "sleep" /\ k = "retry"
             \/ next.phase = "compacting" /\ k = "compaction_start"
             \/ next.phase = "idle" /\ k = "agent_settled"
      PROVE  \E l \in Seq(Said) : Moved(next, l)
  <2> DEFINE L == <<Say(k)>>
  <2>1. /\ L \in Seq(Said) /\ Len(L) = 1 /\ L[1].kind = k /\ ~Response(L[1])
        /\ PiStep(next, L)
    BY <1>1, <1>3, <1>5
  <2> HIDE DEF L
  <2>2. \A i \in 1..Len(L) : i = 1
    BY <2>1
  <2>3. Moved(next, L)
    BY <1>5, <2>1, <2>2
  <2> QED
    BY <2>1, <2>3
<1>6. ASSUME NEW next \in PiType, PiStep(next, <<>>),
             next.phase \in {"accepted", "run", "post"} \/ (next.phase = "idle" /\ build # "modern")
      PROVE  \E l \in Seq(Said) : Moved(next, l)
  <2>1. \A i \in 1..Len(<<>>) : FALSE
    BY <1>2
  <2>2. Moved(next, <<>>)
    BY <1>6, <2>1
  <2> QED
    BY <1>2, <2>2
<1>7. Kind = {"agent_start", "agent_end", "agent_settled", "retry", "compaction_start",
              "compaction_end", "update", "message", "transit"}
  BY DEF Kind
<1>8. SUFFICES UNCHANGED cmds /\ Running /\ \E next \in PiType : \E l \in Seq(Said) : Moved(next, l)
  OBVIOUS
<1> HIDE DEF Moved
<1>9. \A ph \in {"idle", "accepted", "run", "post", "sleep", "compacting"} :
         Busy(ph) \in PiType /\ Busy(ph).phase = ph
  BY <1>4 DEF Busy, PiType
<1>10. CASE PiStarts
  BY <1>5, <1>7, <1>9, <1>10 DEF PiStarts, Running
<1>11. CASE PiUpdates
  <2> DEFINE next == [pi EXCEPT !.extra = @ + 1]
  <2>1. next \in PiType /\ next.phase = pi.phase
    BY <1>4 DEF PiType
  <2>2. PiStep(next, <<Say("update")>>) /\ UNCHANGED cmds /\ pi.phase = "run"
    BY <1>11 DEF PiUpdates
  <2> HIDE DEF next
  <2> QED
    BY <1>5, <1>7, <2>1, <2>2 DEF Running
<1>12. CASE PiSpeaks
  <2> DEFINE next == [pi EXCEPT !.messages = @ + 1]
             one == <<Say("message")>>
             two == <<Say("message"), Say("transit")>>
  <2>1. next \in PiType /\ next.phase = pi.phase
    BY <1>4 DEF PiType
  <2>2. (PiStep(next, one) \/ PiStep(next, two)) /\ UNCHANGED cmds /\ pi.phase = "run"
    BY <1>12 DEF PiSpeaks
  <2> HIDE DEF next
  <2>3. CASE PiStep(next, one)
    BY <1>5, <1>7, <2>1, <2>2, <2>3 DEF Running
  <2>4. CASE PiStep(next, two)
    <3>1. /\ two \in Seq(Said) /\ Len(two) = 2 /\ two[1] = Say("message")
          /\ two[2] = Say("transit")
      BY <1>1, <1>7
    <3> HIDE DEF two
    <3>2. \A i \in 1..Len(two) : i = 1 \/ i = 2
      BY <3>1
    <3>3. /\ ~Response(two[1]) /\ two[1].kind # "agent_settled"
          /\ ~Response(two[2]) /\ two[2].kind # "agent_settled"
      BY <1>1, <1>3, <1>7, <3>1
    <3>4. \A i \in 1..Len(two) : ~Response(two[i]) /\ two[i].kind # "agent_settled"
      BY <3>2, <3>3
    <3>5. Moved(next, two)
      BY <2>1, <2>2, <2>4, <3>4 DEF Moved
    <3> QED
      BY <2>1, <2>2, <3>1, <3>5 DEF Running
  <2> QED
    BY <2>2, <2>3, <2>4
<1>13. CASE PiEnds
  BY <1>5, <1>7, <1>9, <1>13 DEF PiEnds, Running
<1>14. CASE PiPostRun
  <2> DEFINE next(ph) == [pi EXCEPT !.phase = ph, !.extra = @ + 1]
  <2>1. \A ph \in {"sleep", "compacting", "accepted"} : next(ph) \in PiType /\ next(ph).phase = ph
    BY <1>4 DEF PiType
  <2>2. /\ UNCHANGED cmds /\ Running
        /\ \/ PiStep(next("sleep"), <<Say("retry")>>)
           \/ PiStep(next("compacting"), <<Say("compaction_start")>>)
           \/ PiStep(next("accepted"), <<>>)
    BY <1>14 DEF PiPostRun, Running
  <2> HIDE DEF next
  <2> QED
    BY <1>5, <1>6, <1>7, <2>1, <2>2
<1>15. CASE PiResumes
  BY <1>5, <1>6, <1>7, <1>9, <1>15 DEF PiResumes, Running
<1>16. CASE PiSettles
  BY <1>5, <1>6, <1>7, <1>9, <1>16 DEF PiSettles, Running
<1> QED
  BY <1>10, <1>11, <1>12, <1>13, <1>14, <1>15, <1>16 DEF Pi

(* The verdict of the grace, on a pi that has not yet said agent_settled.   *)
Verdict ==
    IF view.support = "unknown" THEN CloseCycle([ClearGrace(view) EXCEPT !.support = "legacy"])
    ELSE ClearGrace(view)
LEMMA Verdicts ==
    ASSUME TypeInv, GraceFires
    PROVE  /\ See(Verdict) /\ Verdict \in ViewType
           /\ Verdict.support = IF view.support = "unknown" THEN "legacy" ELSE view.support
           /\ Verdict.grace = "off"
           /\ view.support # "unknown" => Verdict.settled = view.settled
           /\ \/ Verdict.turns = view.turns /\ Verdict.ended = view.ended
              \/ ~view.ended /\ Verdict.ended /\ Verdict.turns = Append(view.turns, "ended")
<1> DEFINE c == ClearGrace(view)
           m == [c EXCEPT !.support = "legacy"]
<1>1. c \in ViewType /\ c.turns = view.turns /\ c.ended = view.ended /\ c.grace = "off"
      /\ c.support = view.support /\ c.settled = view.settled
  BY DEF ClearGrace, ViewType, TypeInv
<1>2. Verdict = (IF view.support = "unknown" THEN CloseCycle(m) ELSE c)
      /\ See(IF c.support = "unknown" THEN CloseCycle(m) ELSE c)
  BY DEF Verdict, GraceFires
<1> HIDE DEF c
<1>3. m \in ViewType /\ m.turns = view.turns /\ m.ended = view.ended /\ m.support = "legacy"
      /\ m.grace = "off"
  BY <1>1 DEF ViewType
<1> HIDE DEF m
<1>4. CASE view.support = "unknown"
  <2>1. Verdict = CloseCycle(m) /\ See(CloseCycle(m))
    BY <1>1, <1>2, <1>4
  <2>2. /\ CloseCycle(m) \in ViewType /\ CloseCycle(m).ended
        /\ CloseCycle(m).support = "legacy" /\ CloseCycle(m).grace = "off"
        /\ \/ m.ended /\ CloseCycle(m).ended = m.ended /\ CloseCycle(m).turns = m.turns
           \/ ~m.ended /\ CloseCycle(m).turns = Append(m.turns, "ended")
    BY <1>3, Closes
  <2>3. \/ Verdict.turns = view.turns /\ Verdict.ended = view.ended
        \/ ~view.ended /\ Verdict.ended /\ Verdict.turns = Append(view.turns, "ended")
    <3>1. CASE m.ended /\ CloseCycle(m).ended = m.ended /\ CloseCycle(m).turns = m.turns
      BY <1>3, <2>1, <3>1
    <3>2. CASE ~m.ended /\ CloseCycle(m).turns = Append(m.turns, "ended")
      <4>1. ~view.ended /\ Append(m.turns, "ended") = Append(view.turns, "ended")
        BY <1>3, <3>2
      <4> QED
        BY <2>1, <2>2, <3>2, <4>1
    <3> QED
      BY <2>2, <3>1, <3>2
  <2> QED
    BY <1>4, <2>1, <2>2, <2>3
<1>5. CASE view.support # "unknown"
  BY <1>1, <1>2, <1>5
<1> QED
  BY <1>4, <1>5

(* A turn is counted when it is reported as ended.                          *)
LEMMA Counts ==
    ASSUME TypeInv, NEW v \in ViewType, See(v),
           \/ v.turns = view.turns /\ v.ended = view.ended
           \/ ~view.ended /\ v.ended /\ v.turns = Append(view.turns, "ended")
           \/ v.turns = Append(view.turns, "aborted") /\ v.ended = view.ended
    PROVE  /\ count'.own = count.own /\ count'.other = count.other
           /\ TurnInv => TurnInv'
<1>1. /\ view \in ViewType /\ view.turns \in Seq(Turn) /\ count \in CountType
      /\ Len(view.turns) \in Nat
  BY LenProperties DEF TypeInv, ViewType
<1>2. \A r \in Turn : /\ Len(Append(view.turns, r)) = Len(view.turns) + 1
                      /\ Append(view.turns, r)[Len(view.turns) + 1] = r
  BY <1>1, SeqOps
<1>3. view' = v
      /\ count' = IF Len(v.turns) > Len(view.turns) /\ v.turns[Len(v.turns)] = "ended"
                  THEN [count EXCEPT !.ends = @ + 1] ELSE count
  BY DEF See
<1>4. CASE v.turns = view.turns /\ v.ended = view.ended
  <2>1. count' = count
    BY <1>1, <1>3, <1>4
  <2> QED
    BY <1>3, <1>4, <2>1 DEF TurnInv
<1>5. CASE ~view.ended /\ v.ended /\ v.turns = Append(view.turns, "ended")
  <2>1. count' = [count EXCEPT !.ends = @ + 1]
    BY <1>1, <1>2, <1>3, <1>5 DEF Turn
  <2>2. count'.ends = count.ends + 1 /\ count'.own = count.own /\ count'.other = count.other
    BY <1>1, <2>1 DEF CountType
  <2> QED
    BY <1>1, <1>3, <1>5, <2>2 DEF TurnInv, CountType
<1>6. CASE v.turns = Append(view.turns, "aborted") /\ v.ended = view.ended
  <2>1. Len(v.turns) = Len(view.turns) + 1 /\ v.turns[Len(v.turns)] = "aborted"
    BY <1>2, <1>6 DEF Turn
  <2>2. count' = count
    BY <1>3, <2>1
  <2> QED
    BY <1>3, <1>6, <2>2 DEF TurnInv
<1> QED
  BY <1>4, <1>5, <1>6

(* What the driver says of a child that is gone or killed.                  *)
LEMMA Reported ==
    ASSUME NEW v \in ViewType, NEW r \in Turn
    PROVE  /\ Emit(OpenGate(v), r) \in ViewType
           /\ Emit(OpenGate(v), r).turns = Append(v.turns, r)
           /\ Emit(OpenGate(v), r).ended = v.ended /\ Emit(OpenGate(v), r).support = v.support
           /\ Emit(OpenGate(v), r).grace = v.grace
           /\ ClearGrace(v) \in ViewType /\ ClearGrace(v).turns = v.turns
           /\ ClearGrace(v).ended = v.ended /\ ClearGrace(v).support = v.support
           /\ ClearGrace(v).grace = "off"
<1>1. /\ OpenGate(v) \in ViewType /\ OpenGate(v).turns = v.turns /\ OpenGate(v).ended = v.ended
      /\ OpenGate(v).support = v.support /\ OpenGate(v).grace = v.grace
      /\ ClearGrace(v) \in ViewType /\ ClearGrace(v) = [v EXCEPT !.grace = "off"]
  BY ViewOps
<1>2. ClearGrace(v).turns = v.turns /\ ClearGrace(v).ended = v.ended
      /\ ClearGrace(v).support = v.support /\ ClearGrace(v).grace = "off"
  BY <1>1 DEF ViewType
<1> HIDE DEF OpenGate
<1> QED
  BY <1>1, <1>2, ViewOps

(* Types.                                                                   *)
LEMMA TypeStep == TypeInv /\ [Next]_vars => TypeInv'
<1> SUFFICES ASSUME TypeInv, [Next]_vars PROVE TypeInv'
  OBVIOUS
<1> USE DEF piVars, drvVars
<1>a. /\ build \in {"modern", "legacy"} /\ hasty \in BOOLEAN /\ pi \in PiType
      /\ cmds \in Seq(Cmd) /\ out \in Seq(Said)
      /\ view \in ViewType /\ life \in LifeType /\ target \in BOOLEAN /\ part \in PartType
      /\ logged \in Nat /\ bubble \in Nat /\ sealed \in BOOLEAN
      /\ loop \in LoopType /\ inp \in [Input -> InpType] /\ count \in CountType
  BY DEF TypeInv
<1>b. NoPart \in PartType
  BY DEF NoPart, PartType
<1>1. CASE ReadLine
  <2>1. out' \in Seq(Said)
    BY <1>1, <1>a, Reads, SeqOps
  <2>2. UNCHANGED <<build, hasty, pi, cmds, life, sealed>>
    BY <1>1, Reads
  <2>3. CASE UNCHANGED <<view, target, part, logged, bubble, loop, inp, count>>
    BY <2>1, <2>2, <2>3 DEF TypeInv
  <2>4. CASE Response(Head(out)) /\ Deliver(Head(out))
    <3>1. /\ loop' \in LoopType /\ inp' \in [Input -> InpType] /\ count' \in CountType
          /\ view' \in ViewType
      BY <1>1, <2>4, Reads, Delivers
    <3>2. UNCHANGED <<target, part, logged, bubble>>
      BY <2>4 DEF Deliver
    <3> QED
      BY <2>1, <2>2, <3>1, <3>2 DEF TypeInv
  <2>5. CASE /\ See(Seen(view, Head(out))) /\ UNCHANGED inp /\ target' \in BOOLEAN
             /\ \/ Push(logged + 1) /\ UNCHANGED logged
                \/ Flush(0) /\ logged' = logged + 1
                \/ Flush(Held) /\ UNCHANGED logged
                \/ UNCHANGED <<part, bubble, logged>>
    <3>1. Seen(view, Head(out)) \in ViewType
      BY <1>1, <1>a, Reads, Sees
    <3>2. view' \in ViewType /\ loop' \in LoopType /\ count' \in CountType
      BY <2>5, <3>1, SeeOps
    <3>3. part' \in PartType /\ logged' \in Nat /\ bubble' \in Nat
      BY <2>5, PartOps
    <3> QED
      BY <2>1, <2>2, <2>5, <3>2, <3>3 DEF TypeInv
  <2> QED
    BY <1>1, <2>3, <2>4, <2>5, Reads
<1>2. CASE GraceFires
  <2>1. view' \in ViewType /\ loop' \in LoopType /\ count' \in CountType
    BY <1>2, Verdicts, SeeOps
  <2>2. hasty' \in BOOLEAN
    BY <1>2, <1>a DEF GraceFires, ShortPause
  <2> QED
    BY <1>2, <2>1, <2>2 DEF GraceFires, TypeInv
<1>3. CASE PartialTimer
  <2>1. part' \in PartType /\ bubble' \in Nat
    <3>1. [timer |-> TRUE, held |-> 0] \in PartType /\ part.held \in Nat
      BY <1>a DEF PartType
    <3> QED
      BY <1>3, <1>a, <1>b, <3>1 DEF PartialTimer
  <2> QED
    BY <1>3, <2>1 DEF PartialTimer, TypeInv
<1>4. CASE Exited
  <2>1. life' \in LifeType
    BY <1>4, <1>a DEF Exited, LifeType
  <2>2. loop' \in LoopType
    BY <1>4, <1>a DEF Exited, LoopType
  <2>3. inp' \in [Input -> InpType]
    <3>1. \A i \in Input : [inp[i] EXCEPT !.pc = "done"] \in InpType /\ inp[i] \in InpType
      BY <1>a DEF InpType
    <3> QED
      BY <1>4, <3>1 DEF Exited
  <2>4. view' \in ViewType
    BY <1>4, <1>a, Reported DEF Exited, Turn
  <2> QED
    BY <1>4, <1>b, <2>1, <2>2, <2>3, <2>4 DEF Exited, StopParts, TypeInv
<1>5. CASE Workspace \/ RunChat \/ Closed \/ GateCeiling
  <2>1. loop' \in LoopType
    BY <1>5, <1>a DEF Workspace, RunChat, Closed, GateCeiling, Goto, Cancelled, LoopType
  <2> QED
    BY <1>5, <2>1 DEF Workspace, RunChat, Closed, GateCeiling, LoopOnly, TypeInv
<1>6. CASE Register
  <2>1. loop' \in LoopType
    BY <1>6, <1>a DEF Register, Goto, LoopType
  <2>2. pi' \in PiType
    BY <1>6, <1>a DEF Register, Construct, Busy, PiType
  <2>3. view' \in ViewType
    BY <1>6, <1>a, Reported DEF Register, Construct, Turn
  <2> QED
    BY <1>6, <2>1, <2>2, <2>3 DEF Register, TypeInv
<1>7. ASSUME NEW n \in Nat, SendPrompt(n) PROVE loop' \in LoopType
  BY <1>7, <1>a DEF SendPrompt, Gate, LoopType
<1>8. CASE Seeded
  BY <1>7, <1>8 DEF Seeded, LoopOnly, TypeInv
<1>9. CASE WritePrompt
  <2>1. loop' \in LoopType
    BY <1>9, <1>a DEF WritePrompt, Goto, LoopType
  <2>2. [cmd |-> "prompt", by |-> "loop"] \in Cmd
    BY DEF Cmd
  <2>3. cmds' \in Seq(Cmd)
    <3>1. Append(cmds, [cmd |-> "prompt", by |-> "loop"]) \in Seq(Cmd)
      BY <1>a, <2>2, SeqOps
    <3> QED
      BY <1>9, <1>a, <3>1 DEF WritePrompt, WriteRaw
  <2> QED
    BY <1>9, <2>1, <2>3 DEF WritePrompt, TypeInv
<1>10. CASE Answered
  <2> DEFINE next == [Cancelled(loop) EXCEPT !.got = "none", !.try = 1]
  <2>1. next \in LoopType
    BY <1>a DEF Cancelled, LoopType
  <2>2. /\ loop' \in {[next EXCEPT !.pc = "await"], [next EXCEPT !.pc = "finally"],
                       [next EXCEPT !.pc = Gate, !.try = loop.try + 1, !.ceiling = RetryWait]}
        /\ LoopOnly
    BY <1>10 DEF Answered
  <2> HIDE DEF next
  <2>3. loop.try + 1 \in Nat /\ RetryWait \in BOOLEAN /\ Gate \in {"write", "gate"}
    BY <1>a DEF LoopType, RetryWait, Gate
  <2>4. loop' \in LoopType
    BY <2>1, <2>2, <2>3 DEF LoopType
  <2> QED
    BY <2>2, <2>4 DEF LoopOnly, TypeInv
<1>c. loop.corr + 1 \in Nat
  BY <1>a DEF LoopType
<1>11. CASE TurnEnd
  <2>1. view' \in ViewType
    <3>1. view.turns # <<>> => Tail(view.turns) \in Seq(Turn)
      BY <1>a, SeqOps DEF ViewType
    <3> QED
      BY <1>11, <1>a, <3>1 DEF TurnEnd, ViewType
  <2>2. loop' \in LoopType
    <3>1. (\E pc \in {"commit", "finally"} : Goto(pc)) \/ SendPrompt(loop.corr + 1)
      BY <1>11 DEF TurnEnd
    <3> QED
      BY <3>1, <1>7, <1>a, <1>c DEF Goto, LoopType
  <2>3. target' \in BOOLEAN
    BY <1>11, <1>a DEF TurnEnd, TakePendingTarget
  <2> QED
    BY <1>11, <2>1, <2>2, <2>3 DEF TurnEnd, TypeInv
<1>12. CASE CommitTransit
  <2>1. loop' \in LoopType
    <3>1. Goto("finally") \/ SendPrompt(loop.corr + 1)
      BY <1>12 DEF CommitTransit
    <3> QED
      BY <3>1, <1>7, <1>a, <1>c DEF Goto, LoopType
  <2>2. sealed' \in BOOLEAN
    BY <1>12, <1>a DEF CommitTransit
  <2> QED
    BY <1>12, <2>1, <2>2 DEF CommitTransit, TypeInv
<1>13. CASE Finally
  BY <1>13, <1>a DEF Finally, Goto, LoopType, LifeType, TypeInv
<1>14. CASE Pi
  <2>1. UNCHANGED <<build, hasty, drvVars, logged, bubble, sealed, loop, inp, count>>
        /\ pi' \in PiType /\ out' \in Seq(Said) /\ cmds' \in Seq(Cmd)
    <3>1. CASE PiReads
      <4>1. PICK next \in PiType, answer \in Answer :
                /\ <<Line("response", Head(cmds).by, answer)>> \in Seq(Said)
                /\ PiStep(next, <<Line("response", Head(cmds).by, answer)>>)
        BY <3>1, PiAnswers
      <4> QED
        BY <3>1, <4>1, PiAnswers, PiSays DEF PiStep
    <3>2. CASE ~PiReads
      <4>1. PICK next \in PiType, lines \in Seq(Said) : PiStep(next, lines)
        BY <1>14, <3>2, PiMoves
      <4> QED
        BY <1>14, <1>a, <3>2, <4>1, PiMoves, PiSays DEF PiStep
    <3> QED
      BY <3>1, <3>2
  <2> QED
    BY <2>1 DEF TypeInv
<1>15. CASE PiDies
  <2>1. pi' \in PiType
    <3>1. pi.extra + 1 \in Nat
      BY <1>a DEF PiType
    <3>2. Busy("dead") \in PiType /\ [pi EXCEPT !.phase = "dead", !.extra = pi.extra + 1] \in PiType
      BY <1>a, <3>1 DEF Busy, PiType
    <3> QED
      BY <1>15, <3>2 DEF PiDies
  <2> QED
    BY <1>15, <2>1 DEF PiDies, TypeInv
<1>16. CASE OnAbort
  <2>1. life' \in LifeType
    BY <1>16, <1>a DEF OnAbort, LifeType
  <2>2. CASE UNCHANGED <<view, part, loop, count>>
    BY <1>16, <2>1, <2>2 DEF OnAbort, TypeInv
  <2>3. CASE StopParts /\ See(Emit(OpenGate(ClearGrace(view)), "aborted"))
    <3>1. Emit(OpenGate(ClearGrace(view)), "aborted") \in ViewType
      BY <1>a, Reported DEF Turn
    <3>2. view' \in ViewType /\ loop' \in LoopType /\ count' \in CountType
      BY <2>3, <3>1, SeeOps
    <3> QED
      BY <1>16, <1>b, <2>1, <2>3, <3>2 DEF OnAbort, StopParts, TypeInv
  <2> QED
    BY <1>16, <2>2, <2>3 DEF OnAbort
<1>17. CASE AbortHook \/ Seal
  BY <1>17, <1>a DEF AbortHook, Seal, LifeType, TypeInv
<1>18. ASSUME NEW i \in Input, NEW pc \in {"first", "second"}, NEW shape \in {"prompt", "queue"},
              Send(i, pc, shape), pc = "first" => inp[i].pc = "new"
       PROVE  cmds' \in Seq(Cmd) /\ inp' \in [Input -> InpType]
  <2>1. [cmd |-> shape, by |-> i] \in Cmd
    BY DEF Cmd
  <2>2. inp[i] \in InpType /\ inp[i].sent \cup {shape} \in SUBSET {"prompt", "queue"}
    BY <1>a DEF InpType
  <2> DEFINE r == [inp[i] EXCEPT !.pc = "done"]
             q == [inp[i] EXCEPT !.pc = pc, !.sent = inp[i].sent \cup {shape}]
  <2>3. r \in InpType
    BY <2>2 DEF InpType
  <2>5. q \in InpType
    <3> DEFINE sent == inp[i].sent \cup {shape}
    <3>1. pc = "first" => {"queue", "prompt"} \ sent # {}
      <4>1. pc = "first" => inp[i].sent = {}
        BY <1>18, <2>2 DEF InpType
      <4>2. \E x \in {"queue", "prompt"} : x # shape
        OBVIOUS
      <4> QED
        BY <4>1, <4>2
    <3>2. sent \in SUBSET {"prompt", "queue"}
      BY <2>2
    <3> DEFINE R == [pc : {"new", "first", "rejected", "second", "done"},
                     sent : SUBSET {"prompt", "queue"}]
    <3>3. q \in R /\ q.pc = pc /\ q.sent = sent
      <4>1. inp[i] \in R
        BY <2>2 DEF InpType
      <4>2. q = [inp[i] EXCEPT !.pc = pc, !.sent = sent]
        OBVIOUS
      <4> HIDE DEF sent, q
      <4> QED
        BY <4>1, <4>2, <3>2
    <3> HIDE DEF sent, q
    <3> QED
      BY <3>1, <3>2, <3>3 DEF InpType
  <2>4. \/ UNCHANGED cmds /\ inp' = [inp EXCEPT ![i] = r]
        \/ WriteRaw([cmd |-> shape, by |-> i]) /\ inp' = [inp EXCEPT ![i] = q]
    BY <1>18, <1>a DEF Send
  <2> HIDE DEF r, q
  <2> QED
    BY <1>a, <2>1, <2>3, <2>4, <2>5, SeqOps DEF WriteRaw
<1>19. ASSUME NEW i \in Input, InputCall(i) PROVE TypeInv'
  <2>1. pi' \in PiType
    BY <1>19, <1>a DEF InputCall, PiType
  <2>2. cmds' \in Seq(Cmd) /\ inp' \in [Input -> InpType]
    <3>1. CASE Send(i, "first", Shape(view.streaming))
      <4>1. Shape(view.streaming) \in {"prompt", "queue"}
        BY DEF Shape
      <4> QED
        BY <1>19, <3>1, <4>1, <1>18 DEF InputCall
    <3>2. CASE inp' = [inp EXCEPT ![i].pc = "done"] /\ UNCHANGED cmds
      <4>1. [inp[i] EXCEPT !.pc = "done"] \in InpType
        BY <1>a DEF InpType
      <4>2. inp' = [inp EXCEPT ![i] = [inp[i] EXCEPT !.pc = "done"]]
        BY <3>2
      <4> QED
        BY <1>a, <3>2, <4>1, <4>2
    <3> QED
      BY <1>19, <3>1, <3>2 DEF InputCall
  <2> QED
    BY <1>19, <2>1, <2>2 DEF InputCall, TypeInv
<1>20. ASSUME NEW i \in Input, InputRetry(i) PROVE TypeInv'
  <2> DEFINE shape == CHOOSE x \in {"queue", "prompt"} : x \notin inp[i].sent
  <2>1. \E x \in {"queue", "prompt"} : x \notin inp[i].sent
    BY <1>20, <1>a DEF InputRetry, InpType
  <2>2. shape \in {"queue", "prompt"} /\ Send(i, "second", shape)
    BY <1>20, <2>1 DEF InputRetry
  <2> HIDE DEF shape
  <2>3. cmds' \in Seq(Cmd) /\ inp' \in [Input -> InpType]
    BY <2>2, <1>a, <1>18, <1>20 DEF InputRetry
  <2> QED
    BY <1>20, <2>3 DEF InputRetry, TypeInv
<1>21. CASE UNCHANGED vars
  BY <1>21 DEF vars, TypeInv
<1> QED
  BY <1>1, <1>2, <1>3, <1>4, <1>5, <1>6, <1>8, <1>9, <1>10, <1>11, <1>12, <1>13, <1>14, <1>15,
     <1>16, <1>17, <1>19, <1>20, <1>21 DEF Next, Driver, Loop

(* TurnInv and PartInv are inductive.                                       *)
LEMMA TurnStep == TypeInv /\ TurnInv /\ [Next]_vars => TurnInv'
<1> SUFFICES ASSUME TypeInv, TurnInv, [Next]_vars PROVE TurnInv'
  OBVIOUS
<1> USE DEF piVars, drvVars
<1>a. view \in ViewType /\ count \in CountType
  BY DEF TypeInv
<1>1. ASSUME view'.ended = view.ended, UNCHANGED count PROVE TurnInv'
  BY <1>1 DEF TurnInv
<1>2. CASE ReadLine
  <2>1. CASE UNCHANGED <<view, count>>
    BY <2>1, <1>1
  <2>2. CASE Response(Head(out)) /\ Deliver(Head(out))
    <3> DEFINE line == Head(out)
    <3>1. line \in Said
      BY <1>2, Reads
    <3> HIDE DEF line
    <3>2. Response(line) /\ Deliver(line)
      BY <2>2 DEF line
    <3>3. /\ view' = Seen(view, line) /\ count' \in CountType /\ count'.ends = count.ends
          /\ IF Accepts(line) THEN count'.own + count'.other = count.own + count.other + 1
                              ELSE count'.own + count'.other = count.own + count.other
      BY <3>1, <3>2, Delivers
    <3>4. \/ view'.ended = view.ended /\ ~Accepts(line)
          \/ Accepts(line) /\ ~view'.ended
      BY <1>a, <3>1, <3>2, <3>3, Sees
    <3> QED
      BY <1>a, <3>3, <3>4 DEF TurnInv, CountType
  <2>3. CASE ~Response(Head(out)) /\ See(Seen(view, Head(out)))
    <3> DEFINE line == Head(out)
    <3>1. line \in Said
      BY <1>2, Reads
    <3>2. ~Response(line) /\ ~Accepts(line) /\ See(Seen(view, line))
      BY <2>3 DEF Accepts
    <3> HIDE DEF line
    <3>3. Seen(view, line) \in ViewType
      BY <1>a, <3>1, Sees
    <3>4. \/ Seen(view, line).turns = view.turns /\ Seen(view, line).ended = view.ended
          \/ /\ ~view.ended /\ Seen(view, line).ended
             /\ Seen(view, line).turns = Append(view.turns, "ended")
      BY <1>a, <3>1, <3>2, Sees
    <3> QED
      BY <3>2, <3>3, <3>4, Counts
  <2> QED
    BY <1>2, <2>1, <2>2, <2>3, Reads
<1>3. CASE GraceFires
  <2>1. /\ See(Verdict) /\ Verdict \in ViewType
        /\ \/ Verdict.turns = view.turns /\ Verdict.ended = view.ended
           \/ ~view.ended /\ Verdict.ended /\ Verdict.turns = Append(view.turns, "ended")
    BY <1>3, Verdicts
  <2> QED
    BY <2>1, Counts
<1>4. CASE Exited
  BY <1>1, <1>4, <1>a, Reported DEF Exited, Turn
<1>5. CASE OnAbort
  <2> DEFINE v == Emit(OpenGate(ClearGrace(view)), "aborted")
  <2>1. v \in ViewType /\ v.turns = Append(view.turns, "aborted") /\ v.ended = view.ended
    BY <1>a, Reported DEF Turn
  <2>2. UNCHANGED <<view, count>> \/ See(v)
    BY <1>5 DEF OnAbort
  <2> HIDE DEF v
  <2> QED
    BY <1>1, <2>1, <2>2, Counts
<1>6. CASE Register
  BY <1>1, <1>6, <1>a, Reported DEF Register, Construct, Turn
<1>7. CASE TurnEnd
  BY <1>1, <1>7, <1>a DEF TurnEnd, ViewType
<1>8. CASE PartialTimer \/ Workspace \/ RunChat \/ Closed \/ GateCeiling \/ Seeded
           \/ WritePrompt \/ Answered \/ CommitTransit \/ Finally
  BY <1>1, <1>8 DEF PartialTimer, Workspace, RunChat, Closed, GateCeiling, Seeded, WritePrompt,
     Answered, CommitTransit, Finally, LoopOnly
<1>9. CASE PiDies \/ AbortHook \/ Seal \/ (\E i \in Input : InputCall(i) \/ InputRetry(i))
           \/ UNCHANGED vars
  BY <1>1, <1>9 DEF PiDies, AbortHook, Seal, InputCall, InputRetry, vars
<1>10. CASE Pi
  BY <1>1, <1>10 DEF Pi, PiReads, PiStarts, PiUpdates, PiSpeaks, PiEnds, PiPostRun, PiResumes,
     PiSettles, PiStep
<1> QED
  BY <1>2, <1>3, <1>4, <1>5, <1>6, <1>7, <1>8, <1>9, <1>10 DEF Next, Driver, Loop

(* What is streamed or held stays ahead of the transcript.                  *)
LEMMA PartStep == TypeInv /\ PartInv /\ [Next]_vars => PartInv'
<1> SUFFICES ASSUME TypeInv, PartInv, [Next]_vars PROVE PartInv'
  OBVIOUS
<1> USE DEF piVars, drvVars
<1>1. ASSUME UNCHANGED <<part, logged, bubble>> PROVE PartInv'
  BY <1>1 DEF PartInv
<1>2. ASSUME part' = NoPart, UNCHANGED <<logged, bubble>> PROVE PartInv'
  BY <1>2 DEF PartInv, NoPart
<1>3. CASE ReadLine
  <2>1. CASE Deliver(Head(out))
    BY <2>1, <1>1 DEF Deliver
  <2> QED
    BY <1>1, <1>3, <2>1, Reads, PartOps
<1>4. CASE PartialTimer
  <2>1. CASE part.held = 0
    BY <1>2, <1>4, <2>1 DEF PartialTimer
  <2>2. CASE part.held # 0
    BY <1>4, <2>2 DEF PartialTimer, PartInv
  <2> QED
    BY <2>1, <2>2
<1>5. CASE Exited \/ OnAbort
  BY <1>1, <1>2, <1>5 DEF Exited, OnAbort, StopParts
<1>6. CASE GraceFires \/ Workspace \/ RunChat \/ Closed \/ GateCeiling \/ Seeded \/ Register
           \/ WritePrompt \/ Answered \/ CommitTransit \/ Finally \/ TurnEnd
  BY <1>1, <1>6 DEF GraceFires, Workspace, RunChat, Closed, GateCeiling, Seeded, Register,
     WritePrompt, Answered, CommitTransit, Finally, TurnEnd, LoopOnly
<1>7. CASE PiDies \/ AbortHook \/ Seal \/ (\E i \in Input : InputCall(i) \/ InputRetry(i))
           \/ UNCHANGED vars
  BY <1>1, <1>7 DEF PiDies, AbortHook, Seal, InputCall, InputRetry, vars
<1>8. CASE Pi
  BY <1>1, <1>8 DEF Pi, PiReads, PiStarts, PiUpdates, PiSpeaks, PiEnds, PiPostRun, PiResumes,
     PiSettles, PiStep
<1> QED
  BY <1>3, <1>4, <1>5, <1>6, <1>7, <1>8 DEF Next, Driver, Loop

-----------------------------------------------------------------------------
(* What was not calm does not become calm.                                  *)
LEMMA CalmBefore == TypeInv /\ [Next]_vars /\ Calm' => Calm
<1> SUFFICES ASSUME TypeInv, [Next]_vars, Calm' PROVE Calm
  OBVIOUS
<1> USE DEF piVars, drvVars
<1>a. inp \in [Input -> InpType] /\ out \in Seq(Said)
  BY DEF TypeInv
<1>1. ASSUME build' = build, hasty => hasty', \A i \in Input : inp[i].sent \subseteq inp'[i].sent
      PROVE  Calm
  BY <1>1 DEF Calm
<1>2. CASE ReadLine
  <2>1. UNCHANGED <<build, hasty>>
    BY <1>2, Reads
  <2>2. \A i \in Input : inp'[i].sent = inp[i].sent
    BY <1>2, Reads, Delivers
  <2> QED
    BY <1>1, <2>1, <2>2
<1>3. CASE GraceFires
  BY <1>1, <1>3 DEF GraceFires
<1>4. CASE Exited
  <2>1. \A i \in Input : inp'[i].sent = inp[i].sent
    BY <1>4, <1>a DEF Exited, InpType
  <2> QED
    BY <1>1, <1>4, <2>1 DEF Exited
<1>5. ASSUME UNCHANGED <<build, hasty, inp>> PROVE Calm
  BY <1>1, <1>5
<1>6. CASE PartialTimer \/ OnAbort \/ PiDies \/ AbortHook \/ Seal \/ UNCHANGED vars
  BY <1>5, <1>6 DEF PartialTimer, OnAbort, PiDies, AbortHook, Seal, vars
<1>7. CASE Workspace \/ RunChat \/ Closed \/ GateCeiling \/ Seeded \/ Register
           \/ WritePrompt \/ Answered \/ CommitTransit \/ Finally \/ TurnEnd
  BY <1>5, <1>7 DEF Workspace, RunChat, Closed, GateCeiling, Seeded, Register, WritePrompt,
     Answered, CommitTransit, Finally, TurnEnd, LoopOnly
<1>8. CASE Pi
  BY <1>5, <1>8 DEF Pi, PiReads, PiStarts, PiUpdates, PiSpeaks, PiEnds, PiPostRun, PiResumes,
     PiSettles, PiStep
<1>9. ASSUME NEW i \in Input, InputCall(i) \/ InputRetry(i) PROVE Calm
  <2>1. \/ inp' = [inp EXCEPT ![i].pc = "done"]
        \/ \E pc, shape : inp' = [inp EXCEPT ![i].pc = pc, ![i].sent = @ \cup {shape}]
    BY <1>9 DEF InputCall, InputRetry, Send
  <2>2. \A j \in Input : inp[j].sent \subseteq inp'[j].sent
    <3>a. inp[i] \in [pc : {"new", "first", "rejected", "second", "done"},
                      sent : SUBSET {"prompt", "queue"}]
      BY <1>a DEF InpType
    <3>1. CASE inp' = [inp EXCEPT ![i].pc = "done"]
      <4> DEFINE r == [inp[i] EXCEPT !.pc = "done"]
      <4>1. inp' = [inp EXCEPT ![i] = r] /\ r.sent = inp[i].sent
        BY <3>1, <3>a
      <4> HIDE DEF r
      <4> QED
        BY <1>a, <4>1
    <3>2. ASSUME NEW pc, NEW shape,
                 inp' = [inp EXCEPT ![i].pc = pc, ![i].sent = @ \cup {shape}]
          PROVE  \A j \in Input : inp[j].sent \subseteq inp'[j].sent
      <4> DEFINE r == [inp[i] EXCEPT !.pc = pc, !.sent = @ \cup {shape}]
      <4>1. inp' = [inp EXCEPT ![i] = r] /\ r.sent = inp[i].sent \cup {shape}
        BY <3>2, <3>a
      <4> HIDE DEF r
      <4> QED
        BY <1>a, <4>1
    <3> QED
      BY <2>1, <3>1, <3>2
  <2> QED
    BY <1>1, <1>9, <2>2 DEF InputCall, InputRetry
<1> QED
  BY <1>2, <1>3, <1>4, <1>6, <1>7, <1>8, <1>9 DEF Next, Driver, Loop

(* A grace that is not hasty finds a dead pi only.                          *)
LEMMA NotHasty ==
    ASSUME TypeInv, GraceInv, GraceFires, ~hasty', view.support = "unknown"
    PROVE  pi.phase = "dead"
<1>1. /\ view.grace \in {"armed", "extended"} /\ out = <<>>
      /\ Running => pi.phase \in {"sleep", "compacting"}
      /\ ~(view.grace = "extended" /\ pi.phase = "sleep")
  BY DEF GraceFires, ShortPause
<1>2. \A i \in 1..Len(out) : FALSE
  BY <1>1
<1>3. pi.phase # "sleep" /\ pi.phase # "compacting" /\ pi.phase # "idle"
  BY <1>1, <1>2 DEF GraceInv, Pending
<1> QED
  BY <1>1, <1>3 DEF Running

(* What a lemma below needs of a step of input().                           *)
LEMMA Inputs ==
    ASSUME TypeInv, Calm', NEW i \in Input, InputCall(i) \/ InputRetry(i)
    PROVE  /\ pi'.phase = pi.phase /\ UNCHANGED <<out, view, life, loop>>
           /\ \/ UNCHANGED cmds
              \/ cmds' = Append(cmds, [cmd |-> "queue", by |-> i])
<1>a. inp \in [Input -> InpType] /\ pi \in PiType
  BY DEF TypeInv
<1>1. pi'.phase = pi.phase /\ UNCHANGED <<out, view, life, loop>>
  BY <1>a DEF InputCall, InputRetry, drvVars, PiType
<1>2. ASSUME NEW shape \in {"prompt", "queue"}, NEW pc, Send(i, pc, shape)
      PROVE  UNCHANGED cmds \/ cmds' = Append(cmds, [cmd |-> "queue", by |-> i])
  <2>1. CASE UNCHANGED cmds
    BY <2>1
  <2>2. CASE /\ inp' = [inp EXCEPT ![i].pc = pc, ![i].sent = @ \cup {shape}]
             /\ WriteRaw([cmd |-> shape, by |-> i])
    <3>1. shape \in inp'[i].sent
      BY <1>a, <2>2 DEF InpType
    <3>2. shape # "prompt"
      BY <3>1 DEF Calm
    <3> QED
      BY <2>2, <3>2 DEF WriteRaw
  <2> QED
    BY <1>2, <2>1, <2>2 DEF Send
<1>3. CASE InputCall(i)
  BY <1>1, <1>2, <1>3 DEF InputCall, Shape
<1>4. CASE InputRetry(i)
  <2> DEFINE shape == CHOOSE x \in {"queue", "prompt"} : x \notin inp[i].sent
  <2>1. \E x \in {"queue", "prompt"} : x \notin inp[i].sent
    BY <1>4, <1>a DEF InputRetry, InpType
  <2>2. shape \in {"queue", "prompt"} /\ Send(i, "second", shape)
    BY <1>4, <2>1 DEF InputRetry
  <2> HIDE DEF shape
  <2> QED
    BY <1>1, <1>2, <2>2
<1> QED
  BY <1>3, <1>4

(* A step that no line and no command goes with: it may only close the gate, *)
(* stop the grace, or be the end of pi.                                      *)
Quiet ==
    /\ UNCHANGED <<build, cmds, out>>
    /\ pi'.phase \in {pi.phase, "dead"}
    /\ life.aborted => life'.aborted
    /\ life'.exited => life.exited \/ pi'.phase = "dead"
    /\ loop'.got # "busy" /\ ~loop'.ceiling
    /\ pi'.phase # "dead" =>
          /\ view'.support = view.support /\ view'.grace \in {view.grace, "off"}
          /\ loop.pc = "ack" => loop'.pc = "ack"
          /\ ~life'.aborted => /\ view'.settled => view.settled
                               /\ loop'.pc = "write" =>
                                     loop.pc = "write" \/ (loop.pc # "ack" /\ view.settled)
LEMMA QuietKeeps ==
    ASSUME TypeInv, TypeInv', CallsInv, GateInv, GraceInv, Quiet
    PROVE  CallsInv' /\ GateInv' /\ GraceInv'
<1>1. CallsInv'
  <2>1. ASSUME pi'.phase # "dead" PROVE pi.phase # "dead" /\ pi'.phase = pi.phase
    BY <2>1 DEF Quiet
  <2> QED
    BY <2>1 DEF CallsInv, Quiet, Running
<1>2. GateInv'
  <2>1. ASSUME pi'.phase # "dead" PROVE pi.phase # "dead" /\ Running' = Running
    BY <2>1 DEF Quiet, Running
  <2>2. CASE pi'.phase = "dead"
    BY <2>2 DEF GateInv, Running
  <2>3. CASE pi'.phase # "dead"
    <3>1. view.settled /\ ~life'.aborted /\ Running => loop.pc = "ack"
      BY <2>1, <2>3 DEF GateInv, CallsInv, Quiet
    <3> QED
      BY <2>1, <2>3, <3>1 DEF GateInv, Quiet
  <2> QED
    BY <2>2, <2>3
<1>3. GraceInv'
  <2>1. CASE pi'.phase = "dead"
    BY <2>1 DEF GraceInv
  <2>2. CASE pi'.phase # "dead"
    BY <2>2 DEF GraceInv, Quiet, Pending
  <2> QED
    BY <2>1, <2>2
<1> QED
  BY <1>1, <1>2, <1>3

(* The moves of runTurns but for the prompt it writes.                      *)
LEMMA LoopIsQuiet ==
    ASSUME TypeInv, CallsInv, GateInv, Loop, ~WritePrompt
    PROVE  Quiet
<1> USE DEF piVars, drvVars
<1>a. /\ loop \in LoopType /\ life \in LifeType /\ view \in ViewType /\ pi \in PiType
      /\ loop.got # "busy" /\ ~loop.ceiling /\ (life.exited => pi.phase = "dead")
  BY DEF TypeInv, CallsInv
<1>1. ASSUME UNCHANGED <<build, cmds, out, pi, life>>, loop.pc # "ack",
             view'.support = view.support, view'.grace = view.grace,
             view'.settled = view.settled,
             loop'.got # "busy", ~loop'.ceiling,
             loop'.pc = "write" =>
                loop.pc = "write" \/ life.aborted \/ life.exited \/ view.settled
      PROVE  Quiet
  BY <1>1, <1>a DEF Quiet
<1>2. ASSUME NEW pc, loop' = [loop EXCEPT !.pc = pc]
      PROVE  loop'.pc = pc /\ loop'.got # "busy" /\ ~loop'.ceiling
  BY <1>2, <1>a DEF LoopType
<1>3. ASSUME NEW corr, loop' = [loop EXCEPT !.pc = Gate, !.corr = corr]
      PROVE  /\ loop'.got # "busy" /\ ~loop'.ceiling
             /\ loop'.pc = "write" => life.aborted \/ life.exited \/ view.settled
  <2>1. loop'.pc = Gate /\ loop'.got = loop.got /\ loop'.ceiling = loop.ceiling
    BY <1>3, <1>a DEF LoopType
  <2> QED
    BY <1>a, <2>1 DEF Gate
<1>4. CASE Workspace
  <2>1. PICK pc \in {"mcp", "done"} : loop' = [loop EXCEPT !.pc = pc]
    BY <1>4 DEF Workspace, Goto
  <2>2. loop'.pc = pc /\ loop'.got # "busy" /\ ~loop'.ceiling
    BY <1>2, <2>1
  <2> QED
    BY <1>1, <1>4, <2>1, <2>2 DEF Workspace, LoopOnly
<1>5. CASE RunChat
  <2>1. loop'.pc = "finally" /\ loop'.got # "busy" /\ ~loop'.ceiling
    BY <1>2, <1>5 DEF RunChat, Goto
  <2> QED
    BY <1>1, <1>5, <2>1 DEF RunChat, LoopOnly
<1>6. CASE Closed
  <2>1. loop'.pc = "done" /\ loop'.got # "busy" /\ ~loop'.ceiling
    BY <1>2, <1>6 DEF Closed, Goto
  <2> QED
    BY <1>1, <1>6, <2>1 DEF Closed, LoopOnly
<1>7. CASE Seeded
  <2>1. loop' = [loop EXCEPT !.pc = Gate, !.corr = 0]
    BY <1>7 DEF Seeded, SendPrompt
  <2> QED
    BY <1>1, <1>3, <1>7, <2>1 DEF Seeded, LoopOnly
<1>8. CASE GateCeiling
  BY <1>8, <1>a DEF GateCeiling
<1>9. CASE Answered
  <2> DEFINE next == [Cancelled(loop) EXCEPT !.got = "none", !.try = 1]
  <2>1. loop' \in {[next EXCEPT !.pc = "await"], [next EXCEPT !.pc = "finally"]}
    BY <1>9, <1>a DEF Answered
  <2>2. next.got = "none" /\ next.ceiling = FALSE /\ next \in LoopType
    BY <1>a DEF Cancelled, LoopType
  <2> HIDE DEF next
  <2>3. loop'.pc \in {"await", "finally"} /\ loop'.got = "none" /\ ~loop'.ceiling
    BY <2>1, <2>2 DEF LoopType
  <2> QED
    BY <1>1, <1>9, <2>3 DEF Answered, LoopOnly
<1>10. CASE CommitTransit
  <2>1. \/ loop' = [loop EXCEPT !.pc = "finally"]
        \/ loop' = [loop EXCEPT !.pc = Gate, !.corr = loop.corr + 1]
    BY <1>10 DEF CommitTransit, Goto, SendPrompt
  <2>2. /\ loop'.got # "busy" /\ ~loop'.ceiling
        /\ loop'.pc = "write" => life.aborted \/ life.exited \/ view.settled
    BY <1>2, <1>3, <2>1
  <2> QED
    BY <1>1, <1>10, <2>2 DEF CommitTransit
<1>11. CASE Finally
  <2>1. PICK pc \in {"done", "closing"} : loop' = [loop EXCEPT !.pc = pc]
    BY <1>11 DEF Finally, Goto
  <2>2. loop'.pc = pc /\ loop'.got # "busy" /\ ~loop'.ceiling
    BY <1>2, <2>1
  <2>3. life'.aborted = life.aborted /\ life'.exited = life.exited /\ loop.pc = "finally"
        /\ UNCHANGED <<build, cmds, out, pi, view>>
    BY <1>11, <1>a DEF Finally, LifeType
  <2> QED
    BY <1>a, <2>2, <2>3 DEF Quiet
<1>12. CASE TurnEnd
  <2>1. \/ \E pc \in {"commit", "finally"} : loop' = [loop EXCEPT !.pc = pc]
        \/ loop' = [loop EXCEPT !.pc = Gate, !.corr = loop.corr + 1]
    BY <1>12 DEF TurnEnd, Goto, SendPrompt
  <2>2. /\ loop'.got # "busy" /\ ~loop'.ceiling
        /\ loop'.pc = "write" => life.aborted \/ life.exited \/ view.settled
    BY <1>2, <1>3, <2>1
  <2>3. view'.support = view.support /\ view'.grace = view.grace /\ view'.settled = view.settled
    BY <1>12, <1>a DEF TurnEnd, ViewType
  <2> QED
    BY <1>1, <1>12, <2>2, <2>3 DEF TurnEnd
<1>13. CASE Register
  <2>1. PICK pc \in {"chat", "seed"} : loop' = [loop EXCEPT !.pc = pc]
    BY <1>13 DEF Register, Goto
  <2>2. loop'.pc = pc /\ loop'.got # "busy" /\ ~loop'.ceiling
    BY <1>2, <2>1
  <2>3. CASE life.aborted
    <3>1. pi'.phase = "dead" /\ UNCHANGED <<build, cmds, out, life>>
      BY <1>13, <1>a, <2>3 DEF Register, Construct, Busy, PiType
    <3> QED
      BY <1>a, <2>2, <3>1 DEF Quiet
  <2>4. CASE ~life.aborted
    BY <1>1, <1>13, <2>2, <2>4 DEF Register, Construct
  <2> QED
    BY <2>3, <2>4
<1> QED
  BY <1>4, <1>5, <1>6, <1>7, <1>8, <1>9, <1>10, <1>11, <1>12, <1>13 DEF Loop

(* So are the timers, the end of pi and what ends the session.               *)
LEMMA EndIsQuiet ==
    ASSUME TypeInv, CallsInv, GateInv, GraceInv, ~hasty',
           \/ GraceFires \/ PartialTimer \/ Exited \/ PiDies \/ OnAbort \/ AbortHook \/ Seal
           \/ UNCHANGED vars
    PROVE  Quiet
<1> USE DEF piVars, drvVars
<1>a. /\ loop \in LoopType /\ life \in LifeType /\ view \in ViewType /\ pi \in PiType
      /\ loop.got # "busy" /\ ~loop.ceiling /\ (life.exited => pi.phase = "dead")
  BY DEF TypeInv, CallsInv
<1>1. CASE PartialTimer \/ Seal \/ UNCHANGED vars
  BY <1>1, <1>a DEF PartialTimer, Seal, vars, Quiet
<1>2. CASE AbortHook
  <2>1. life'.aborted = life.aborted /\ life'.exited = life.exited
    BY <1>2, <1>a DEF AbortHook, LifeType
  <2> QED
    BY <1>2, <1>a, <2>1 DEF AbortHook, Quiet
<1>3. CASE PiDies
  <2>1. pi'.phase = "dead"
    BY <1>3, <1>a DEF PiDies, Busy, PiType
  <2> QED
    BY <1>3, <1>a, <2>1 DEF PiDies, Quiet
<1>4. CASE Exited
  <2>1. pi'.phase = "dead" /\ life'.aborted = life.aborted /\ UNCHANGED <<build, cmds, out>>
    BY <1>4, <1>a DEF Exited, LifeType
  <2>2. loop'.got # "busy" /\ ~loop'.ceiling
    BY <1>4, <1>a DEF Exited, LoopType
  <2> QED
    BY <2>1, <2>2 DEF Quiet
<1>5. CASE OnAbort
  <2>1. life'.aborted = TRUE /\ life'.exited = life.exited /\ UNCHANGED <<build, cmds, out, pi>>
    BY <1>5, <1>a DEF OnAbort, LifeType
  <2>2. CASE ~Spawned
    BY <1>5, <1>a, <2>1, <2>2 DEF OnAbort, Quiet
  <2>3. CASE Spawned
    <3> DEFINE v == ClearGrace(view)
               w == Emit(OpenGate(v), "aborted")
    <3>1. v \in ViewType /\ v.support = view.support /\ v.grace = "off" /\ "aborted" \in Turn
      BY <1>a, ViewOps DEF ViewType, Turn
    <3>2. w \in ViewType /\ w.support = v.support /\ w.grace = v.grace
      BY <3>1, Reported
    <3>3. See(w)
      BY <1>5, <2>3 DEF OnAbort
    <3> HIDE DEF w, v
    <3>4. view' = w /\ loop'.got = loop.got /\ (loop'.ceiling => loop.ceiling)
          /\ (loop.pc = "ack" => loop'.pc = "ack")
      BY <3>2, <3>3, SeeOps
    <3> QED
      BY <1>a, <2>1, <3>1, <3>2, <3>4 DEF Quiet
  <2> QED
    BY <2>2, <2>3
<1>6. CASE GraceFires
  <2> DEFINE w == Verdict
  <2>1. See(w) /\ w \in ViewType /\ w.grace = "off"
        /\ (view.support # "unknown" => w.settled = view.settled /\ w.support = view.support)
    BY <1>6, Verdicts
  <2> HIDE DEF w
  <2>2. /\ view' = w /\ loop'.got = loop.got /\ (loop'.ceiling => loop.ceiling)
        /\ IF w.settled /\ loop.pc = "gate" THEN loop'.pc = "write" ELSE loop'.pc = loop.pc
    BY <2>1, SeeOps
  <2>3. UNCHANGED <<build, cmds, out, pi, life>>
    BY <1>6 DEF GraceFires
  <2>4. CASE view.support = "unknown"
    <3>1. pi.phase = "dead"
      BY <1>6, <2>4, NotHasty
    <3> QED
      BY <1>a, <2>2, <2>3, <3>1 DEF Quiet
  <2>5. CASE view.support # "unknown"
    BY <1>a, <2>1, <2>2, <2>3, <2>5 DEF Quiet
  <2> QED
    BY <2>4, <2>5
<1> QED
  BY <1>1, <1>2, <1>3, <1>4, <1>5, <1>6

(* A command goes out: that of runTurns to a pi that is idle.               *)
LEMMA Writes ==
    ASSUME TypeInv, CallsInv, GateInv, GraceInv, NEW c \in Cmd, cmds' = Append(cmds, c),
           UNCHANGED <<build, out, view>>, pi'.phase = pi.phase,
           life'.exited = life.exited, life'.aborted = life.aborted,
           loop'.got = loop.got, loop'.ceiling = loop.ceiling,
           \/ c.cmd = "queue" /\ c.by # "loop" /\ loop'.pc = loop.pc
           \/ /\ c.cmd = "prompt" /\ c.by = "loop" /\ loop.pc = "write" /\ loop'.pc = "ack"
              /\ ~life.aborted
    PROVE  CallsInv' /\ GateInv' /\ GraceInv'
<1> DEFINE N == Len(cmds)
<1>1. /\ N \in Nat /\ Len(cmds') = N + 1 /\ cmds'[N + 1] = c
      /\ \A i \in 1..N : cmds'[i] = cmds[i]
  BY SeqOps DEF TypeInv
<1>2. \A i \in 1..(N + 1) : i \in 1..N \/ i = N + 1
  BY <1>1
<1> HIDE DEF N
<1>3. Running' = Running
  BY DEF Running
<1>4. Asks(c) <=> c.by = "loop"
  BY DEF Asks, Cmd
<1>5. \A i \in 1..Len(cmds') : Asks(cmds'[i]) <=> cmds'[i].by = "loop"
  BY <1>1, <1>2, <1>4 DEF CallsInv, N
<1>6. CASE Asks(c)
  <2>1. loop.pc = "write" /\ loop'.pc = "ack" /\ ~Running
    BY <1>6 DEF Asks, GateInv
  <2>2. pi.phase # "dead" => \A i \in 1..N : ~Asks(cmds[i])
    BY <2>1 DEF CallsInv, N
  <2>3. pi.phase # "dead" => \A i \in 1..Len(out) : ~Accepts(out[i])
    BY <2>1 DEF CallsInv
  <2>4. CallsInv'
    BY <1>1, <1>2, <1>3, <1>5, <2>1, <2>2, <2>3 DEF CallsInv
  <2>5. GateInv'
    BY <1>3, <2>1 DEF GateInv
  <2>6. GraceInv'
    BY DEF GraceInv, Pending
  <2> QED
    BY <2>4, <2>5, <2>6
<1>7. CASE ~Asks(c)
  <2>1. loop'.pc = loop.pc
    BY <1>7 DEF Asks
  <2>2. \A i \in 1..Len(cmds') : Asks(cmds'[i]) => i \in 1..N /\ cmds'[i] = cmds[i]
    BY <1>1, <1>2, <1>7
  <2>3. CallsInv'
    BY <1>3, <1>5, <2>1, <2>2 DEF CallsInv, N
  <2>4. GateInv'
    BY <1>3, <2>1 DEF GateInv
  <2>5. GraceInv'
    BY DEF GraceInv, Pending
  <2> QED
    BY <2>3, <2>4, <2>5
<1> QED
  BY <1>6, <1>7

(* A line is read.                                                          *)
LEMMA ReadKeeps ==
    ASSUME TypeInv, CallsInv, GateInv, GraceInv, ReadLine
    PROVE  CallsInv' /\ GateInv' /\ GraceInv'
<1> DEFINE line == Head(out)
           N == Len(out)
<1>a. /\ loop \in LoopType /\ life \in LifeType /\ view \in ViewType /\ pi \in PiType
  BY DEF TypeInv
<1>1. /\ out # <<>> /\ out' = Tail(out) /\ line \in Said
      /\ UNCHANGED <<build, hasty, pi, cmds, life, sealed>>
  BY Reads
<1>2. /\ N \in Nat /\ N > 0 /\ line = out[1] /\ Len(out') = N - 1
      /\ \A i \in 1..(N - 1) : out'[i] = out[i + 1]
  BY <1>1, SeqOps DEF TypeInv
<1> HIDE DEF N
<1>3. /\ 1 \in 1..N
      /\ \A i \in 1..(N - 1) : i + 1 \in 1..N /\ i + 1 # 1
      /\ \A i, j \in 1..(N - 1) : /\ j + 1 = i + 1 => j = i
                                 /\ j > i <=> j + 1 > i + 1
      /\ \A j \in 1..N : j = 1 \/ (j - 1 \in 1..(N - 1) /\ (j - 1) + 1 = j)
      /\ \A j \in 1..N : j > 1 <=> j # 1
  BY <1>2
<1>4. \A j \in 1..N : j = 1 \/ \E i \in 1..(N - 1) : j = i + 1 /\ out'[i] = out[j]
  BY <1>2, <1>3
<1>5. Running' = Running /\ pi'.phase = pi.phase
  BY <1>1 DEF Running
<1> DEFINE Unheard == Response(line) /\ life.exited /\ UNCHANGED <<view, loop>>
<1>6. \/ Unheard
      \/ /\ view' = Seen(view, line) /\ loop' \in LoopType /\ (loop'.ceiling => loop.ceiling)
         /\ Response(line) /\ line.by = "loop" => loop'.pc = "answered" /\ loop'.got = line.ok
         /\ ~(Response(line) /\ line.by = "loop") =>
               /\ loop'.got = loop.got
               /\ IF view'.settled /\ loop.pc = "gate" THEN loop'.pc = "write"
                                                      ELSE loop'.pc = loop.pc
  <2>1. CASE Deliver(line) /\ Response(line)
    BY <1>1, <2>1, Delivers
  <2>2. CASE See(Seen(view, line)) /\ ~Response(line)
    <3>1. Seen(view, line) \in ViewType
      BY <1>1, <1>a, Sees
    <3> QED
      BY <2>2, <3>1, SeeOps
  <2> QED
    BY <2>1, <2>2, Reads
<1> HIDE DEF line
<1>7. /\ Response(line) => line.ok # "busy" /\ (Accepts(line) <=> line.by = "loop")
      /\ ~Response(line) => line.ok # "busy" /\ ~Accepts(line)
  BY <1>1, <1>2, <1>3 DEF CallsInv, Response, Accepts, Said, N
<1>8. /\ view'.settled => (view.settled /\ ~Accepts(line)) \/ Opens(line) \/ pi.phase = "dead"
      /\ view'.support = "legacy" => pi.phase = "dead"
      /\ pi.phase # "dead" /\ view'.support = "unknown" =>
            /\ view.support = "unknown" /\ line.kind # "agent_settled"
            /\ Response(line) => view'.grace = view.grace
            /\ line.kind = "retry" => view'.grace # "armed"
            /\ line.kind = "compaction_start" => view'.grace \in {"off", "suspended"}
            /\ view.grace = "off" /\ line.kind # "agent_end" => view'.grace = "off"
  <2>1. CASE Unheard
    BY <1>7, <2>1 DEF CallsInv, GraceInv
  <2>2. CASE view' = Seen(view, line)
    BY <1>1, <1>7, <1>a, <2>2, Sees DEF GraceInv
  <2> QED
    BY <1>6, <2>1, <2>2
<1>9. CallsInv'
  <2>1. loop'.got # "busy" /\ ~loop'.ceiling
    BY <1>6, <1>7, <1>a DEF CallsInv
  <2>2. \A i \in 1..Len(out') : Response(out'[i]) =>
           out'[i].ok # "busy" /\ (Accepts(out'[i]) <=> out'[i].by = "loop")
    BY <1>2, <1>3 DEF CallsInv, N
  <2>3. ASSUME pi.phase # "dead", NEW i \in 1..Len(cmds), Asks(cmds[i])
        PROVE  /\ loop'.pc = "ack" /\ ~Running
               /\ \A j \in 1..Len(cmds) : Asks(cmds[j]) => j = i
               /\ \A j \in 1..Len(out') : ~Accepts(out'[j])
    <3>1. /\ loop.pc = "ack" /\ ~Running /\ \A j \in 1..Len(cmds) : Asks(cmds[j]) => j = i
          /\ \A j \in 1..N : ~Accepts(out[j])
      BY <2>3 DEF CallsInv, N
    <3>2. ~Accepts(line)
      BY <1>2, <1>3, <3>1
    <3>3. loop'.pc = "ack"
      BY <1>6, <1>7, <3>1, <3>2
    <3> QED
      BY <1>2, <1>3, <3>1, <3>3
  <2>4. ASSUME pi.phase # "dead", NEW i \in 1..Len(out'), Accepts(out'[i])
        PROVE  /\ loop'.pc = "ack"
               /\ \A j \in 1..Len(out') : Accepts(out'[j]) => j = i
    <3>1. i + 1 \in 1..N /\ Accepts(out[i + 1])
      BY <1>2, <1>3, <2>4
    <3>2. loop.pc = "ack" /\ \A j \in 1..N : Accepts(out[j]) => j = i + 1
      BY <2>4, <3>1 DEF CallsInv, N
    <3>3. ~Accepts(line)
      BY <1>2, <1>3, <3>2
    <3>4. loop'.pc = "ack"
      BY <1>6, <1>7, <3>2, <3>3
    <3> QED
      BY <1>2, <1>3, <3>2, <3>4
  <2> QED
    BY <1>1, <1>5, <2>1, <2>2, <2>3, <2>4 DEF CallsInv
<1>10. ASSUME Running, NEW j \in 1..N, Accepts(out[j])
       PROVE  loop.pc = "ack" /\ (j # 1 => \E i \in 1..Len(out') : Accepts(out'[i]))
  <2>1. loop.pc = "ack"
    BY <1>10 DEF CallsInv, Running, N
  <2> QED
    BY <1>2, <1>4, <1>10, <2>1
<1>11. ASSUME Running, view'.settled, ~life.aborted
       PROVE  loop.pc = "ack" /\ \E i \in 1..Len(out') : Accepts(out'[i])
  <2>1. CASE view.settled /\ ~Accepts(line)
    <3>1. PICK j \in 1..N : Accepts(out[j])
      BY <1>11, <2>1 DEF GateInv, N
    <3>2. j # 1
      BY <1>2, <2>1, <3>1
    <3> QED
      BY <1>10, <1>11, <3>1, <3>2
  <2>2. CASE Opens(line)
    <3>1. PICK j \in 1..N : j > 1 /\ Accepts(out[j])
      BY <1>2, <1>3, <1>11, <2>2 DEF GateInv, N
    <3> QED
      BY <1>3, <1>10, <1>11, <3>1
  <2> QED
    BY <1>8, <1>11, <2>1, <2>2 DEF Running
<1>12. GateInv'
  <2>1. loop'.pc = "write" /\ ~life.aborted => ~Running
    <3>1. SUFFICES ASSUME loop'.pc = "write", ~life.aborted, Running PROVE FALSE
      OBVIOUS
    <3>2. loop.pc # "write"
      BY <3>1 DEF GateInv
    <3>3. ~Unheard
      BY <3>1 DEF CallsInv, Running
    <3>4. view'.settled /\ loop.pc = "gate"
      BY <1>6, <3>1, <3>2, <3>3
    <3> QED
      BY <1>11, <3>1, <3>4
  <2>2. ASSUME Running, NEW i \in 1..Len(out'), Opens(out'[i])
        PROVE  \E j \in 1..Len(out') : j > i /\ Accepts(out'[j])
    <3>1. i + 1 \in 1..N /\ Opens(out[i + 1])
      BY <1>2, <1>3, <2>2
    <3>2. PICK j \in 1..N : j > i + 1 /\ Accepts(out[j])
      BY <2>2, <3>1 DEF GateInv, N
    <3>3. j # 1 /\ j - 1 \in 1..(N - 1) /\ j - 1 > i /\ (j - 1) + 1 = j
      BY <1>2, <2>2, <3>2
    <3> QED
      BY <1>2, <3>2, <3>3
  <2> QED
    BY <1>1, <1>5, <1>11, <2>1, <2>2 DEF GateInv
<1>13. GraceInv'
  <2>1. CASE pi.phase = "dead"
    BY <1>5, <2>1 DEF GraceInv
  <2>2. CASE pi.phase # "dead" /\ view'.support # "unknown"
    BY <1>5, <1>8, <2>2 DEF GraceInv
  <2>3. CASE pi.phase # "dead" /\ view'.support = "unknown"
    <3>1. ASSUME NEW kind, Pending(kind)
          PROVE  \/ Pending(kind)'
                 \/ line.kind = kind /\ \A i \in 1..Len(out') : Response(out'[i])
      <4>1. PICK i \in 1..N : out[i].kind = kind /\ \A j \in 1..N : j > i => Response(out[j])
        BY <3>1 DEF Pending, N
      <4>2. CASE i = 1
        BY <1>2, <1>3, <4>1, <4>2
      <4>3. CASE i # 1
        <5>1. /\ i - 1 \in 1..Len(out') /\ out'[i - 1] = out[i]
              /\ \A j \in 1..Len(out') : j > i - 1 => j + 1 > i
          BY <1>2, <1>3, <4>1, <4>3
        <5>2. \A j \in 1..Len(out') : j > i - 1 => Response(out'[j])
          BY <1>2, <1>3, <4>1, <5>1
        <5> QED
          BY <4>1, <5>1, <5>2 DEF Pending
      <4> QED
        BY <4>2, <4>3
    <3>2. ASSUME \A i \in 1..N : Response(out[i])
          PROVE  Response(line) /\ \A i \in 1..Len(out') : Response(out'[i])
      BY <1>2, <1>3, <3>2
    <3>3. pi.phase = "sleep" =>
             \/ Pending("retry")'
             \/ view'.grace # "armed" /\ \A i \in 1..Len(out') : Response(out'[i])
      BY <1>8, <2>3, <3>1, <3>2 DEF GraceInv, N
    <3>4. pi.phase = "compacting" =>
             \/ Pending("compaction_start")'
             \/ view'.grace \in {"off", "suspended"} /\ \A i \in 1..Len(out') : Response(out'[i])
      BY <1>8, <2>3, <3>1, <3>2 DEF GraceInv, N
    <3>5. pi.phase = "idle" =>
             \/ \E i \in 1..Len(out') : out'[i].kind = "agent_settled"
             \/ view'.grace = "off" /\ \A i \in 1..Len(out') : out'[i].kind # "agent_end"
      <4>1. CASE \E i \in 1..N : out[i].kind = "agent_settled"
        BY <1>2, <1>4, <1>8, <2>3, <4>1
      <4>2. CASE view.grace = "off" /\ \A i \in 1..N : out[i].kind # "agent_end"
        BY <1>2, <1>3, <1>8, <2>3, <4>2
      <4> QED
        BY <1>8, <2>3, <4>1, <4>2 DEF GraceInv, N
    <3> QED
      BY <1>5, <2>3, <3>3, <3>4, <3>5 DEF GraceInv
  <2> QED
    BY <2>1, <2>2, <2>3
<1> QED
  BY <1>9, <1>12, <1>13

(* pi gets on with a run.                                                   *)
LEMMA MovesKeep ==
    ASSUME TypeInv, Calm, CallsInv, GateInv, GraceInv, Pi, ~PiReads
    PROVE  CallsInv' /\ GateInv' /\ GraceInv'
<1> DEFINE N == Len(out)
<1>1. UNCHANGED cmds /\ Running
  BY PiMoves
<1>2. PICK next \in PiType, lines \in Seq(Said) :
         /\ PiStep(next, lines)
         /\ \A i \in 1..Len(lines) :
               /\ ~Response(lines[i])
               /\ lines[i].kind = "agent_settled" => next.phase = "idle"
         /\ \/ next.phase \in {"accepted", "run", "post"}
            \/ next.phase = "sleep" /\ Len(lines) = 1 /\ lines[1].kind = "retry"
            \/ /\ next.phase = "compacting"
               /\ Len(lines) = 1 /\ lines[1].kind = "compaction_start"
            \/ /\ next.phase = "idle"
               /\ build = "modern" => Len(lines) = 1 /\ lines[1].kind = "agent_settled"
  BY PiMoves
<1>3. /\ pi' = next
      /\ N \in Nat /\ Len(lines) \in Nat /\ Len(out') = N + Len(lines)
      /\ \A i \in 1..N : i \in 1..Len(out') /\ out'[i] = out[i]
      /\ \A i \in 1..Len(lines) : N + i \in 1..Len(out') /\ out'[N + i] = lines[i]
      /\ \A i \in 1..Len(out') : i \in 1..N \/ \E k \in 1..Len(lines) : i = N + k
      /\ UNCHANGED <<build, view, life, loop>>
  BY <1>2, PiSays, LenProperties DEF PiStep, drvVars, TypeInv
<1> HIDE DEF N
<1>4. \A i \in 1..Len(out') : \/ i \in 1..N /\ out'[i] = out[i]
                              \/ /\ ~Response(out'[i])
                                 /\ out'[i].kind = "agent_settled" => pi'.phase = "idle"
  BY <1>2, <1>3
<1>5. pi.phase # "dead" /\ \A i \in 1..Len(cmds) : ~Asks(cmds[i])
  BY <1>1 DEF CallsInv, Running
<1>6. CallsInv'
  <2>1. \A i \in 1..Len(out') : Response(out'[i]) \/ Accepts(out'[i]) =>
           i \in 1..N /\ out'[i] = out[i]
    BY <1>4 DEF Accepts
  <2>2. \A i \in 1..Len(out') : Response(out'[i]) =>
           out'[i].ok # "busy" /\ (Accepts(out'[i]) <=> out'[i].by = "loop")
    BY <2>1 DEF CallsInv, N
  <2>3. ASSUME NEW i \in 1..Len(out'), Accepts(out'[i])
        PROVE  loop.pc = "ack" /\ \A j \in 1..Len(out') : Accepts(out'[j]) => j = i
    BY <1>5, <2>1, <2>3 DEF CallsInv, N
  <2>4. loop.got # "busy" /\ ~loop.ceiling /\ ~life.exited
        /\ \A i \in 1..Len(cmds) : Asks(cmds[i]) <=> cmds[i].by = "loop"
    BY <1>5 DEF CallsInv
  <2> QED
    BY <1>1, <1>3, <1>5, <2>2, <2>3, <2>4 DEF CallsInv
<1>7. GateInv'
  <2>1. loop.pc = "write" => life.aborted
    BY <1>1 DEF GateInv
  <2>2. view.settled /\ ~life.aborted => \E i \in 1..Len(out') : Accepts(out'[i])
    BY <1>1, <1>3 DEF GateInv, N
  <2>3. ASSUME Running', NEW i \in 1..Len(out'), Opens(out'[i])
        PROVE  \E j \in 1..Len(out') : j > i /\ Accepts(out'[j])
    <3>1. i \in 1..N /\ Opens(out[i])
      BY <1>4, <2>3 DEF Opens, Running
    <3>2. PICK j \in 1..N : j > i /\ Accepts(out[j])
      BY <1>1, <3>1 DEF GateInv, N
    <3> QED
      BY <1>3, <3>2
  <2> QED
    BY <1>3, <2>1, <2>2, <2>3 DEF GateInv
<1>8. GraceInv'
  <2>1. view.support # "legacy"
    BY <1>5 DEF GraceInv
  <2>2. CASE next.phase \in {"accepted", "run", "post"}
    BY <1>3, <2>1, <2>2 DEF GraceInv
  <2>3. ASSUME NEW kind, Len(lines) = 1, lines[1].kind = kind PROVE Pending(kind)'
    <3>1. /\ N + 1 \in 1..Len(out') /\ out'[N + 1].kind = kind
          /\ \A j \in 1..Len(out') : ~(j > N + 1)
      BY <1>3, <2>3
    <3> QED
      BY <3>1 DEF Pending
  <2>4. CASE next.phase = "sleep" /\ Len(lines) = 1 /\ lines[1].kind = "retry"
    BY <1>3, <2>1, <2>3, <2>4 DEF GraceInv
  <2>5. CASE /\ next.phase = "compacting"
             /\ Len(lines) = 1 /\ lines[1].kind = "compaction_start"
    BY <1>3, <2>1, <2>3, <2>5 DEF GraceInv
  <2>6. CASE /\ next.phase = "idle"
             /\ build = "modern" => Len(lines) = 1 /\ lines[1].kind = "agent_settled"
    <3>1. N + 1 \in 1..Len(out') /\ out'[N + 1].kind = "agent_settled"
      BY <1>3, <2>6 DEF Calm
    <3> QED
      BY <1>3, <2>1, <2>6, <3>1 DEF GraceInv
  <2> QED
    BY <1>2, <2>2, <2>4, <2>5, <2>6
<1> QED
  BY <1>6, <1>7, <1>8

(* pi answers a command.                                                    *)
LEMMA AnswersKeep ==
    ASSUME TypeInv, CallsInv, GateInv, GraceInv, PiReads
    PROVE  CallsInv' /\ GateInv' /\ GraceInv'
<1> DEFINE N == Len(out)
           M == Len(cmds)
           c == Head(cmds)
<1>1. /\ cmds # <<>> /\ cmds' = Tail(cmds) /\ c \in Cmd /\ pi.phase # "dead"
  BY PiAnswers
<1>2. PICK answer \in Answer, next \in PiType :
         /\ <<Line("response", c.by, answer)>> \in Seq(Said)
         /\ PiStep(next, <<Line("response", c.by, answer)>>)
         /\ answer = "prompt" <=> Asks(c) /\ ~Running
         /\ answer = "busy" <=> Asks(c) /\ Running
         /\ answer = "idle" => ~Running
         /\ IF answer = "prompt" THEN next.phase = "accepted" ELSE next = pi
  BY PiAnswers
<1> DEFINE r == Line("response", c.by, answer)
<1>3. /\ pi' = next /\ UNCHANGED <<build, view, life, loop>>
      /\ N \in Nat /\ N + 1 \in 1..Len(out') /\ out'[N + 1] = r /\ Len(out') = N + 1
      /\ \A i \in 1..N : i \in 1..Len(out') /\ out'[i] = out[i]
      /\ \A i \in 1..Len(out') : i \in 1..N \/ i = N + 1
  <2>1. /\ pi' = next /\ Len(out') = N + Len(<<r>>)
        /\ \A i \in 1..N : i \in 1..Len(out') /\ out'[i] = out[i]
        /\ \A i \in 1..Len(<<r>>) : N + i \in 1..Len(out') /\ out'[N + i] = <<r>>[i]
        /\ \A i \in 1..Len(out') : i \in 1..N \/ \E k \in 1..Len(<<r>>) : i = N + k
    BY <1>2, PiSays
  <2>2. Len(<<r>>) = 1 /\ <<r>>[1] = r /\ N \in Nat
    BY LenProperties DEF TypeInv
  <2>3. UNCHANGED <<build, view, life, loop>>
    BY <1>2 DEF PiStep, drvVars
  <2> HIDE DEF r, N
  <2> QED
    BY <2>1, <2>2, <2>3
<1>4. r.kind = "response" /\ r.by = c.by /\ r.ok = answer
  BY DEF Line
<1>5. /\ M \in Nat /\ M > 0 /\ c = cmds[1] /\ Len(cmds') = M - 1
      /\ \A i \in 1..(M - 1) : /\ cmds'[i] = cmds[i + 1] /\ i + 1 \in 1..M /\ i + 1 # 1
                              /\ \A j \in 1..(M - 1) : j + 1 = i + 1 => j = i
      /\ 1 \in 1..M
  <2>1. /\ M \in Nat /\ M > 0 /\ c = cmds[1] /\ Len(cmds') = M - 1
        /\ \A i \in 1..(M - 1) : cmds'[i] = cmds[i + 1]
    BY <1>1, SeqOps DEF TypeInv
  <2> HIDE DEF M
  <2> QED
    BY <2>1
<1> HIDE DEF N, M, c, r
<1>6. Asks(c) => /\ loop.pc = "ack" /\ ~Running
                 /\ \A i \in 1..(M - 1) : ~Asks(cmds'[i])
                 /\ \A i \in 1..N : ~Accepts(out[i])
  BY <1>1, <1>5 DEF CallsInv, M, N
<1>7. /\ Response(r) /\ answer # "busy" /\ (answer = "prompt" <=> Asks(c))
      /\ Accepts(r) <=> Asks(c)
      /\ Asks(c) <=> c.by = "loop"
  BY <1>2, <1>4, <1>5, <1>6 DEF Response, Accepts, CallsInv, M
<1>8. ~Asks(c) => pi' = pi /\ Running' = Running
  BY <1>2, <1>3, <1>7 DEF Running
<1>9. CallsInv'
  <2>1. loop.got # "busy" /\ ~loop.ceiling /\ ~life.exited
    BY <1>1 DEF CallsInv
  <2>2. \A i \in 1..Len(cmds') : Asks(cmds'[i]) <=> cmds'[i].by = "loop"
    BY <1>5 DEF CallsInv, M
  <2>3. \A i \in 1..Len(out') : Response(out'[i]) =>
           out'[i].ok # "busy" /\ (Accepts(out'[i]) <=> out'[i].by = "loop")
    BY <1>3, <1>4, <1>7 DEF CallsInv, N
  <2>4. ASSUME NEW i \in 1..Len(cmds'), Asks(cmds'[i])
        PROVE  /\ loop.pc = "ack" /\ ~Running'
               /\ \A j \in 1..Len(cmds') : Asks(cmds'[j]) => j = i
               /\ \A j \in 1..Len(out') : ~Accepts(out'[j])
    <3>1. ~Asks(c)
      BY <1>5, <1>6, <2>4
    <3>2. /\ loop.pc = "ack" /\ ~Running
          /\ \A j \in 1..M : Asks(cmds[j]) => j = i + 1
          /\ \A j \in 1..N : ~Accepts(out[j])
      BY <1>1, <1>5, <2>4 DEF CallsInv, M, N
    <3> QED
      BY <1>3, <1>5, <1>7, <1>8, <3>1, <3>2
  <2>5. ASSUME NEW i \in 1..Len(out'), Accepts(out'[i])
        PROVE  loop.pc = "ack" /\ \A j \in 1..Len(out') : Accepts(out'[j]) => j = i
    <3>1. CASE i \in 1..N
      <4>1. Accepts(out[i])
        BY <1>3, <2>5, <3>1
      <4>2. loop.pc = "ack" /\ \A j \in 1..N : Accepts(out[j]) => j = i
        BY <1>1, <3>1, <4>1 DEF CallsInv, N
      <4>3. ~Accepts(r)
        BY <1>6, <1>7, <3>1, <4>1
      <4> QED
        BY <1>3, <4>2, <4>3
    <3>2. CASE i = N + 1
      <4>1. Asks(c)
        BY <1>3, <1>7, <2>5, <3>2
      <4> QED
        BY <1>3, <1>6, <3>2, <4>1
    <3> QED
      BY <1>3, <3>1, <3>2
  <2> QED
    BY <1>3, <2>1, <2>2, <2>3, <2>4, <2>5 DEF CallsInv
<1>10. GateInv'
  <2>1. loop.pc = "write" /\ ~life.aborted => ~Running'
    BY <1>6, <1>8 DEF GateInv
  <2>2. view.settled /\ ~life.aborted /\ Running' => \E i \in 1..Len(out') : Accepts(out'[i])
    <3>1. CASE Asks(c)
      BY <1>3, <1>7, <3>1
    <3>2. CASE ~Asks(c)
      BY <1>3, <1>8, <3>2 DEF GateInv, N
    <3> QED
      BY <3>1, <3>2
  <2>3. ASSUME Running', NEW i \in 1..Len(out'), Opens(out'[i])
        PROVE  \E j \in 1..Len(out') : j > i /\ Accepts(out'[j])
    <3>1. ~Opens(r)
      BY <1>2, <1>4, <1>7, <1>8, <2>3 DEF Opens
    <3>2. i \in 1..N /\ Opens(out[i])
      BY <1>3, <2>3, <3>1
    <3>3. CASE Asks(c)
      BY <1>3, <1>7, <3>2, <3>3
    <3>4. CASE ~Asks(c)
      <4>1. PICK j \in 1..N : j > i /\ Accepts(out[j])
        BY <1>8, <2>3, <3>2, <3>4 DEF GateInv, N
      <4> QED
        BY <1>3, <4>1
    <3> QED
      BY <3>3, <3>4
  <2> QED
    BY <1>3, <2>1, <2>2, <2>3 DEF GateInv
<1>11. GraceInv'
  <2>1. CASE Asks(c)
    <3>1. pi'.phase = "accepted" /\ view.support # "legacy"
      BY <1>1, <1>2, <1>3, <1>7, <2>1 DEF GraceInv
    <3> QED
      BY <1>3, <3>1 DEF GraceInv
  <2>2. CASE ~Asks(c)
    <3>1. ASSUME NEW kind, Pending(kind) PROVE Pending(kind)'
      <4>1. PICK i \in 1..N : out[i].kind = kind /\ \A j \in 1..N : j > i => Response(out[j])
        BY <3>1 DEF Pending, N
      <4>2. i \in 1..Len(out') /\ out'[i].kind = kind
            /\ \A j \in 1..Len(out') : j > i => Response(out'[j])
        BY <1>3, <1>7, <4>1
      <4> QED
        BY <4>2 DEF Pending
    <3>2. (\A i \in 1..N : Response(out[i])) => \A i \in 1..Len(out') : Response(out'[i])
      BY <1>3, <1>7
    <3>3. (\E i \in 1..N : out[i].kind = "agent_settled")
             => \E i \in 1..Len(out') : out'[i].kind = "agent_settled"
      BY <1>3
    <3>4. (\A i \in 1..N : out[i].kind # "agent_end")
             => \A i \in 1..Len(out') : out'[i].kind # "agent_end"
      BY <1>3, <1>4
    <3> QED
      BY <1>3, <1>8, <2>2, <3>1, <3>2, <3>3, <3>4 DEF GraceInv, N
  <2> QED
    BY <2>1, <2>2
<1> QED
  BY <1>9, <1>10, <1>11

(* Together: no step takes the prompt of runTurns to a busy pi.              *)
LEMMA CalmStep == TypeInv /\ CalmInv /\ [Next]_vars => CalmInv'
<1> SUFFICES ASSUME TypeInv, CalmInv, [Next]_vars, Calm' PROVE CallsInv' /\ GateInv' /\ GraceInv'
  BY DEF CalmInv
<1>1. TypeInv' /\ Calm
  BY TypeStep, CalmBefore
<1>2. CallsInv /\ GateInv /\ GraceInv /\ ~hasty'
  BY <1>1 DEF CalmInv, Calm
<1>3. CASE Quiet
  BY <1>1, <1>2, <1>3, QuietKeeps
<1>4. CASE WritePrompt
  <2>1. CASE life.exited \/ life.aborted
    <3>1. loop' = [loop EXCEPT !.pc = "answered", !.got = "gone"]
          /\ UNCHANGED <<build, pi, cmds, out, view, life>>
      BY <1>4, <2>1 DEF WritePrompt, drvVars
    <3>2. loop'.pc = "answered" /\ loop'.got = "gone" /\ loop'.ceiling = loop.ceiling
          /\ loop.pc = "write"
      BY <1>4, <3>1 DEF WritePrompt, TypeInv, LoopType
    <3> QED
      BY <1>2, <1>3, <3>1, <3>2 DEF Quiet, CallsInv
  <2>2. CASE ~(life.exited \/ life.aborted)
    <3> DEFINE c == [cmd |-> "prompt", by |-> "loop"]
    <3>1. /\ loop' = [loop EXCEPT !.pc = "ack"] /\ cmds' = Append(cmds, c)
          /\ UNCHANGED <<build, pi, out, view, life>> /\ loop.pc = "write" /\ c \in Cmd
      BY <1>4, <2>2 DEF WritePrompt, WriteRaw, Goto, drvVars, Cmd
    <3>2. loop'.pc = "ack" /\ loop'.got = loop.got /\ loop'.ceiling = loop.ceiling
      BY <3>1 DEF TypeInv, LoopType
    <3> QED
      BY <1>2, <2>2, <3>1, <3>2, Writes
  <2> QED
    BY <2>1, <2>2
<1>5. CASE Loop /\ ~WritePrompt
  BY <1>2, <1>3, <1>5, LoopIsQuiet
<1>6. CASE \/ GraceFires \/ PartialTimer \/ Exited \/ PiDies \/ OnAbort \/ AbortHook \/ Seal
           \/ UNCHANGED vars
  BY <1>2, <1>3, <1>6, EndIsQuiet
<1>7. CASE ReadLine
  BY <1>2, <1>7, ReadKeeps
<1>8. CASE Pi /\ ~PiReads
  BY <1>1, <1>2, <1>8, MovesKeep
<1>9. CASE PiReads
  BY <1>2, <1>9, AnswersKeep
<1>10. ASSUME NEW i \in Input, InputCall(i) \/ InputRetry(i)
       PROVE  CallsInv' /\ GateInv' /\ GraceInv'
  <2>1. /\ pi'.phase = pi.phase /\ UNCHANGED <<out, view, life, loop>>
        /\ \/ UNCHANGED cmds
           \/ cmds' = Append(cmds, [cmd |-> "queue", by |-> i])
    BY <1>10, Inputs
  <2>2. UNCHANGED build
    BY <1>10 DEF InputCall, InputRetry
  <2>3. CASE UNCHANGED cmds
    BY <1>2, <1>3, <2>1, <2>2, <2>3 DEF Quiet, CallsInv
  <2>4. CASE cmds' = Append(cmds, [cmd |-> "queue", by |-> i])
    <3> DEFINE c == [cmd |-> "queue", by |-> i]
    <3>1. c \in Cmd /\ c.cmd = "queue" /\ c.by # "loop"
      BY DriverAssumption DEF Cmd
    <3> QED
      BY <1>2, <2>1, <2>2, <2>4, <3>1, Writes
  <2> QED
    BY <2>1, <2>3, <2>4
<1> QED
  BY <1>4, <1>5, <1>6, <1>7, <1>8, <1>9, <1>10 DEF Next, Driver

(* Inv is inductive.                                                        *)
LEMMA Invariant == Spec => []Inv
<1>1. Init => Inv
  <2> SUFFICES ASSUME Init PROVE Inv
    OBVIOUS
  <2>1. TypeInv
    <3>1. <<>> \in Seq(Turn) /\ cmds \in Seq(Cmd) /\ out \in Seq(Said)
      BY DEF Init
    <3>2. [pc |-> "new", sent |-> {}] \in InpType
      BY DEF InpType
    <3>3. inp \in [Input -> InpType]
      BY <3>2 DEF Init
    <3>4. view \in ViewType /\ life \in LifeType /\ pi \in PiType
      BY <3>1 DEF Init, ViewType, LifeType, PiType
    <3>5. loop \in LoopType
      BY DEF Init, LoopType
    <3>6. part \in PartType /\ count \in CountType
      BY DEF Init, NoPart, PartType, CountType
    <3> QED
      BY <3>1, <3>3, <3>4, <3>5, <3>6 DEF Init, TypeInv
  <2>2. TurnInv /\ PartInv
    BY DEF Init, TurnInv, PartInv, NoPart
  <2>3. CallsInv /\ GateInv /\ GraceInv
    <3>1. Len(cmds) = 0 /\ Len(out) = 0 /\ pi.phase = "idle" /\ view.support = "unknown"
          /\ view.grace = "off" /\ ~life.exited
          /\ loop.got = "none" /\ ~loop.ceiling /\ loop.pc = "workspace"
      BY DEF Init
    <3> QED
      BY <3>1 DEF CallsInv, GateInv, GraceInv, Running
  <2> QED
    BY <2>1, <2>2, <2>3 DEF Inv, CalmInv
<1>2. Inv /\ [Next]_vars => Inv'
  BY TypeStep, TurnStep, PartStep, CalmStep DEF Inv
<1> QED
  BY <1>1, <1>2, PTL DEF Spec

-----------------------------------------------------------------------------
(* A prompt that pi accepted ends at most one turn of runTurns, however late *)
(* agent_settled comes and whatever the grace has decided before it.         *)
THEOREM OneTurnPerPrompt == Spec => []TurnPerCycle
<1>1. Inv => TurnPerCycle
  BY DEF Inv, TypeInv, CountType, TurnInv, TurnPerCycle
<1> QED
  BY <1>1, Invariant, PTL

(* No snapshot of a message is streamed once the message has been committed, *)
(* whatever the coalescer holds and whenever its timer fires.                *)
THEOREM SnapshotsAreAhead == Spec => []NoStalePartial
<1>1. Inv => NoStalePartial
  BY DEF Inv, PartInv, NoStalePartial
<1> QED
  BY <1>1, Invariant, PTL

(* pi refuses no prompt of runTurns for being busy, unless it is a legacy    *)
(* pi, the grace fired in a short pause, or a message of a user went out as  *)
(* a prompt: the gate opens on what pi says at the end of a cycle only.      *)
THEOREM IdleWhenPrompted == Spec => []NeverToldBusy
<1>1. Inv => NeverToldBusy
  BY DEF Inv, TypeInv, CalmInv, Calm, CallsInv, NeverToldBusy
<1> QED
  BY <1>1, Invariant, PTL
=============================================================================
