-------------------------------- MODULE Desktop --------------------------------
(***************************************************************************)
(* The desktop app against the daemon: the store the GUI folds from the    *)
(* replies to its requests and from the daemon's pushes, the subscription  *)
(* it keeps on its connection, the host that carries both, and the         *)
(* comments of the tasks, which the user and an agent write at the same    *)
(* time.  Other clients move tasks and change the project registry; the    *)
(* connection is lost.                                                     *)
(*                                                                         *)
(* Every request is a task of the host: requests are served and their      *)
(* replies folded in any order.  What the host emits, the pushes and the   *)
(* states of its connection, comes in order.  React renders between two    *)
(* messages.  Sessions and their transcripts are module SessionFeed's.     *)
(***************************************************************************)
EXTENDS Naturals, Sequences, Bags

CONSTANTS
    Project, Task, Comment,
    ProjectOf,   \* the project of a task
    Existing,    \* the tasks there are at the start
    Written,     \* the comments each of them has
    None,
    Starts,      \* pairs: the project saved by the last run, the registry
    MaxInputs,   \* bound: what others, the user, the agent and the network do
    MaxDrops,    \* bound: lost connections
    MaxWaiting   \* bound: what is under way when something new begins

ASSUME DesktopAssumption ==
    /\ ProjectOf \in [Task -> Project]
    /\ Existing \subseteq Task /\ Written \subseteq Comment
    /\ None \notin Project \cup Task /\ None \notin Nat
    /\ {MaxInputs, MaxDrops, MaxWaiting} \subseteq Nat
    /\ \A s \in Starts : s[1] \in Project \cup {None} /\ s[2] \subseteq Project

VARIABLES
    \* the daemon
    registered,  \* the projects of the registry
    made,                \* the tasks there are
    file, lock,          \* comments.jsonl and its lock, of each task
    serve,               \* the request each connection is working on
    pushing,             \* task changes whose view is being read
    \* the host and its connection
    epoch, connected,
    roots,               \* conn.taskRoots
    owed,                \* tasks of the host that may yet announce a loss
    up,                  \* bag: requests without an answer
    replies,             \* bag: answers the app has not folded
    events,              \* pushes and states of the connection, in order
    \* the app
    listed, loaded, active, rows, picked, shown, badge,
    \* bounds and history
    inputs,
    told,        \* the comments, by the writes there were
    unheard,     \* the connection was announced before the loss of the last
    crossed,     \* the active project was subscribed to while an
                 \* unsubscribe from it was on its way
    read,        \* the comments the daemon last read for the app; None if
                 \* the subscription had not been served
    overtaken    \* tasks shown by a reply that was not the last one read

daemonVars == <<registered, made, file, lock, serve, pushing>>
linkVars == <<epoch, connected, roots, owed, up, replies, events, unheard, crossed, read>>
guiVars == <<listed, loaded, active, rows, picked, shown, badge, overtaken>>
boundVars == <<inputs, told>>
vars == <<daemonVars, linkVars, guiVars, boundVars>>

Conn == 0..MaxDrops     \* the app's connections, one after the other
Agent == MaxDrops + 1   \* the connection of the agent's calls

(* A comment is absent, as it was written, or as it was edited. *)
Absent == 0
Empty == [c \in Comment |-> Absent]
Saved(t) == [c \in Comment |-> IF t \in Existing /\ c \in Written THEN 1 ELSE Absent]

Req(m, p, t, c) == [m |-> m, p |-> p, t |-> t, c |-> c]
NoReq == Req("none", None, None, None)
Idle == [req |-> NoReq, pc |-> "idle", base |-> Empty]

Back(r) == [req |-> r, ok |-> TRUE, set |-> {}, text |-> Empty]
Event(kind, p, t) == [kind |-> kind, p |-> p, t |-> t, ok |-> TRUE]
Status(ok) == [Event("daemon-status", None, None) EXCEPT !.ok = ok]
Writes == {"add", "edit", "delete"}

In(x, bag) == x \in BagToSet(bag)
Without(bag, x) == bag (-) SetToBag({x})

Init ==
    /\ \E s \in Starts : active = s[1] /\ registered = s[2]
    /\ made = Existing
    /\ file = [t \in Task |-> Saved(t)] /\ lock = [t \in Task |-> None]
    /\ serve = [w \in Conn \cup {Agent} |-> Idle]
    /\ pushing = [t \in Task |-> 0]
    /\ epoch = 0 /\ connected = FALSE /\ roots = {} /\ owed = 0
    /\ up = SetToBag({Req("projects", None, None, None)})
    /\ replies = EmptyBag /\ events = <<>>
    /\ listed = {} /\ loaded = FALSE
    /\ rows = [p \in Project |-> {}]
    /\ picked = None /\ shown = [t \in Task |-> Empty] /\ badge = FALSE
    /\ inputs = 0 /\ told = [t \in Task |-> Saved(t)]
    /\ unheard = FALSE /\ crossed = FALSE
    /\ read = [t \in Task |-> None] /\ overtaken = {}

(* Something new begins when little is under way. *)
Input ==
    /\ inputs < MaxInputs /\ inputs' = inputs + 1
    /\ BagCardinality(up) + BagCardinality(replies) + Len(events) <= MaxWaiting

-----------------------------------------------------------------------------
(* Pushes: to the connection, if it has asked for them. *)

Push(e) == events' = IF connected THEN Append(events, e) ELSE events

EmitProjectChanged == Push(Event("project-changed", None, None))

(* Mutant: a change is left to the next look at the task's file. *)
LeftToReconcile(t) == UNCHANGED pushing

(* A change of a task or of its comments: its view is read, then pushed. *)
NotifyTaskChange(t) == pushing' = [pushing EXCEPT ![t] = @ + 1]

EmitTaskChanged(t) ==
    /\ pushing[t] > 0 /\ pushing' = [pushing EXCEPT ![t] = @ - 1]
    /\ IF ProjectOf[t] \in roots
       THEN Push(Event("task-changed", ProjectOf[t], t))
       ELSE UNCHANGED events
    /\ UNCHANGED <<registered, made, file, lock, serve, epoch, connected, roots, owed,
                   up, replies, unheard, crossed, read, guiVars, boundVars>>

-----------------------------------------------------------------------------
(* Other clients and the engine. *)


(* project.add or project.remove by another client. *)
AddProject(p)    == p \notin registered /\ registered' = registered \cup {p}
RemoveProject(p) == p \in registered /\ registered' = registered \ {p}
Register ==
    /\ Input
    /\ \E p \in Project : AddProject(p) \/ RemoveProject(p)
    /\ EmitProjectChanged
    /\ UNCHANGED <<made, file, lock, serve, pushing, epoch, connected, roots, owed,
                   up, replies, unheard, crossed, read, guiVars, told>>

(* A task is created or changed. *)
MoveTask(t) ==
    /\ Input
    /\ made' = made \cup {t} /\ NotifyTaskChange(t)
    /\ UNCHANGED <<registered, file, lock, serve, linkVars, guiVars, told>>

-----------------------------------------------------------------------------
(* A connection of the daemon serves one request after the other.  What    *)
(* it still does when the connection is gone has no reply.                 *)

Here(w) == w = epoch /\ connected

Reply(b) == replies' = replies (+) SetToBag({b})

TasksOf(p) == {t \in made : ProjectOf[t] = p}

NextRequest(r, methods) ==
    /\ connected /\ serve[epoch].pc = "idle"
    /\ r.m \in methods
    /\ up' = Without(up, r)

(* A task is asked for in the project the app shows by then. *)
Answers(r) == r.t \in made /\ ProjectOf[r.t] = r.p

ReadComments(t) == file[t]

Answer(r) ==
    CASE r.m = "projects" -> [Back(r) EXCEPT !.set = registered]
      [] r.m = "tasks"    -> [Back(r) EXCEPT !.set = TasksOf(r.p)]
      [] r.m = "task"     -> IF Answers(r)
                             THEN [Back(r) EXCEPT !.text = ReadComments(r.t)]
                             ELSE [Back(r) EXCEPT !.ok = FALSE]

(* Lists, and a task with its comments. *)
Handle(r) ==
    /\ NextRequest(r, {"projects", "tasks", "task"})
    /\ Reply(Answer(r))
    /\ read' = IF r.m = "task" /\ Answers(r)
               THEN [read EXCEPT ![r.t] = IF r.p \in roots THEN file[r.t] ELSE None]
               ELSE read
    /\ UNCHANGED <<daemonVars, epoch, connected, roots, owed, events, unheard, crossed,
                   guiVars, boundVars>>

Subscribe(r) ==
    /\ NextRequest(r, {"subscribe", "unsubscribe"})
    /\ roots' = IF r.m = "subscribe" THEN roots \cup {r.p} ELSE roots \ {r.p}
    /\ Reply(Back(r))
    /\ UNCHANGED <<daemonVars, epoch, connected, owed, events, unheard, crossed, read,
                   guiVars, boundVars>>

-----------------------------------------------------------------------------
(* Comments: the whole file is read, changed and written under a lock.     *)
(* An agent's calls come over a connection of their own.                   *)

(* Mutant: the lock is not asked for. *)
AnyTime(t) == TRUE

CanLock(t) == lock[t] = None

(* A new comment gets an id that none of those read has. *)
NewCommentId(f) == CHOOSE c \in Comment : f[c] = Absent

AddComment(f, c)    == [f EXCEPT ![c] = 1]
EditComment(f, c)   == IF f[c] = Absent THEN f ELSE [f EXCEPT ![c] = 2]
DeleteComment(f, c) == [f EXCEPT ![c] = Absent]

Put(f, r) ==
    CASE r.m = "add"    -> AddComment(f, r.c)
      [] r.m = "edit"   -> EditComment(f, r.c)
      [] r.m = "delete" -> DeleteComment(f, r.c)

BeginWrite(r) ==
    /\ NextRequest(r, Writes)
    /\ serve' = [serve EXCEPT ![epoch] = [Idle EXCEPT !.req = r, !.pc = "lock"]]
    /\ UNCHANGED <<registered, made, file, lock, pushing, epoch, connected, roots, owed,
                   replies, events, unheard, crossed, read, guiVars, boundVars>>

AgentWrites ==
    /\ Input
    /\ serve[Agent].pc = "idle"
    /\ \E t \in made, c \in Comment \cup {None}, m \in Writes :
        /\ IF m = "add" THEN c = None ELSE c # None /\ file[t][c] # Absent
        /\ serve' = [serve EXCEPT ![Agent] =
               [Idle EXCEPT !.req = Req(m, ProjectOf[t], t, c), !.pc = "lock"]]
    /\ UNCHANGED <<registered, made, file, lock, pushing, linkVars, guiVars,
                   told>>

TakeCommentLock(w) ==
    LET t == serve[w].req.t IN
    /\ serve[w].pc = "lock" /\ CanLock(t)
    /\ lock' = [lock EXCEPT ![t] = w]
    /\ serve' = [serve EXCEPT ![w].pc = "write", ![w].base = ReadComments(t),
          ![w].req.c = IF serve[w].req.m = "add" THEN NewCommentId(ReadComments(t)) ELSE @]
    /\ UNCHANGED <<registered, made, file, pushing, linkVars, guiVars, boundVars>>

WriteComments(w) ==
    LET r == serve[w].req
        t == r.t
        f == Put(serve[w].base, r) IN
    /\ serve[w].pc = "write"
    /\ file' = [file EXCEPT ![t] = f]
    /\ told' = [told EXCEPT ![t] = Put(@, r)]
    /\ lock' = [lock EXCEPT ![t] = None]
    /\ IF f = serve[w].base THEN UNCHANGED pushing ELSE NotifyTaskChange(t)
    /\ serve' = [serve EXCEPT ![w] = Idle]
    /\ IF Here(w) THEN Reply(Back(r)) ELSE UNCHANGED replies
    /\ UNCHANGED <<registered, made, epoch, connected, roots, owed, up, events, unheard,
                   crossed, read, guiVars, inputs>>

-----------------------------------------------------------------------------
(* The host's connection. *)

(* The connection is lost.  A part of what the daemon pushed has come in;  *)
(* requests that wait are asked again on the next connection, those with   *)
(* an answer too if it is lost (ReplyLost).  The connection's reader and a *)
(* request that was waiting may each announce the loss.                    *)
Drop ==
    /\ Input /\ connected /\ epoch < MaxDrops
    /\ connected' = FALSE /\ epoch' = epoch + 1 /\ roots' = {}
    /\ up' = IF serve[epoch].pc = "idle" THEN up
             ELSE up (+) SetToBag({serve[epoch].req})
    /\ \E k \in 0..Len(events) : events' = SubSeq(events, 1, k)
    /\ owed' = 2 /\ unheard' = FALSE
    /\ UNCHANGED <<daemonVars, replies, crossed, read, guiVars, told>>

ReplyLost(b) ==
    /\ ~connected
    /\ replies' = Without(replies, b)
    /\ up' = up (+) SetToBag({b.req})
    /\ UNCHANGED <<daemonVars, epoch, connected, roots, owed, events, unheard, crossed,
                   read, guiVars, boundVars>>

(* A request that cannot connect, or has been repeated, ends in an error,  *)
(* which the app shows or ignores.                                         *)
Fail(r) ==
    /\ ~connected
    /\ up' = Without(up, r)
    /\ UNCHANGED <<daemonVars, epoch, connected, roots, owed, replies, events, unheard,
                   crossed, read, guiVars, boundVars>>

(* Each who would announce the loss does if no other has taken its place.  *)
SayLost ==
    /\ owed > 0 /\ owed' \in 0..(owed - 1)
    /\ events' = Append(events, Status(FALSE))
    /\ UNCHANGED <<daemonVars, epoch, connected, roots, up, replies, unheard, crossed,
                   read, guiVars, boundVars>>

(* A request that finds no connection makes one. It may come before those  *)
(* who would announce the loss, and silence them or not.                   *)
Dial ==
    /\ ~connected /\ up # EmptyBag
    /\ connected' = TRUE
    /\ events' = Append(events, Status(TRUE))
    /\ unheard' = (owed > 0) /\ owed' \in 0..owed
    /\ UNCHANGED <<daemonVars, epoch, roots, up, replies, crossed, read, guiVars, boundVars>>

-----------------------------------------------------------------------------
(* The app asks. *)

Enter(p) == Req("subscribe", p, None, None)
Leave(p) == Req("unsubscribe", p, None, None)

Ask(reqs) ==
    /\ up' = up (+) SetToBag(reqs)
    /\ crossed' = IF \E p \in Project : Enter(p) \in reqs
                  THEN \E p \in Project : Enter(p) \in reqs /\ In(Leave(p), up)
                  ELSE crossed

RefreshProjects == {Req("projects", None, None, None)}
RefreshTasks(p) == {Req("tasks", p, None, None)}
(* task.get and task.comment.list, waited for together; in the project     *)
(* that is active when they are asked for.                                 *)
RefreshTask(p, t) == IF p = None THEN {} ELSE {Req("task", p, t, None)}
ResyncSelection == IF picked = None THEN {} ELSE RefreshTask(active, picked)
IfPicked(p, t) == IF picked = t THEN RefreshTask(p, t) ELSE {}

(* Mutant: a new connection is taken to have the subscriptions of the last. *)
LoadOnly(p) == RefreshTasks(p)

Watch(p) == {Enter(p)} \cup RefreshTasks(p)

(* On a new connection the same again. *)
Rewatch(p) == Watch(p)

(* The effect on the active project, once the registry has been loaded. *)
Follow(p, nowLoaded) ==
    LET old == IF loaded THEN active ELSE None
        new == IF nowLoaded THEN p ELSE None IN
    IF old = new THEN {}
    ELSE (IF old = None THEN {} ELSE {Leave(old)})
            \cup (IF new = None THEN {} ELSE Watch(new))

-----------------------------------------------------------------------------
(* The user. *)

unasked == <<epoch, connected, roots, owed, unheard, read>>

SelectProject ==
    /\ Input
    /\ \E p \in listed : active' = p /\ Ask(Follow(p, loaded))
    /\ picked' = None
    /\ UNCHANGED <<daemonVars, unasked, replies, events, listed, loaded, rows, shown,
                   badge, overtaken, told>>

Select(t) == picked' = t
SelectTask ==
    /\ Input /\ active # None
    /\ \E t \in rows[active] \cup {None} :
        /\ Select(t)
        /\ Ask(IF t = None THEN {} ELSE RefreshTask(active, t))
    /\ UNCHANGED <<daemonVars, unasked, replies, events, listed, loaded, active, rows,
                   shown, badge, overtaken, told>>

(* The composer and the comment menu of the task on screen. *)
WriteComment ==
    /\ Input /\ active # None /\ picked \in rows[active]
    /\ \E m \in Writes, c \in Comment \cup {None} :
        /\ IF m = "add" THEN c = None ELSE c # None /\ shown[picked][c] # Absent
        /\ Ask({Req(m, active, picked, c)})
    /\ UNCHANGED <<daemonVars, unasked, replies, events, guiVars, told>>

-----------------------------------------------------------------------------
(* The store folds what comes in. *)

Takes(b, methods) == b.req.m \in methods /\ replies' = Without(replies, b)
Hears(kind) == events # <<>> /\ Head(events).kind = kind /\ events' = Tail(events)
Heard == Head(events)

PickOf(p) == IF p = active THEN picked ELSE None

DropSlices(ps) == [p \in Project |-> IF p \in ps THEN rows[p] ELSE {}]
Resolved(ps) == IF active \in ps THEN {active} ELSE IF ps = {} THEN {None} ELSE ps
OnProjects(b) ==
    /\ Takes(b, {"projects"})
    /\ listed' = b.set /\ loaded' = TRUE
    /\ rows' = DropSlices(b.set)
    /\ active' \in Resolved(b.set)
    /\ picked' = PickOf(active')
    /\ Ask(Follow(active', TRUE))
    /\ UNCHANGED <<daemonVars, unasked, events, shown, badge, overtaken, boundVars>>

PatchProject(p, slice) == [rows EXCEPT ![p] = slice]

OnTasks(b) ==
    /\ Takes(b, {"tasks"})
    /\ rows' = PatchProject(b.req.p, b.set)
    /\ UNCHANGED <<daemonVars, unasked, up, crossed, events, listed, loaded, active,
                   picked, shown, badge, overtaken, boundVars>>

Upsert(t, p) == PatchProject(p, rows[p] \cup {t})

OnTask(b) ==
    LET t == b.req.t IN
    /\ Takes(b, {"task"})
    /\ IF b.ok
       THEN /\ rows' = Upsert(t, b.req.p)
            /\ shown' = [shown EXCEPT ![t] = b.text]
            /\ overtaken' = IF b.text = read[t] THEN overtaken \ {t} ELSE overtaken \cup {t}
       ELSE UNCHANGED <<rows, shown, overtaken>>
    /\ UNCHANGED <<daemonVars, unasked, up, crossed, events, listed, loaded, active,
                   picked, badge, boundVars>>

(* A write has been answered: the task is asked for again. *)
OnDone(b) ==
    /\ Takes(b, Writes) /\ Ask(RefreshTask(active, b.req.t))
    /\ UNCHANGED <<daemonVars, unasked, events, guiVars, boundVars>>

(* Nothing waits for the answer to a subscription. *)
OnSubscribed(b) ==
    /\ Takes(b, {"subscribe", "unsubscribe"})
    /\ UNCHANGED <<daemonVars, unasked, up, crossed, events, guiVars, boundVars>>

OnProjectChanged ==
    /\ Hears("project-changed") /\ Ask(RefreshProjects)
    /\ UNCHANGED <<daemonVars, unasked, replies, guiVars, boundVars>>

IsActive(p) == p = active

OnTaskChanged ==
    /\ Hears("task-changed")
    /\ IF IsActive(Heard.p)
       THEN rows' = Upsert(Heard.t, Heard.p) /\ Ask(IfPicked(active, Heard.t))
       ELSE UNCHANGED <<rows, up, crossed>>
    /\ UNCHANGED <<daemonVars, unasked, replies, listed, loaded, active, picked, shown,
                   badge, overtaken, boundVars>>

(* A new connection knows nothing of the subscriptions of the last one. *)
OnDaemonStatus ==
    /\ Hears("daemon-status")
    /\ badge' = Heard.ok
    /\ Ask(IF badge = Heard.ok \/ ~Heard.ok THEN {}
           ELSE (IF active = None THEN {} ELSE Rewatch(active)) \cup ResyncSelection)
    /\ UNCHANGED <<daemonVars, unasked, replies, listed, loaded, active, rows, picked,
                   shown, overtaken, boundVars>>

-----------------------------------------------------------------------------
Others == Register \/ \E t \in Task : MoveTask(t)
User == SelectProject \/ SelectTask \/ WriteComment
Serve(r) == Handle(r) \/ Subscribe(r) \/ BeginWrite(r)
Writing(w) == TakeCommentLock(w) \/ WriteComments(w)
Host == Drop \/ SayLost \/ Dial
Fold(b) == OnProjects(b) \/ OnTasks(b) \/ OnTask(b) \/ OnDone(b) \/ OnSubscribed(b)
Hear == OnProjectChanged \/ OnTaskChanged \/ OnDaemonStatus

Next ==
    \/ Others \/ AgentWrites \/ User \/ Host \/ Hear
    \/ \E r \in BagToSet(up) : Serve(r) \/ Fail(r)
    \/ \E b \in BagToSet(replies) : Fold(b) \/ ReplyLost(b)
    \/ \E w \in Conn \cup {Agent} : Writing(w)
    \/ \E t \in Task : EmitTaskChanged(t)

Spec == Init /\ [][Next]_vars

-----------------------------------------------------------------------------
(* Properties. *)

(* store.ts:575-629: a comment that was added stays as it was last edited, *)
(* until it is deleted, whoever writes the file at the same time.          *)
CommentsKept == file = told

Settled ==
    /\ up = EmptyBag /\ replies = EmptyBag /\ events = <<>>
    /\ connected /\ serve[epoch].pc = "idle"

(* The app has learnt of the connection it has (commands.rs:92-113,        *)
(* rpc.rs:133-143), and its last subscription did not cross an unsubscribe *)
(* from the same project.                                                  *)
InTouch == ~unheard /\ ~crossed

(* store.tsx:426-457 and :542-565: once all is answered the connection of  *)
(* an app in touch is subscribed to the active project, whatever           *)
(* connections were lost, requests failed and projects switched.           *)
ActiveIsWatched == Settled /\ InTouch /\ active # None => active \in roots

(* At rest the daemon's last answer about the task on screen has its       *)
(* comments as they are, whoever wrote them, if the subscription had been  *)
(* served by then; and they are on screen, if no earlier answer overtook   *)
(* it (store.tsx:322-343, :470-481).                                       *)
AtRest ==
    /\ Settled /\ \A t \in Task : pushing[t] = 0
    /\ \A w \in Conn \cup {Agent} : serve[w].pc = "idle"
PickedIsCurrent ==
    AtRest /\ InTouch /\ picked # None /\ read[picked] # None =>
        /\ read[picked] = file[picked]
        /\ picked \in overtaken \/ shown[picked] = file[picked]

(* What a project shows is its own, whichever project is on screen when a  *)
(* reply or a push arrives (reducer.ts, store.tsx:470-492).                *)
RowsFiled == \A p \in Project : \A t \in rows[p] : ProjectOf[t] = p

(* reducer.ts:68-70: the selection is scoped to the active project, also   *)
(* when the project goes away under it.                                    *)
SelectionIsActive == picked # None => active # None /\ ProjectOf[picked] = active

(* The screen never mixes projects, and at rest it is up to date.          *)
ScreenIsTrue == RowsFiled /\ SelectionIsActive /\ PickedIsCurrent
=============================================================================
