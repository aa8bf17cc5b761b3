---------------------------- MODULE DesktopProofs ----------------------------
(* Proofs about Desktop: no comment is lost, the active project is watched, *)
(* and at rest the screen is up to date.                                    *)
EXTENDS Desktop, TLAPS

Text == [Comment -> 0..2]
CommentId == Comment \cup {None} \cup {NewCommentId(f) : f \in Text}
ReqType ==
    [m : {"none", "projects", "tasks", "task", "subscribe", "unsubscribe"} \cup Writes,
     p : Project \cup {None}, t : Task \cup {None}, c : CommentId]
Worker == Conn \cup {Agent}
TaskReq(p, t) == Req("task", p, t, None)

(* What is under way is of the tasks that are there, each in its project.   *)
Calls(there) ==
    {r \in ReqType :
        \/ r \in RefreshProjects
        \/ \E p \in Project : r \in RefreshTasks(p) \/ r = Enter(p) \/ r = Leave(p)
        \/ \E p \in Project, t \in there : r = TaskReq(p, t)
        \/ r.m \in Writes /\ r.t \in there}
Of(p, there) == {t \in there : ProjectOf[t] = p}
Returns(there) ==
    {b \in [req : Calls(there), ok : BOOLEAN, set : SUBSET (Project \cup Task), text : Text] :
        /\ b.req.m = "projects" => b.set \subseteq Project
        /\ b.req.m = "tasks" => b.set \subseteq Of(b.req.p, there)
        /\ b.req.m = "task" /\ b.ok => b.req.t \in Of(b.req.p, there)}
Pushes(there) ==
    {e \in [kind : {"project-changed", "task-changed", "daemon-status"},
            p : Project \cup {None}, t : Task \cup {None}, ok : BOOLEAN] :
        e.kind = "task-changed" => e.t \in there /\ e.p = ProjectOf[e.t]}
Serves(there) ==
    {e \in [req : ReqType, pc : {"idle", "lock", "write"}, base : Text] :
        e.pc # "idle" => e.req.m \in Writes /\ e.req.t \in there}

DaemonOK ==
    /\ registered \in SUBSET Project /\ made \in SUBSET Task
    /\ file \in [Task -> Text] /\ told \in [Task -> Text]
    /\ lock \in [Task -> Worker \cup {None}]
    /\ serve \in [Worker -> Serves(made)]
    /\ pushing \in [Task -> Nat] /\ \A t \in Task : pushing[t] > 0 => t \in made
LinkOK ==
    /\ epoch \in Conn /\ connected \in BOOLEAN /\ roots \in SUBSET Project /\ owed \in Nat
    /\ IsABag(up) /\ BagToSet(up) \subseteq Calls(made)
    /\ IsABag(replies) /\ BagToSet(replies) \subseteq Returns(made)
    /\ events \in Seq(Pushes(made))
    /\ unheard \in BOOLEAN /\ crossed \in BOOLEAN /\ read \in [Task -> Text \cup {None}]
AppOK ==
    /\ listed \in SUBSET Project /\ loaded \in BOOLEAN /\ active \in Project \cup {None}
    /\ rows \in [Project -> SUBSET Task] /\ \A p \in Project : rows[p] \subseteq Of(p, made)
    /\ picked \in Task \cup {None}
    /\ picked # None => active # None /\ picked \in Of(active, made)
    /\ shown \in [Task -> Text] /\ badge \in BOOLEAN
TypeInv == DaemonOK /\ LinkOK /\ AppOK

(* Whoever is about to write holds the lock and has the file as it is.      *)
CommentInv ==
    /\ CommentsKept
    /\ \A w \in Worker : serve[w].pc = "write" =>
           lock[serve[w].req.t] = w /\ serve[w].base = file[serve[w].req.t]

(* Before the registry is loaded nothing is left.                           *)
LoadInv ==
    ~loaded => /\ listed = {} /\ ~crossed
               /\ \A r \in BagToSet(up) : r.m # "unsubscribe"
               /\ \A b \in BagToSet(replies) : b.req.m # "unsubscribe"

(* The badge, once the events that wait are folded, is v.                   *)
IsStatus(e) == e.kind = "daemon-status"
Ends(q, b, v) ==
    \/ b = v /\ \A i \in 1..Len(q) : ~IsStatus(q[i])
    \/ \E i \in 1..Len(q) : /\ IsStatus(q[i]) /\ q[i].ok = v
                            /\ \A j \in 1..Len(q) : j > i => ~IsStatus(q[j])
StatusInv ==
    /\ connected /\ ~unheard => owed = 0 /\ Ends(events, badge, TRUE)
    /\ ~connected => owed > 0 \/ Ends(events, badge, FALSE)

(* The app will learn that its connection is a new one, and ask again.      *)
Loses(q) == \E i \in 1..Len(q) : IsStatus(q[i]) /\ ~q[i].ok
Heals == ~badge \/ Loses(events) \/ (~connected /\ owed > 0)
Excused == unheard \/ crossed \/ Heals

WatchInv ==
    \/ Excused \/ active = None
    \/ ~In(Leave(active), up) /\ (active \in roots \/ In(Enter(active), up))

(* The task on screen: it will be asked for again, or the last answer is    *)
(* true, and is on screen or on its way.                                    *)
Announced(t) ==
    pushing[t] > 0 \/ \E i \in 1..Len(events) : events[i].kind = "task-changed" /\ events[i].t = t
Coming(t) ==
    \E b \in BagToSet(replies) : b.req.m = "task" /\ b.ok /\ b.req.t = t /\ b.text = read[t]
Current(t) ==
    /\ active \in roots
    /\ \/ Announced(t)
       \/ read[t] = file[t] /\ (Coming(t) \/ t \in overtaken \/ shown[t] = read[t])
PickInv ==
    \/ Excused \/ picked = None \/ In(TaskReq(active, picked), up)
    \/ read[picked] = None \/ Current(picked)

Inv == TypeInv /\ CommentInv /\ LoadInv /\ StatusInv /\ WatchInv /\ PickInv

-----------------------------------------------------------------------------
(* A bag with one of each of some elements more, and with one element less. *)
LEMMA Added ==
    ASSUME NEW B, IsABag(B), NEW S
    PROVE  IsABag(B (+) SetToBag(S)) /\ BagToSet(B (+) SetToBag(S)) = BagToSet(B) \cup S
<1> DEFINE C == B (+) SetToBag(S)
<1>1. /\ DOMAIN C = DOMAIN B \cup S
      /\ \A e \in DOMAIN C : C[e] = (IF e \in DOMAIN B THEN B[e] ELSE 0)
                                      + (IF e \in S THEN 1 ELSE 0)
  BY DEF SetToBag, (+)
<1>2. \A e \in DOMAIN B : B[e] \in Nat /\ B[e] > 0
  BY DEF IsABag
<1>3. \A e \in DOMAIN C : C[e] \in {n \in Nat : n > 0}
  BY <1>1, <1>2
<1>4. C = [e \in DOMAIN C |-> C[e]]
  BY DEF SetToBag, (+)
<1>5. IsABag(C)
  BY <1>3, <1>4, Zenon DEF IsABag
<1> QED
  BY <1>1, <1>5 DEF BagToSet

LEMMA Taken ==
    ASSUME NEW B, IsABag(B), NEW x
    PROVE  /\ IsABag(Without(B, x)) /\ BagToSet(Without(B, x)) \subseteq BagToSet(B)
           /\ \A y \in BagToSet(B) : y # x => y \in BagToSet(Without(B, x))
<1> DEFINE D == [e \in DOMAIN B |-> IF e \in DOMAIN SetToBag({x}) THEN B[e] - SetToBag({x})[e]
                                                                   ELSE B[e]]
           C == Without(B, x)
<1>1. /\ C = [e \in {d \in DOMAIN D : D[d] > 0} |-> D[e]] /\ DOMAIN D = DOMAIN B
      /\ \A e \in DOMAIN B : D[e] = IF e = x THEN B[e] - 1 ELSE B[e]
  BY DEF Without, SetToBag, (-)
<1>2. \A e \in DOMAIN B : B[e] \in Nat /\ B[e] > 0
  BY DEF IsABag
<1>3. /\ DOMAIN C = {d \in DOMAIN B : D[d] > 0} /\ \A e \in DOMAIN C : C[e] = D[e]
  BY <1>1
<1> HIDE DEF C, D
<1>4. \A e \in DOMAIN C : C[e] \in {n \in Nat : n > 0}
  BY <1>1, <1>2, <1>3
<1>5. C = [e \in DOMAIN C |-> C[e]]
  BY <1>1, <1>3
<1>6. IsABag(C)
  BY <1>4, <1>5, Zenon DEF IsABag
<1>7. \A y \in DOMAIN B : y # x => y \in DOMAIN C
  BY <1>1, <1>2, <1>3
<1> QED
  BY <1>3, <1>6, <1>7 DEF BagToSet, C

LEMMA Nothing == IsABag(EmptyBag) /\ BagToSet(EmptyBag) = {}
  BY DEF IsABag, EmptyBag, SetToBag, BagToSet

LEMMA Values ==
    /\ Conn = 0..MaxDrops /\ MaxDrops \in Nat /\ Agent \notin Conn
    /\ None \notin Project /\ None \notin Task /\ None \notin Worker
    /\ \A t \in Task : ProjectOf[t] \in Project
    /\ Empty \in Text /\ NoReq \in ReqType /\ Idle.pc = "idle"
    /\ \A there : Idle \in Serves(there)
    /\ \A t \in Task : Saved(t) \in Text
<1>1. /\ Conn = 0..MaxDrops /\ MaxDrops \in Nat /\ Agent \notin Conn
      /\ None \notin Project /\ None \notin Task /\ None \notin Worker
      /\ \A t \in Task : ProjectOf[t] \in Project
  BY DesktopAssumption DEF Conn, Agent, Worker
<1>2. Empty \in Text /\ \A t \in Task : Saved(t) \in Text
  BY DEF Empty, Saved, Text, Absent
<1>3. NoReq \in ReqType
  BY DEF NoReq, Req, ReqType, CommentId
<1>4. Idle.pc = "idle" /\ \A there : Idle \in Serves(there)
  BY <1>2, <1>3 DEF Idle, Serves
<1> QED
  BY <1>1, <1>2, <1>3, <1>4

(* What the calls look like.                                                *)
LEMMA CallFacts ==
    ASSUME NEW there \in SUBSET Task, NEW r \in Calls(there)
    PROVE  /\ r \in ReqType
           /\ r.m \in {"projects", "tasks", "task", "subscribe", "unsubscribe"} \cup Writes
           /\ r.m \in {"tasks", "task", "subscribe", "unsubscribe"} => r.p \in Project
           /\ r.m = "task" => r.t \in there /\ r = TaskReq(r.p, r.t)
           /\ r.m = "subscribe" => r = Enter(r.p)
           /\ r.m = "unsubscribe" => r = Leave(r.p)
           /\ r.m \in Writes => r.t \in there
<1> USE DEF ReqType, Req, CommentId, Writes, TaskReq, Enter, Leave
<1>1. CASE r \in RefreshProjects
  BY <1>1 DEF RefreshProjects
<1>2. CASE \E p \in Project : r \in RefreshTasks(p) \/ r = Enter(p) \/ r = Leave(p)
  BY <1>2 DEF RefreshTasks
<1>3. CASE \E p \in Project, t \in there : r = TaskReq(p, t)
  BY <1>3
<1>4. CASE r \in ReqType /\ r.m \in Writes /\ r.t \in there
  BY <1>4
<1> QED
  BY <1>1, <1>2, <1>3, <1>4 DEF Calls

(* What the app may ask for.                                                *)
LEMMA Asks ==
    ASSUME NEW there \in SUBSET Task
    PROVE  /\ RefreshProjects \subseteq Calls(there)
           /\ \A p \in Project : /\ RefreshTasks(p) \subseteq Calls(there)
                                 /\ Watch(p) \subseteq Calls(there)
                                 /\ Enter(p) \in Calls(there) /\ Leave(p) \in Calls(there)
           /\ \A p \in Project \cup {None}, t \in there : RefreshTask(p, t) \subseteq Calls(there)
           /\ \A r \in ReqType : r.m \in Writes /\ r.t \in there => r \in Calls(there)
<1> USE DEF ReqType, Req, CommentId, Writes
<1>1. \A p \in Project, t \in there : TaskReq(p, t) \in Calls(there)
  BY DEF Calls, TaskReq
<1>2. \A p \in Project \cup {None}, t \in there : RefreshTask(p, t) \subseteq Calls(there)
  BY <1>1 DEF RefreshTask, TaskReq
<1>3. RefreshProjects \subseteq Calls(there)
  BY DEF Calls, RefreshProjects
<1>4. \A p \in Project : RefreshTasks(p) \subseteq Calls(there)
  BY DEF Calls, RefreshTasks
<1>5. \A p \in Project : Enter(p) \in Calls(there) /\ Leave(p) \in Calls(there)
  BY DEF Calls, Enter, Leave
<1>6. \A r \in ReqType : r.m \in Writes /\ r.t \in there => r \in Calls(there)
  BY DEF Calls
<1> QED
  BY <1>2, <1>3, <1>4, <1>5, <1>6 DEF Watch

(* More tasks allow more to be under way.                                   *)
LEMMA Wider ==
    ASSUME NEW A \in SUBSET Task, NEW B \in SUBSET Task, A \subseteq B
    PROVE  /\ Calls(A) \subseteq Calls(B) /\ Returns(A) \subseteq Returns(B)
           /\ Pushes(A) \subseteq Pushes(B) /\ Serves(A) \subseteq Serves(B)
<1>1. Calls(A) \subseteq Calls(B)
  BY DEF Calls
<1>2. Returns(A) \subseteq Returns(B)
  BY <1>1 DEF Returns, Of
<1>3. Pushes(A) \subseteq Pushes(B)
  BY DEF Pushes
<1>4. Serves(A) \subseteq Serves(B)
  BY DEF Serves
<1> QED
  BY <1>1, <1>2, <1>3, <1>4

(* What a put makes of comments are comments.                               *)
LEMMA Puts ==
    ASSUME NEW f \in Text, NEW r, r.m \in Writes
    PROVE  Put(f, r) \in Text
<1>1. \A x \in Comment : f[x] \in 0..2
  BY DEF Text
<1>2. Put(f, r) = [x \in Comment |-> IF x # r.c THEN f[x]
                                     ELSE IF r.m = "add" THEN 1
                                     ELSE IF r.m = "delete" THEN 0
                                     ELSE IF f[r.c] = 0 THEN f[x] ELSE 2]
  BY DEF Put, AddComment, EditComment, DeleteComment, Text, Writes, Absent
<1> QED
  BY <1>1, <1>2 DEF Text

(* What the daemon answers is of the projects and tasks there are.          *)
LEMMA Answered ==
    ASSUME DaemonOK, NEW r \in Calls(made), r.m \in {"projects", "tasks", "task"}
    PROVE  /\ Answer(r) \in Returns(made) /\ Answer(r).req = r
           /\ r.m = "task" => /\ Answer(r).ok <=> Answers(r)
                              /\ Answers(r) => Answer(r).text = file[r.t]
<1> DEFINE R == [req : Calls(made), ok : BOOLEAN, set : SUBSET (Project \cup Task), text : Text]
<1>1. /\ Back(r) \in R /\ Back(r).req = r /\ Back(r).ok = TRUE /\ Back(r).set = {}
  BY Values DEF Back
<1>2. /\ registered \in SUBSET Project /\ made \in SUBSET Task
      /\ TasksOf(r.p) = Of(r.p, made) /\ TasksOf(r.p) \in SUBSET (Project \cup Task)
      /\ r.t \in made => file[r.t] \in Text
  BY DEF DaemonOK, TasksOf, Of
<1> HIDE DEF R
<1>3. CASE r.m = "projects"
  <2>1. Answer(r) = [Back(r) EXCEPT !.set = registered]
    BY <1>3 DEF Answer
  <2> QED
    BY <1>1, <1>2, <1>3, <2>1 DEF Returns, R
<1>4. CASE r.m = "tasks"
  <2>1. Answer(r) = [Back(r) EXCEPT !.set = TasksOf(r.p)]
    BY <1>4 DEF Answer
  <2> QED
    BY <1>1, <1>2, <1>4, <2>1 DEF Returns, R
<1>5. CASE r.m = "task" /\ Answers(r)
  <2>1. Answer(r) = [Back(r) EXCEPT !.text = file[r.t]]
    BY <1>5 DEF Answer, ReadComments
  <2>2. r.t \in Of(r.p, made)
    BY <1>5 DEF Answers, Of
  <2> QED
    BY <1>1, <1>2, <1>5, <2>1, <2>2 DEF Returns, R, Of
<1>6. CASE r.m = "task" /\ ~Answers(r)
  <2>1. Answer(r) = [Back(r) EXCEPT !.ok = FALSE]
    BY <1>6 DEF Answer
  <2> QED
    BY <1>1, <1>6, <2>1 DEF Returns, R
<1> QED
  BY <1>3, <1>4, <1>5, <1>6

(* The other answers carry nothing.                                         *)
LEMMA Bare ==
    ASSUME NEW there \in SUBSET Task, NEW r \in Calls(there),
           r.m \notin {"projects", "tasks", "task"}
    PROVE  Back(r) \in Returns(there) /\ Back(r).req = r
  BY Values DEF Back, Returns

-----------------------------------------------------------------------------
(* How the queues move. *)

LEMMA Sends ==
    ASSUME TypeInv, NEW reqs \in SUBSET Calls(made), Ask(reqs)
    PROVE  /\ IsABag(up') /\ BagToSet(up') = BagToSet(up) \cup reqs
           /\ BagToSet(up') \subseteq Calls(made) /\ crossed' \in BOOLEAN
<1>1. IsABag(up) /\ BagToSet(up) \subseteq Calls(made) /\ crossed \in BOOLEAN
  BY DEF TypeInv, LinkOK
<1>2. up' = up (+) SetToBag(reqs)
  BY DEF Ask
<1>3. IsABag(up') /\ BagToSet(up') = BagToSet(up) \cup reqs
  BY <1>1, <1>2, Added
<1>4. crossed' \in BOOLEAN
  BY <1>1 DEF Ask
<1> QED
  BY <1>1, <1>3, <1>4

LEMMA Comes ==
    ASSUME TypeInv, NEW b \in BagToSet(replies), NEW methods, Takes(b, methods)
    PROVE  /\ b \in Returns(made) /\ b.req.m \in methods /\ b.req \in Calls(made)
           /\ IsABag(replies') /\ BagToSet(replies') \subseteq BagToSet(replies)
           /\ BagToSet(replies') \subseteq Returns(made)
           /\ \A c \in BagToSet(replies) : c # b => c \in BagToSet(replies')
<1>1. /\ IsABag(replies) /\ BagToSet(replies) \subseteq Returns(made)
      /\ b.req.m \in methods /\ replies' = Without(replies, b)
  BY DEF TypeInv, LinkOK, Takes
<1>2. b.req \in Calls(made)
  BY <1>1 DEF Returns
<1> QED
  BY <1>1, <1>2, Taken

LEMMA Served ==
    ASSUME TypeInv, NEW r \in BagToSet(up), NEW methods, NextRequest(r, methods)
    PROVE  /\ r \in Calls(made) /\ r.m \in methods /\ connected /\ epoch \in Worker
           /\ serve[epoch].pc = "idle"
           /\ IsABag(up') /\ BagToSet(up') \subseteq BagToSet(up)
           /\ BagToSet(up') \subseteq Calls(made)
           /\ \A c \in BagToSet(up) : c # r => c \in BagToSet(up')
<1>1. /\ IsABag(up) /\ BagToSet(up) \subseteq Calls(made) /\ epoch \in Worker
      /\ r.m \in methods /\ connected /\ serve[epoch].pc = "idle" /\ up' = Without(up, r)
  BY DEF TypeInv, LinkOK, NextRequest, Worker
<1> QED
  BY <1>1, Taken

LEMMA Replies ==
    ASSUME TypeInv, NEW b \in Returns(made), Reply(b)
    PROVE  /\ IsABag(replies') /\ BagToSet(replies') = BagToSet(replies) \cup {b}
           /\ BagToSet(replies') \subseteq Returns(made)
<1>1. /\ IsABag(replies) /\ BagToSet(replies) \subseteq Returns(made)
      /\ replies' = replies (+) SetToBag({b})
  BY DEF TypeInv, LinkOK, Reply
<1> QED
  BY <1>1, Added

LEMMA Hearing ==
    ASSUME TypeInv, NEW kind, Hears(kind)
    PROVE  /\ Heard \in Pushes(made) /\ Heard.kind = kind /\ Heard = events[1]
           /\ events \in Seq(Pushes(made)) /\ events # <<>>
           /\ events' = Tail(events) /\ events' \in Seq(Pushes(made))
           /\ Len(events) \in Nat /\ Len(events') = Len(events) - 1 /\ 1 \in 1..Len(events)
           /\ \A i \in 1..Len(events') : events'[i] = events[i + 1]
<1>1. /\ events \in Seq(Pushes(made)) /\ events # <<>> /\ Heard = Head(events)
      /\ Heard.kind = kind /\ events' = Tail(events)
  BY DEF TypeInv, LinkOK, Hears, Heard
<1> QED
  BY <1>1

LEMMA Pushed ==
    ASSUME NEW S, NEW q \in Seq(S), NEW e \in S
    PROVE  /\ Append(q, e) \in Seq(S) /\ Len(q) \in Nat /\ Len(Append(q, e)) = Len(q) + 1
           /\ \A i \in 1..Len(q) : Append(q, e)[i] = q[i]
           /\ Append(q, e)[Len(q) + 1] = e
  OBVIOUS

LEMMA OneMore ==
    ASSUME NEW S, NEW q \in Seq(S), NEW e \in S, NEW a, a = Append(q, e)
    PROVE  /\ a \in Seq(S) /\ Len(q) \in Nat /\ Len(q) + 1 \in 1..Len(a) /\ a[Len(q) + 1] = e
  BY Pushed

LEMMA EventsAre ==
    ASSUME NEW there \in SUBSET Task
    PROVE  /\ Event("project-changed", None, None) \in Pushes(there)
           /\ \A t \in there : /\ Event("task-changed", ProjectOf[t], t) \in Pushes(there)
                               /\ Event("task-changed", ProjectOf[t], t).kind = "task-changed"
                               /\ Event("task-changed", ProjectOf[t], t).t = t
           /\ \A ok \in BOOLEAN : /\ Status(ok) \in Pushes(there) /\ IsStatus(Status(ok))
                                  /\ Status(ok).ok = ok
           /\ ~IsStatus(Event("project-changed", None, None))
           /\ \A t : ~IsStatus(Event("task-changed", ProjectOf[t], t))
  BY Values DEF Event, Status, Pushes, IsStatus

(* The switch of the active project is an unsubscription and a              *)
(* subscription, or nothing.                                                *)
LEMMA Follows ==
    ASSUME TypeInv, NEW p \in Project \cup {None}, NEW now \in BOOLEAN, loaded => now
    PROVE  /\ Follow(p, now) \subseteq Calls(made)
           /\ \/ Follow(p, now) = {} /\ (now => (loaded /\ p = active) \/ p = None)
              \/ /\ now /\ p # None /\ Enter(p) \in Follow(p, now) /\ Leave(p) \notin Follow(p, now)
                 /\ \A q \in Project : Enter(q) \in Follow(p, now) => q = p
              \/ now /\ p = None /\ \A q \in Project : Enter(q) \notin Follow(p, now)
           /\ ~loaded => \A r \in Follow(p, now) : r.m # "unsubscribe"
<1> DEFINE old == IF loaded THEN active ELSE None
           new == IF now THEN p ELSE None
           off == IF old = None THEN {} ELSE {Leave(old)}
           on == IF new = None THEN {} ELSE Watch(new)
<1>1. /\ active \in Project \cup {None} /\ loaded \in BOOLEAN /\ made \in SUBSET Task
      /\ None \notin Project
  BY Values DEF TypeInv, AppOK, DaemonOK
<1>2. Follow(p, now) = IF old = new THEN {} ELSE off \cup on
  BY DEF Follow
<1>3. /\ \A q \in Project : Enter(q).m = "subscribe" /\ Enter(q).p = q
      /\ \A q \in Project : Leave(q).m = "unsubscribe" /\ Leave(q).p = q
      /\ \A q \in Project : \A r \in RefreshTasks(q) : r.m = "tasks"
  BY DEF Enter, Leave, Req, RefreshTasks
<1>4. /\ old \in Project \cup {None} /\ new \in Project \cup {None}
      /\ (~loaded => old = None) /\ (loaded => old = active)
      /\ (~now => new = None) /\ (now => new = p)
  BY <1>1
<1>5. off \subseteq Calls(made) /\ on \subseteq Calls(made)
  BY <1>1, <1>4, Asks
<1>6. /\ \A r \in off : r.m = "unsubscribe" /\ r = Leave(old) /\ old # None
      /\ \A r \in on : r.m \in {"subscribe", "tasks"} /\ new # None
      /\ \A r \in on : r.m = "subscribe" => r = Enter(new)
      /\ new # None => Enter(new) \in on
  BY <1>3, <1>4 DEF Watch
<1> HIDE DEF old, new, off, on
<1>7. CASE old = new
  <2>1. Follow(p, now) = {}
    BY <1>2, <1>7
  <2>2. now => (loaded /\ p = active) \/ p = None
    BY <1>1, <1>4, <1>7
  <2> QED
    BY <2>1, <2>2
<1>8. CASE old # new /\ new = None
  <2>1. \A r \in Follow(p, now) : r.m = "unsubscribe" /\ old # None
    BY <1>2, <1>6, <1>8
  <2>2. loaded /\ now /\ p = None
    BY <1>1, <1>4, <1>8
  <2> QED
    BY <1>2, <1>3, <1>5, <1>8, <2>1, <2>2
<1>9. CASE old # new /\ new # None
  <2>1. now /\ p = new /\ p \in Project
    BY <1>4, <1>9
  <2>2. Enter(p) \in Follow(p, now)
    BY <1>2, <1>6, <1>9, <2>1
  <2>3. Leave(p) \notin Follow(p, now)
    BY <1>2, <1>3, <1>4, <1>6, <1>9, <2>1
  <2>4. ASSUME NEW q \in Project, Enter(q) \in Follow(p, now) PROVE q = p
    BY <1>2, <1>3, <1>6, <1>9, <2>1, <2>4
  <2>5. ~loaded => \A r \in Follow(p, now) : r.m # "unsubscribe"
    BY <1>2, <1>4, <1>6, <1>9
  <2> QED
    BY <1>2, <1>5, <1>9, <2>1, <2>2, <2>3, <2>4, <2>5
<1> QED
  BY <1>7, <1>8, <1>9

-----------------------------------------------------------------------------
(* Types. *)

LEMMA TypeInit == Init => TypeInv
<1> SUFFICES ASSUME Init PROVE TypeInv
  OBVIOUS
<1> USE DEF Init
<1>1. /\ registered \in SUBSET Project /\ active \in Project \cup {None}
      /\ made \in SUBSET Task
  BY DesktopAssumption
<1>2. /\ file \in [Task -> Text] /\ told \in [Task -> Text] /\ shown \in [Task -> Text]
      /\ serve \in [Worker -> Serves(made)] /\ pushing \in [Task -> Nat]
      /\ lock \in [Task -> Worker \cup {None}] /\ read \in [Task -> Text \cup {None}]
      /\ \A t \in Task : pushing[t] = 0
  BY Values DEF Worker
<1>3. IsABag(up) /\ BagToSet(up) = RefreshProjects
  BY DEF IsABag, BagToSet, SetToBag, RefreshProjects
<1>4. BagToSet(up) \subseteq Calls(made)
  BY <1>1, <1>3, Asks
<1>5. IsABag(replies) /\ BagToSet(replies) \subseteq Returns(made)
  BY Nothing
<1>6. epoch \in Conn /\ events \in Seq(Pushes(made)) /\ owed \in Nat
  BY Values
<1> QED
  BY <1>1, <1>2, <1>3, <1>4, <1>5, <1>6 DEF TypeInv, DaemonOK, LinkOK, AppOK

(* More tasks are made: all that is under way is still right.               *)
LEMMA Grown ==
    ASSUME TypeInv, made' \in SUBSET Task, made \subseteq made',
           UNCHANGED <<linkVars, guiVars, serve>>
    PROVE  /\ LinkOK' /\ AppOK' /\ serve' \in [Worker -> Serves(made')]
<1>1. /\ Calls(made) \subseteq Calls(made') /\ Returns(made) \subseteq Returns(made')
      /\ Pushes(made) \subseteq Pushes(made') /\ Serves(made) \subseteq Serves(made')
  <2>1. made \in SUBSET Task
    BY DEF TypeInv, DaemonOK
  <2> QED
    BY <2>1, Wider
<1>2. events \in Seq(Pushes(made'))
  BY <1>1 DEF TypeInv, LinkOK
<1>3. LinkOK'
  BY <1>1, <1>2 DEF TypeInv, LinkOK, linkVars
<1>4. AppOK'
  BY DEF TypeInv, AppOK, guiVars, Of
<1>5. serve' \in [Worker -> Serves(made')]
  BY <1>1 DEF TypeInv, DaemonOK
<1> QED
  BY <1>3, <1>4, <1>5

LEMMA TypeStepOthers ==
    ASSUME TypeInv
    PROVE  /\ Register => TypeInv'
           /\ \A t \in Task : MoveTask(t) => TypeInv'
           /\ \A t \in Task : EmitTaskChanged(t) => TypeInv'
           /\ AgentWrites => TypeInv'
<1> USE DEF guiVars, linkVars, boundVars
<1>a. made \in SUBSET Task /\ events \in Seq(Pushes(made))
  BY DEF TypeInv, DaemonOK, LinkOK
<1>1. ASSUME Register PROVE TypeInv'
  <2>1. events' \in Seq(Pushes(made))
    BY <1>1, <1>a, EventsAre, Pushed DEF Register, EmitProjectChanged, Push
  <2>2. registered' \in SUBSET Project
    BY <1>1 DEF Register, AddProject, RemoveProject, TypeInv, DaemonOK
  <2> QED
    BY <1>1, <2>1, <2>2 DEF Register, TypeInv, DaemonOK, LinkOK, AppOK
<1>2. ASSUME NEW t \in Task, MoveTask(t) PROVE TypeInv'
  <2>1. /\ made' = made \cup {t} /\ UNCHANGED <<linkVars, guiVars, serve, registered, file, lock, told>>
        /\ pushing' = [pushing EXCEPT ![t] = pushing[t] + 1]
    BY <1>2 DEF MoveTask, NotifyTaskChange
  <2>2. LinkOK' /\ AppOK' /\ serve' \in [Worker -> Serves(made')]
    BY <1>a, <2>1, Grown
  <2>3. pushing' \in [Task -> Nat] /\ \A u \in Task : pushing'[u] > 0 => u \in made'
    BY <2>1 DEF TypeInv, DaemonOK
  <2> QED
    BY <1>a, <2>1, <2>2, <2>3 DEF TypeInv, DaemonOK
<1>3. ASSUME NEW t \in Task, EmitTaskChanged(t) PROVE TypeInv'
  <2>1. /\ pushing[t] > 0 /\ pushing' = [pushing EXCEPT ![t] = pushing[t] - 1]
        /\ IF ProjectOf[t] \in roots THEN Push(Event("task-changed", ProjectOf[t], t))
                                     ELSE UNCHANGED events
    BY <1>3 DEF EmitTaskChanged
  <2>2. t \in made
    BY <2>1 DEF TypeInv, DaemonOK
  <2>3. events' \in Seq(Pushes(made))
    BY <1>a, <2>1, <2>2, EventsAre, Pushed DEF Push
  <2>4. pushing' \in [Task -> Nat] /\ \A u \in Task : pushing'[u] > 0 => u \in made
    BY <2>1 DEF TypeInv, DaemonOK
  <2> QED
    BY <1>3, <2>3, <2>4 DEF EmitTaskChanged, TypeInv, DaemonOK, LinkOK, AppOK
<1>4. ASSUME AgentWrites PROVE TypeInv'
  <2>1. PICK t \in made, c \in Comment \cup {None}, m \in Writes :
            serve' = [serve EXCEPT ![Agent] = [Idle EXCEPT !.req = Req(m, ProjectOf[t], t, c), !.pc = "lock"]]
    BY <1>4 DEF AgentWrites
  <2> DEFINE r == Req(m, ProjectOf[t], t, c)
  <2>2. r \in ReqType /\ r.m \in Writes /\ r.t \in made
    BY <1>a, Values DEF Req, ReqType, CommentId
  <2> HIDE DEF r
  <2>3. [Idle EXCEPT !.req = r, !.pc = "lock"] \in Serves(made)
    BY <2>2, Values DEF Serves, Idle
  <2>4. serve' \in [Worker -> Serves(made)]
    BY <2>1, <2>3 DEF TypeInv, DaemonOK, r
  <2> QED
    BY <1>4, <2>4 DEF AgentWrites, TypeInv, DaemonOK, LinkOK, AppOK
<1> QED
  BY <1>1, <1>2, <1>3, <1>4

LEMMA TypeStepServe ==
    ASSUME TypeInv
    PROVE  /\ \A r \in BagToSet(up) : Serve(r) => TypeInv'
           /\ \A w \in Worker : Writing(w) => TypeInv'
<1> USE DEF guiVars, linkVars, boundVars, daemonVars
<1>a. made \in SUBSET Task /\ DaemonOK
  BY DEF TypeInv, DaemonOK
<1>1. ASSUME NEW r \in BagToSet(up), Handle(r) PROVE TypeInv'
  <2>1. /\ r \in Calls(made) /\ r.m \in {"projects", "tasks", "task"}
        /\ IsABag(up') /\ BagToSet(up') \subseteq Calls(made)
    BY <1>1, Served DEF Handle
  <2>2. Answer(r) \in Returns(made)
    BY <1>a, <2>1, Answered
  <2>3. IsABag(replies') /\ BagToSet(replies') \subseteq Returns(made)
    BY <1>1, <2>2, Replies DEF Handle
  <2>4. read' \in [Task -> Text \cup {None}]
    <3>1. r.t \in made => file[r.t] \in Text
      BY <1>a DEF DaemonOK
    <3> QED
      BY <1>1, <3>1 DEF Handle, Answers, TypeInv, LinkOK
  <2> QED
    BY <1>1, <2>1, <2>3, <2>4 DEF Handle, TypeInv, DaemonOK, LinkOK, AppOK
<1>2. ASSUME NEW r \in BagToSet(up), Subscribe(r) PROVE TypeInv'
  <2>1. /\ r \in Calls(made) /\ r.m \in {"subscribe", "unsubscribe"}
        /\ IsABag(up') /\ BagToSet(up') \subseteq Calls(made)
    BY <1>2, Served DEF Subscribe
  <2>2. r.p \in Project /\ Back(r) \in Returns(made)
    BY <1>a, <2>1, CallFacts, Bare
  <2>3. IsABag(replies') /\ BagToSet(replies') \subseteq Returns(made)
    BY <1>2, <2>2, Replies DEF Subscribe
  <2> QED
    BY <1>2, <2>1, <2>2, <2>3 DEF Subscribe, TypeInv, DaemonOK, LinkOK, AppOK
<1>3. ASSUME NEW r \in BagToSet(up), BeginWrite(r) PROVE TypeInv'
  <2>1. /\ r \in Calls(made) /\ r.m \in Writes /\ epoch \in Worker
        /\ IsABag(up') /\ BagToSet(up') \subseteq Calls(made)
    BY <1>3, Served DEF BeginWrite
  <2>2. r \in ReqType /\ r.t \in made
    BY <1>a, <2>1, CallFacts
  <2>3. [Idle EXCEPT !.req = r, !.pc = "lock"] \in Serves(made)
    BY <2>1, <2>2, Values DEF Serves, Idle
  <2>4. serve' \in [Worker -> Serves(made)]
    BY <1>3, <2>3 DEF BeginWrite, TypeInv, DaemonOK
  <2> QED
    BY <1>3, <2>1, <2>4 DEF BeginWrite, TypeInv, DaemonOK, LinkOK, AppOK
<1>4. ASSUME NEW w \in Worker, TakeCommentLock(w) PROVE TypeInv'
  <2> DEFINE s == serve[w]
             t == s.req.t
             id == IF s.req.m = "add" THEN NewCommentId(ReadComments(t)) ELSE s.req.c
  <2>1. s \in Serves(made) /\ s.pc = "lock" /\ t \in made /\ s.req.m \in Writes
    BY <1>4 DEF TypeInv, DaemonOK, TakeCommentLock, Serves
  <2>2. ReadComments(t) \in Text /\ id \in CommentId
    BY <1>a, <2>1 DEF ReadComments, DaemonOK, CommentId, Serves, ReqType
  <2>3. serve' = [serve EXCEPT ![w].pc = "write", ![w].base = ReadComments(t), ![w].req.c = id]
    BY <1>4 DEF TakeCommentLock
  <2> HIDE DEF id
  <2>4. serve' \in [Worker -> Serves(made)]
    BY <2>1, <2>2, <2>3 DEF TypeInv, DaemonOK, Serves, ReqType
  <2>5. lock' \in [Task -> Worker \cup {None}]
    BY <1>4, <2>1 DEF TakeCommentLock, TypeInv, DaemonOK
  <2> QED
    BY <1>4, <2>4, <2>5 DEF TakeCommentLock, TypeInv, DaemonOK, LinkOK, AppOK
<1>5. ASSUME NEW w \in Worker, WriteComments(w) PROVE TypeInv'
  <2> DEFINE r == serve[w].req
             f == Put(serve[w].base, r)
  <2>1. /\ r \in ReqType /\ r.m \in Writes /\ r.t \in made /\ serve[w].base \in Text
        /\ told[r.t] \in Text
    BY <1>5, <1>a DEF WriteComments, DaemonOK, Serves
  <2>2. f \in Text /\ Put(told[r.t], r) \in Text
    BY <2>1, Puts
  <2>3. file' \in [Task -> Text] /\ told' \in [Task -> Text]
    BY <1>5, <1>a, <2>1, <2>2 DEF WriteComments, DaemonOK
  <2>4. /\ lock' \in [Task -> Worker \cup {None}] /\ pushing' \in [Task -> Nat]
        /\ \A u \in Task : pushing'[u] > 0 => u \in made
    BY <1>5, <1>a, <2>1 DEF WriteComments, NotifyTaskChange, DaemonOK
  <2>5. serve' \in [Worker -> Serves(made)]
    BY <1>5, <1>a, Values DEF WriteComments, DaemonOK
  <2>6. r \in Calls(made) /\ r.m \notin {"projects", "tasks", "task"}
    BY <1>a, <2>1, Asks DEF Writes
  <2>7. IsABag(replies') /\ BagToSet(replies') \subseteq Returns(made)
    <3>1. Back(r) \in Returns(made)
      BY <1>a, <2>6, Bare
    <3> QED
      BY <1>5, <3>1, Replies DEF WriteComments, TypeInv, LinkOK
  <2> QED
    BY <1>5, <2>3, <2>4, <2>5, <2>7 DEF WriteComments, TypeInv, DaemonOK, LinkOK, AppOK
<1> QED
  BY <1>1, <1>2, <1>3, <1>4, <1>5 DEF Serve, Writing

LEMMA TypeStepHost ==
    ASSUME TypeInv
    PROVE  /\ Host => TypeInv'
           /\ \A b \in BagToSet(replies) : ReplyLost(b) => TypeInv'
           /\ \A r \in BagToSet(up) : Fail(r) => TypeInv'
<1> USE DEF guiVars, linkVars, boundVars, daemonVars
<1>a. /\ made \in SUBSET Task /\ events \in Seq(Pushes(made)) /\ IsABag(up) /\ IsABag(replies)
      /\ BagToSet(up) \subseteq Calls(made) /\ BagToSet(replies) \subseteq Returns(made)
  BY DEF TypeInv, DaemonOK, LinkOK
<1>1. ASSUME Drop PROVE TypeInv'
  <2>1. IsABag(up') /\ BagToSet(up') \subseteq Calls(made)
    <3>1. CASE serve[epoch].pc = "idle"
      BY <1>1, <1>a, <3>1 DEF Drop
    <3>2. CASE serve[epoch].pc # "idle"
      <4>1. /\ serve[epoch].req \in ReqType /\ serve[epoch].req.m \in Writes
            /\ serve[epoch].req.t \in made
        BY <3>2 DEF TypeInv, DaemonOK, LinkOK, Worker, Serves
      <4>2. {serve[epoch].req} \subseteq Calls(made)
        BY <1>a, <4>1, Asks
      <4>3. up' = up (+) SetToBag({serve[epoch].req})
        BY <1>1, <3>2 DEF Drop
      <4> QED
        BY <1>a, <4>2, <4>3, Added
    <3> QED
      BY <3>1, <3>2
  <2>2. events' \in Seq(Pushes(made))
    <3>1. PICK k \in 0..Len(events) : events' = SubSeq(events, 1, k)
      BY <1>1 DEF Drop
    <3> QED
      BY <1>a, <3>1
  <2>3. epoch' \in Conn
    BY <1>1, Values DEF Drop, TypeInv, LinkOK
  <2> QED
    BY <1>1, <2>1, <2>2, <2>3 DEF Drop, TypeInv, DaemonOK, LinkOK, AppOK
<1>2. ASSUME SayLost PROVE TypeInv'
  <2>1. Status(FALSE) \in Pushes(made) /\ events' = Append(events, Status(FALSE))
    BY <1>2, <1>a, EventsAre DEF SayLost
  <2>2. events' \in Seq(Pushes(made))
    BY <1>a, <2>1, OneMore
  <2>3. owed' \in Nat
    BY <1>2 DEF SayLost, TypeInv, LinkOK
  <2> QED
    BY <1>2, <2>2, <2>3 DEF SayLost, TypeInv, DaemonOK, LinkOK, AppOK
<1>3. ASSUME Dial PROVE TypeInv'
  <2>1. Status(TRUE) \in Pushes(made) /\ events' = Append(events, Status(TRUE))
    BY <1>3, <1>a, EventsAre DEF Dial
  <2>2. events' \in Seq(Pushes(made))
    BY <1>a, <2>1, OneMore
  <2>3. owed' \in Nat /\ unheard' \in BOOLEAN
    BY <1>3 DEF Dial, TypeInv, LinkOK
  <2> QED
    BY <1>3, <2>2, <2>3 DEF Dial, TypeInv, DaemonOK, LinkOK, AppOK
<1>4. ASSUME NEW b \in BagToSet(replies), ReplyLost(b) PROVE TypeInv'
  <2>1. {b.req} \subseteq Calls(made)
    BY <1>a DEF Returns
  <2>2. IsABag(up') /\ BagToSet(up') \subseteq Calls(made)
    BY <1>4, <1>a, <2>1, Added DEF ReplyLost
  <2>3. IsABag(replies') /\ BagToSet(replies') \subseteq Returns(made)
    BY <1>4, <1>a, Taken DEF ReplyLost
  <2> QED
    BY <1>4, <2>2, <2>3 DEF ReplyLost, TypeInv, DaemonOK, LinkOK, AppOK
<1>5. ASSUME NEW r \in BagToSet(up), Fail(r) PROVE TypeInv'
  <2>1. IsABag(up') /\ BagToSet(up') \subseteq Calls(made)
    BY <1>5, <1>a, Taken DEF Fail
  <2> QED
    BY <1>5, <2>1 DEF Fail, TypeInv, DaemonOK, LinkOK, AppOK
<1> QED
  BY <1>1, <1>2, <1>3, <1>4, <1>5 DEF Host

LEMMA TypeStepUser ==
    ASSUME TypeInv
    PROVE  User => TypeInv'
<1> USE DEF guiVars, linkVars, boundVars, daemonVars, unasked
<1>a. made \in SUBSET Task /\ AppOK
  BY DEF TypeInv, DaemonOK
<1>1. ASSUME SelectProject PROVE TypeInv'
  <2>1. PICK p \in listed : active' = p /\ Ask(Follow(p, loaded))
    BY <1>1 DEF SelectProject
  <2>2. p \in Project /\ loaded \in BOOLEAN
    BY <1>a DEF AppOK
  <2>3. Follow(p, loaded) \subseteq Calls(made)
    BY <2>2, Follows
  <2>4. IsABag(up') /\ BagToSet(up') \subseteq Calls(made) /\ crossed' \in BOOLEAN
    BY <2>1, <2>3, Sends
  <2> QED
    BY <1>1, <2>1, <2>2, <2>4, Values DEF SelectProject, TypeInv, DaemonOK, LinkOK, AppOK
<1>2. ASSUME SelectTask PROVE TypeInv'
  <2>1. PICK t \in rows[active] \cup {None} :
            picked' = t /\ Ask(IF t = None THEN {} ELSE RefreshTask(active, t))
    BY <1>2 DEF SelectTask, Select
  <2>2. active \in Project /\ active # None /\ (t = None \/ t \in Of(active, made))
    BY <1>2, <1>a, <2>1, Values DEF SelectTask, AppOK
  <2>3. (IF t = None THEN {} ELSE RefreshTask(active, t)) \subseteq Calls(made)
    BY <1>a, <2>2, Asks DEF Of
  <2>4. IsABag(up') /\ BagToSet(up') \subseteq Calls(made) /\ crossed' \in BOOLEAN
    BY <2>1, <2>3, Sends
  <2>5. picked' \in Task \cup {None}
    BY <1>a, <2>1, <2>2 DEF Of
  <2> QED
    BY <1>2, <2>1, <2>2, <2>4, <2>5 DEF SelectTask, TypeInv, DaemonOK, LinkOK, AppOK
<1>3. ASSUME WriteComment PROVE TypeInv'
  <2>1. PICK m \in Writes, c \in Comment \cup {None} : Ask({Req(m, active, picked, c)})
    BY <1>3 DEF WriteComment
  <2>2. active \in Project /\ picked \in made /\ picked \in Task
    BY <1>3, <1>a DEF WriteComment, AppOK, Of
  <2>3. Req(m, active, picked, c) \in ReqType
    BY <2>1, <2>2 DEF Req, ReqType, CommentId
  <2>4. Req(m, active, picked, c).m \in Writes /\ Req(m, active, picked, c).t \in made
    BY <2>1, <2>2 DEF Req
  <2>5. {Req(m, active, picked, c)} \subseteq Calls(made)
    BY <1>a, <2>3, <2>4, Asks
  <2>6. IsABag(up') /\ BagToSet(up') \subseteq Calls(made) /\ crossed' \in BOOLEAN
    BY <2>1, <2>5, Sends
  <2> QED
    BY <1>3, <2>6 DEF WriteComment, TypeInv, DaemonOK, LinkOK, AppOK
<1> QED
  BY <1>1, <1>2, <1>3 DEF User

(* The pick of the active project is of the active project.                 *)
LEMMA TypeStepFold ==
    ASSUME TypeInv
    PROVE  \A b \in BagToSet(replies) : Fold(b) => TypeInv'
<1> USE DEF guiVars, linkVars, boundVars, daemonVars, unasked
<1>a. made \in SUBSET Task /\ AppOK
  BY DEF TypeInv, DaemonOK
<1>1. ASSUME NEW b \in BagToSet(replies), OnProjects(b) PROVE TypeInv'
  <2>1. /\ b \in Returns(made) /\ b.req.m = "projects"
        /\ IsABag(replies') /\ BagToSet(replies') \subseteq Returns(made)
    BY <1>1, Comes DEF OnProjects
  <2>2. b.set \subseteq Project
    BY <2>1 DEF Returns
  <2>3. active' \in Project \cup {None}
    BY <1>1, <1>a, <2>2 DEF OnProjects, Resolved, AppOK
  <2>4. Follow(active', TRUE) \subseteq Calls(made)
    BY <2>3, Follows
  <2>5. IsABag(up') /\ BagToSet(up') \subseteq Calls(made) /\ crossed' \in BOOLEAN
    BY <1>1, <2>4, Sends DEF OnProjects
  <2>6. /\ rows' \in [Project -> SUBSET Task]
        /\ \A p \in Project : rows'[p] \subseteq Of(p, made)
    BY <1>1, <1>a DEF OnProjects, DropSlices, AppOK
  <2>7. /\ picked' \in Task \cup {None}
        /\ picked' # None => active' # None /\ picked' \in Of(active', made)
    BY <1>1, <1>a DEF OnProjects, PickOf, AppOK
  <2>8. UNCHANGED <<daemonVars, unasked, events, shown, badge, told>> /\ listed' = b.set /\ loaded' = TRUE
    BY <1>1 DEF OnProjects
  <2>9. DaemonOK'
    BY <1>a, <2>8 DEF TypeInv, DaemonOK
  <2>10. listed' \in SUBSET Project /\ loaded' \in BOOLEAN /\ shown' \in [Task -> Text]
         /\ badge' \in BOOLEAN /\ made' = made
    BY <1>a, <2>2, <2>8 DEF AppOK
  <2>11. AppOK'
    BY <2>3, <2>6, <2>7, <2>10 DEF AppOK
  <2>12. LinkOK'
    BY <2>1, <2>5, <2>8 DEF TypeInv, LinkOK
  <2> QED
    BY <2>9, <2>11, <2>12 DEF TypeInv
<1>2. ASSUME NEW b \in BagToSet(replies), OnTasks(b) PROVE TypeInv'
  <2>1. /\ b \in Returns(made) /\ b.req.m = "tasks" /\ b.req \in Calls(made)
        /\ IsABag(replies') /\ BagToSet(replies') \subseteq Returns(made)
    BY <1>2, Comes DEF OnTasks
  <2>2. b.set \subseteq Of(b.req.p, made) /\ b.req.p \in Project
    BY <1>a, <2>1, CallFacts DEF Returns
  <2>3. /\ rows' \in [Project -> SUBSET Task]
        /\ \A p \in Project : rows'[p] \subseteq Of(p, made)
    BY <1>2, <1>a, <2>2 DEF OnTasks, PatchProject, AppOK, Of
  <2> QED
    BY <1>2, <2>1, <2>3 DEF OnTasks, TypeInv, DaemonOK, LinkOK, AppOK
<1>3. ASSUME NEW b \in BagToSet(replies), OnTask(b) PROVE TypeInv'
  <2>1. /\ b \in Returns(made) /\ b.req.m = "task" /\ b.req \in Calls(made)
        /\ IsABag(replies') /\ BagToSet(replies') \subseteq Returns(made)
    BY <1>3, Comes DEF OnTask
  <2>2. /\ b.ok => b.req.t \in Of(b.req.p, made)
        /\ b.text \in Text /\ b.req.p \in Project
    BY <1>a, <2>1, CallFacts DEF Returns
  <2>3. /\ rows' \in [Project -> SUBSET Task] /\ shown' \in [Task -> Text]
        /\ \A p \in Project : rows'[p] \subseteq Of(p, made)
    BY <1>3, <1>a, <2>2 DEF OnTask, Upsert, PatchProject, AppOK, Of
  <2> QED
    BY <1>3, <2>1, <2>3 DEF OnTask, TypeInv, DaemonOK, LinkOK, AppOK
<1>4. ASSUME NEW b \in BagToSet(replies), OnDone(b) PROVE TypeInv'
  <2>1. /\ b.req.m \in Writes /\ b.req \in Calls(made)
        /\ IsABag(replies') /\ BagToSet(replies') \subseteq Returns(made)
    BY <1>4, Comes DEF OnDone
  <2>2. b.req.t \in made /\ active \in Project \cup {None}
    BY <1>a, <2>1, CallFacts DEF AppOK
  <2>3. RefreshTask(active, b.req.t) \subseteq Calls(made)
    BY <1>a, <2>2, Asks
  <2>4. IsABag(up') /\ BagToSet(up') \subseteq Calls(made) /\ crossed' \in BOOLEAN
    BY <1>4, <2>3, Sends DEF OnDone
  <2> QED
    BY <1>4, <2>1, <2>4 DEF OnDone, TypeInv, DaemonOK, LinkOK, AppOK
<1>5. ASSUME NEW b \in BagToSet(replies), OnSubscribed(b) PROVE TypeInv'
  <2>1. IsABag(replies') /\ BagToSet(replies') \subseteq Returns(made)
    BY <1>5, Comes DEF OnSubscribed
  <2> QED
    BY <1>5, <2>1 DEF OnSubscribed, TypeInv, DaemonOK, LinkOK, AppOK
<1> QED
  BY <1>1, <1>2, <1>3, <1>4, <1>5 DEF Fold

(* What a status makes the app ask for.                                     *)
StatusAsks(v) ==
    IF badge = v \/ ~v THEN {}
    ELSE (IF active = None THEN {} ELSE Rewatch(active)) \cup ResyncSelection

LEMMA StatusAsked ==
    ASSUME TypeInv, NEW v \in BOOLEAN
    PROVE  /\ StatusAsks(v) \subseteq Calls(made)
           /\ \A q \in Project : Leave(q) \notin StatusAsks(v)
           /\ \A q \in Project : Enter(q) \in StatusAsks(v) => q = active
           /\ \A r \in StatusAsks(v) : r.m # "unsubscribe"
           /\ ~badge /\ v => /\ active # None => Enter(active) \in StatusAsks(v)
                             /\ picked # None => TaskReq(active, picked) \in StatusAsks(v)
<1>1. /\ made \in SUBSET Task /\ active \in Project \cup {None} /\ None \notin Project
      /\ picked # None => active # None /\ picked \in made
  BY Values DEF TypeInv, DaemonOK, AppOK, Of
<1>2. ResyncSelection \subseteq Calls(made) /\ \A r \in ResyncSelection : r.m = "task"
  BY <1>1, Asks DEF ResyncSelection, RefreshTask, Req
<1>3. /\ active # None => Rewatch(active) \subseteq Calls(made) /\ Enter(active) \in Rewatch(active)
      /\ \A r \in Rewatch(active) : r = Enter(active) \/ r.m = "tasks"
  BY <1>1, Asks DEF Rewatch, Watch, RefreshTasks, Req
<1>4. \A q : Enter(q).m = "subscribe" /\ Enter(q).p = q /\ Leave(q).m = "unsubscribe"
  BY DEF Enter, Leave, Req
<1>5. picked # None => TaskReq(active, picked) \in ResyncSelection
  BY <1>1 DEF ResyncSelection, RefreshTask, TaskReq
<1>6. /\ StatusAsks(v) \subseteq (IF active = None THEN {} ELSE Rewatch(active)) \cup ResyncSelection
      /\ ~badge /\ v => StatusAsks(v) = (IF active = None THEN {} ELSE Rewatch(active)) \cup ResyncSelection
  BY DEF StatusAsks
<1> QED
  BY <1>1, <1>2, <1>3, <1>4, <1>5, <1>6

LEMMA TypeStepHear ==
    ASSUME TypeInv
    PROVE  Hear => TypeInv'
<1> USE DEF guiVars, linkVars, boundVars, daemonVars, unasked
<1>a. made \in SUBSET Task /\ AppOK
  BY DEF TypeInv, DaemonOK
<1>1. ASSUME OnProjectChanged PROVE TypeInv'
  <2>1. events' \in Seq(Pushes(made))
    BY <1>1, Hearing DEF OnProjectChanged
  <2>2. IsABag(up') /\ BagToSet(up') \subseteq Calls(made) /\ crossed' \in BOOLEAN
    BY <1>1, <1>a, Asks, Sends DEF OnProjectChanged
  <2> QED
    BY <1>1, <2>1, <2>2 DEF OnProjectChanged, TypeInv, DaemonOK, LinkOK, AppOK
<1>2. ASSUME OnTaskChanged PROVE TypeInv'
  <2>1. /\ events' \in Seq(Pushes(made)) /\ Heard \in Pushes(made)
        /\ Heard.kind = "task-changed"
    BY <1>2, Hearing DEF OnTaskChanged
  <2>2. Heard.t \in made /\ Heard.p = ProjectOf[Heard.t] /\ Heard.p \in Project
    BY <1>a, <2>1, Values DEF Pushes
  <2>3. active \in Project \cup {None} /\ IfPicked(active, Heard.t) \subseteq Calls(made)
    BY <1>a, <2>2, Asks DEF IfPicked, AppOK
  <2>4. IsABag(up') /\ BagToSet(up') \subseteq Calls(made) /\ crossed' \in BOOLEAN
    BY <1>2, <2>3, Sends DEF OnTaskChanged, TypeInv, LinkOK
  <2>5. /\ rows' \in [Project -> SUBSET Task]
        /\ \A p \in Project : rows'[p] \subseteq Of(p, made)
    BY <1>2, <1>a, <2>2 DEF OnTaskChanged, Upsert, PatchProject, AppOK, Of
  <2> QED
    BY <1>2, <2>1, <2>4, <2>5 DEF OnTaskChanged, TypeInv, DaemonOK, LinkOK, AppOK
<1>3. ASSUME OnDaemonStatus PROVE TypeInv'
  <2>1. events' \in Seq(Pushes(made)) /\ Heard \in Pushes(made)
    BY <1>3, Hearing DEF OnDaemonStatus
  <2>2. Heard.ok \in BOOLEAN /\ badge' = Heard.ok /\ Ask(StatusAsks(Heard.ok))
    BY <1>3, <2>1 DEF OnDaemonStatus, Pushes, StatusAsks
  <2>3. IsABag(up') /\ BagToSet(up') \subseteq Calls(made) /\ crossed' \in BOOLEAN
    BY <2>2, StatusAsked, Sends
  <2> QED
    BY <1>3, <2>1, <2>2, <2>3 DEF OnDaemonStatus, TypeInv, DaemonOK, LinkOK, AppOK
<1> QED
  BY <1>1, <1>2, <1>3 DEF Hear

LEMMA TypeStep == TypeInv /\ [Next]_vars => TypeInv'
<1> SUFFICES ASSUME TypeInv, [Next]_vars PROVE TypeInv'
  OBVIOUS
<1>1. CASE UNCHANGED vars
  BY <1>1 DEF vars, daemonVars, linkVars, guiVars, boundVars, TypeInv, DaemonOK, LinkOK, AppOK
<1>2. CASE Next
  BY <1>2, TypeStepOthers, TypeStepServe, TypeStepHost, TypeStepUser, TypeStepFold, TypeStepHear
  DEF Next, Others, Worker
<1> QED
  BY <1>1, <1>2

-----------------------------------------------------------------------------
(* The lock makes each write one of the file as it is.                      *)
LEMMA CommentStep ==
    ASSUME TypeInv, CommentInv, [Next]_vars
    PROVE  CommentInv'
<1> USE DEF guiVars, linkVars, boundVars, daemonVars
<1>1. CASE UNCHANGED <<file, told, lock, serve>>
  BY <1>1 DEF CommentInv, CommentsKept
<1>2. ASSUME NEW w \in Worker, serve[w].pc = "idle", UNCHANGED <<file, told, lock>>,
             NEW r, serve' = [serve EXCEPT ![w] = [Idle EXCEPT !.req = r, !.pc = "lock"]]
      PROVE  CommentInv'
  <2>1. \A v \in Worker : v # w => serve'[v] = serve[v]
    BY <1>2 DEF TypeInv, DaemonOK
  <2>2. serve'[w].pc = "lock"
    BY <1>2 DEF TypeInv, DaemonOK, Idle
  <2> QED
    BY <1>2, <2>1, <2>2 DEF CommentInv, CommentsKept
<1>3. CASE AgentWrites
  BY <1>3, <1>2 DEF AgentWrites, Worker
<1>4. ASSUME NEW r \in BagToSet(up), BeginWrite(r) PROVE CommentInv'
  BY <1>4, <1>2, Served DEF BeginWrite
<1>5. ASSUME NEW w \in Worker, TakeCommentLock(w) PROVE CommentInv'
  <2> DEFINE t == serve[w].req.t
  <2>1. /\ serve[w].pc = "lock" /\ lock[t] = None /\ lock' = [lock EXCEPT ![t] = w]
        /\ UNCHANGED <<file, told>>
    BY <1>5 DEF TakeCommentLock, CanLock
  <2>2. serve[w] \in Serves(made) /\ t \in Task
    BY <2>1 DEF TypeInv, DaemonOK, Serves
  <2>3. /\ serve'[w].pc = "write" /\ serve'[w].base = file[t] /\ serve'[w].req.t = t
        /\ \A v \in Worker : v # w => serve'[v] = serve[v]
    BY <1>5, <2>2 DEF TakeCommentLock, ReadComments, TypeInv, DaemonOK, Serves, ReqType
  <2>4. lock'[t] = w
    BY <2>1, <2>2 DEF TypeInv, DaemonOK
  <2>5. ASSUME NEW v \in Worker, v # w, serve[v].pc = "write"
        PROVE  lock'[serve[v].req.t] = v /\ serve[v].base = file[serve[v].req.t]
    <3>1. lock[serve[v].req.t] = v /\ serve[v].base = file[serve[v].req.t] /\ v # None
      BY <2>5, Values DEF CommentInv
    <3> QED
      BY <2>1, <3>1 DEF TypeInv, DaemonOK
  <2> QED
    BY <2>1, <2>2, <2>3, <2>4, <2>5 DEF CommentInv, CommentsKept
<1>6. ASSUME NEW w \in Worker, WriteComments(w) PROVE CommentInv'
  <2> DEFINE r == serve[w].req
  <2>1. /\ serve[w].pc = "write" /\ file' = [file EXCEPT ![r.t] = Put(serve[w].base, r)]
        /\ told' = [told EXCEPT ![r.t] = Put(told[r.t], r)]
        /\ lock' = [lock EXCEPT ![r.t] = None] /\ serve' = [serve EXCEPT ![w] = Idle]
    BY <1>6 DEF WriteComments
  <2>2. r.t \in Task /\ serve[w].base = file[r.t] /\ lock[r.t] = w
    BY <2>1 DEF TypeInv, DaemonOK, Serves, CommentInv
  <2>3. file' = told'
    BY <2>1, <2>2 DEF CommentInv, CommentsKept
  <2>4. ASSUME NEW v \in Worker, serve'[v].pc = "write"
        PROVE  lock'[serve'[v].req.t] = v /\ serve'[v].base = file'[serve'[v].req.t]
    <3>1. v # w /\ serve'[v] = serve[v]
      BY <2>1, <2>4, Values DEF TypeInv, DaemonOK
    <3>2. lock[serve[v].req.t] = v /\ serve[v].base = file[serve[v].req.t]
      BY <2>4, <3>1 DEF CommentInv
    <3>3. serve[v].req.t # r.t /\ serve[v].req.t \in Task
      BY <2>2, <2>4, <3>1, <3>2 DEF TypeInv, DaemonOK, Serves
    <3> QED
      BY <2>1, <3>1, <3>2, <3>3 DEF TypeInv, DaemonOK
  <2> QED
    BY <2>3, <2>4 DEF CommentInv, CommentsKept
<1> QED
  <2>1. Others \/ (\E t \in Task : EmitTaskChanged(t)) \/ User \/ Host \/ UNCHANGED vars
            => UNCHANGED <<file, told, lock, serve>>
    BY DEF Others, Register, MoveTask, EmitTaskChanged, User, SelectProject, SelectTask,
           WriteComment, Host, Drop, SayLost, Dial, vars, unasked
  <2>2. \A r : Handle(r) \/ Subscribe(r) \/ Fail(r) => UNCHANGED <<file, told, lock, serve>>
    BY DEF Handle, Subscribe, Fail
  <2>3. \A b : Fold(b) \/ ReplyLost(b) => UNCHANGED <<file, told, lock, serve>>
    BY DEF Fold, OnProjects, OnTasks, OnTask, OnDone, OnSubscribed, ReplyLost, unasked
  <2>4. Hear => UNCHANGED <<file, told, lock, serve>>
    BY DEF Hear, OnProjectChanged, OnTaskChanged, OnDaemonStatus, unasked
  <2> QED
    BY <1>1, <1>3, <1>4, <1>5, <1>6, <2>1, <2>2, <2>3, <2>4 DEF Next, Serve, Writing, Worker

-----------------------------------------------------------------------------
(* Before the registry is loaded no project is left.                        *)
LEMMA LoadStep ==
    ASSUME TypeInv, LoadInv, [Next]_vars
    PROVE  LoadInv'
<1> USE DEF guiVars, linkVars, boundVars, daemonVars, unasked
<1> DEFINE Stays(r) == r.m # "unsubscribe"
<1> SUFFICES ASSUME ~loaded' PROVE LoadInv'
  BY DEF LoadInv
<1>a. /\ IsABag(up) /\ IsABag(replies) /\ made \in SUBSET Task
      /\ active \in Project \cup {None} /\ AppOK /\ DaemonOK
  BY DEF TypeInv, DaemonOK, LinkOK, AppOK
<1>1. ~loaded /\ listed' = listed
  <2>1. Others \/ AgentWrites \/ (\E t \in Task : EmitTaskChanged(t)) \/ User \/ Host \/ UNCHANGED vars
            => UNCHANGED <<loaded, listed>>
    BY DEF Others, Register, MoveTask, AgentWrites, EmitTaskChanged, User, SelectProject,
           SelectTask, WriteComment, Host, Drop, SayLost, Dial, vars
  <2>2. \A r : Serve(r) \/ Fail(r) => UNCHANGED <<loaded, listed>>
    BY DEF Serve, Handle, Subscribe, BeginWrite, Fail
  <2>3. \A b : Fold(b) \/ ReplyLost(b) => UNCHANGED <<loaded, listed>> \/ loaded'
    BY DEF Fold, OnProjects, OnTasks, OnTask, OnDone, OnSubscribed, ReplyLost
  <2>4. Hear => UNCHANGED <<loaded, listed>>
    BY DEF Hear, OnProjectChanged, OnTaskChanged, OnDaemonStatus
  <2>5. \A w : Writing(w) => UNCHANGED <<loaded, listed>>
    BY DEF Writing, TakeCommentLock, WriteComments
  <2> QED
    BY <2>1, <2>2, <2>3, <2>4, <2>5 DEF Next
<1>2. /\ listed = {} /\ ~crossed /\ \A r \in BagToSet(up) : Stays(r)
      /\ \A b \in BagToSet(replies) : Stays(b.req)
  BY <1>1 DEF LoadInv
<1>3. SUFFICES /\ ~crossed' /\ \A r \in BagToSet(up') : Stays(r)
               /\ \A b \in BagToSet(replies') : Stays(b.req)
  BY <1>1, <1>2 DEF LoadInv
<1> DEFINE Fine == /\ ~crossed' /\ \A r \in BagToSet(up') : Stays(r)
                   /\ \A b \in BagToSet(replies') : Stays(b.req)
<1>4. CASE UNCHANGED <<up, replies, crossed>>
  BY <1>2, <1>4
<1>5. ASSUME NEW reqs \in SUBSET Calls(made), Ask(reqs), \A r \in reqs : Stays(r)
      PROVE  ~crossed' /\ \A r \in BagToSet(up') : Stays(r)
  <2>1. BagToSet(up') = BagToSet(up) \cup reqs
    BY <1>5, Sends
  <2>2. \A p \in Project : ~In(Leave(p), up)
    BY <1>2 DEF In, Leave, Req
  <2> QED
    BY <1>2, <1>5, <2>1, <2>2 DEF Ask
<1>6. \A p \in Project \cup {None}, t \in made :
          /\ RefreshTask(p, t) \in SUBSET Calls(made)
          /\ \A r \in RefreshTask(p, t) : Stays(r)
  BY <1>a, Asks DEF RefreshTask, Req
<1>7. CASE User
  <2>1. ~SelectProject
    BY <1>2 DEF SelectProject
  <2>2. ASSUME SelectTask PROVE Fine
    <3>1. PICK t \in rows[active] \cup {None} : Ask(IF t = None THEN {} ELSE RefreshTask(active, t))
      BY <2>2 DEF SelectTask
    <3>2. active \in Project /\ (t = None \/ t \in made)
      BY <2>2, <1>a, <3>1 DEF SelectTask, AppOK, Of
    <3>3. (IF t = None THEN {} ELSE RefreshTask(active, t)) \in SUBSET Calls(made)
      BY <1>6, <3>2
    <3> QED
      BY <2>2, <1>2, <1>5, <1>6, <3>1, <3>2, <3>3 DEF SelectTask
  <2>3. ASSUME WriteComment PROVE Fine
    <3>1. PICK m \in Writes, c \in Comment \cup {None} : Ask({Req(m, active, picked, c)})
      BY <2>3 DEF WriteComment
    <3>2. active \in Project /\ picked \in made /\ picked \in Task
      BY <2>3, <1>a DEF WriteComment, AppOK, Of
    <3>3. Req(m, active, picked, c) \in ReqType
      BY <3>1, <3>2 DEF Req, ReqType, CommentId
    <3>4. Req(m, active, picked, c).m \in Writes /\ Req(m, active, picked, c).t \in made
      BY <3>1, <3>2 DEF Req
    <3>5. {Req(m, active, picked, c)} \in SUBSET Calls(made) /\ m # "unsubscribe"
      BY <1>a, <3>3, <3>4, Asks DEF Writes
    <3> QED
      BY <2>3, <1>2, <1>5, <3>1, <3>5 DEF WriteComment, Req
  <2> QED
    BY <1>7, <2>1, <2>2, <2>3 DEF User
<1>8. ASSUME NEW r \in BagToSet(up), Serve(r) \/ Fail(r) PROVE Fine
  <2>1. ASSUME NEW b \in Returns(made), Reply(b), b.req = r
        PROVE  \A c \in BagToSet(replies') : Stays(c.req)
    BY <1>2, <2>1, Replies
  <2>2. CASE Handle(r)
    <3>1. r \in Calls(made) /\ r.m \in {"projects", "tasks", "task"} /\ BagToSet(up') \subseteq BagToSet(up)
      BY <2>2, Served DEF Handle
    <3> QED
      BY <1>2, <1>a, <2>1, <2>2, <3>1, Answered DEF Handle
  <2>3. CASE Subscribe(r)
    <3>1. r \in Calls(made) /\ r.m \in {"subscribe", "unsubscribe"} /\ BagToSet(up') \subseteq BagToSet(up)
      BY <2>3, Served DEF Subscribe
    <3> QED
      BY <1>2, <1>a, <2>1, <2>3, <3>1, Bare DEF Subscribe
  <2>4. CASE BeginWrite(r)
    BY <1>2, <2>4, Served DEF BeginWrite
  <2>5. CASE Fail(r)
    BY <1>2, <1>a, <2>5, Taken DEF Fail
  <2> QED
    BY <1>8, <2>2, <2>3, <2>4, <2>5 DEF Serve
<1>9. ASSUME NEW b \in BagToSet(replies), Fold(b) \/ ReplyLost(b) PROVE Fine
  <2>1. CASE OnProjects(b)
    BY <2>1 DEF OnProjects
  <2>2. CASE OnTasks(b) \/ OnTask(b) \/ OnSubscribed(b)
    BY <1>2, <2>2, Comes DEF OnTasks, OnTask, OnSubscribed
  <2>3. CASE OnDone(b)
    <3>1. b.req.m \in Writes /\ b.req \in Calls(made) /\ BagToSet(replies') \subseteq BagToSet(replies)
      BY <2>3, Comes DEF OnDone
    <3>2. b.req.t \in made
      BY <1>a, <3>1, CallFacts
    <3> QED
      BY <1>2, <1>5, <1>6, <1>a, <2>3, <3>1, <3>2 DEF OnDone
  <2>4. CASE ReplyLost(b)
    <3>1. BagToSet(up') = BagToSet(up) \cup {b.req}
      BY <1>a, <2>4, Added DEF ReplyLost
    <3>2. BagToSet(replies') \subseteq BagToSet(replies)
      BY <1>a, <2>4, Taken DEF ReplyLost
    <3> QED
      BY <1>2, <2>4, <3>1, <3>2 DEF ReplyLost
  <2> QED
    BY <1>9, <2>1, <2>2, <2>3, <2>4 DEF Fold
<1>10. CASE Hear
  <2>1. CASE OnProjectChanged
    <3>1. RefreshProjects \in SUBSET Calls(made) /\ \A r \in RefreshProjects : Stays(r)
      BY <1>a, Asks DEF RefreshProjects, Req
    <3> QED
      BY <1>2, <1>5, <2>1, <3>1 DEF OnProjectChanged
  <2>2. CASE OnTaskChanged
    <3>1. Heard \in Pushes(made) /\ Heard.kind = "task-changed"
      BY <2>2, Hearing DEF OnTaskChanged
    <3>2. Heard.t \in made
      BY <3>1 DEF Pushes
    <3>3. IfPicked(active, Heard.t) \in SUBSET Calls(made) /\ \A r \in IfPicked(active, Heard.t) : Stays(r)
      BY <1>6, <1>a, <3>2 DEF IfPicked
    <3> QED
      BY <1>2, <1>5, <2>2, <3>3 DEF OnTaskChanged
  <2>3. CASE OnDaemonStatus
    <3>1. Heard \in Pushes(made)
      BY <2>3, Hearing DEF OnDaemonStatus
    <3>2. Heard.ok \in BOOLEAN /\ Ask(StatusAsks(Heard.ok))
      BY <2>3, <3>1 DEF OnDaemonStatus, Pushes, StatusAsks
    <3> QED
      BY <1>2, <1>5, <2>3, <3>2, StatusAsked DEF OnDaemonStatus
  <2> QED
    BY <1>10, <2>1, <2>2, <2>3 DEF Hear
<1>11. CASE Host
  <2>1. CASE SayLost \/ Dial
    <3>1. UNCHANGED <<up, replies, crossed>>
      BY <2>1 DEF SayLost, Dial
    <3> QED
      BY <1>4, <3>1
  <2>2. CASE Drop
    <3>1. serve[epoch].pc # "idle" => serve[epoch].req.m \in Writes
      BY <1>a DEF DaemonOK, TypeInv, LinkOK, Worker, Serves
    <3>2. serve[epoch].pc # "idle" => BagToSet(up') = BagToSet(up) \cup {serve[epoch].req}
      BY <1>a, <2>2, Added DEF Drop
    <3> QED
      BY <1>2, <2>2, <3>1, <3>2 DEF Drop, Writes
  <2> QED
    BY <1>11, <2>1, <2>2 DEF Host
<1>12. ASSUME NEW w \in Worker, Writing(w) PROVE Fine
  <2>1. CASE TakeCommentLock(w)
    BY <1>2, <2>1 DEF TakeCommentLock
  <2>2. CASE WriteComments(w)
    <3> DEFINE r == serve[w].req
    <3>1. r \in ReqType /\ r.m \in Writes /\ r.t \in made
      BY <1>a, <2>2 DEF WriteComments, DaemonOK, Serves
    <3>2. r \in Calls(made) /\ r.m \notin {"projects", "tasks", "task"} /\ Stays(r)
      BY <1>a, <3>1, Asks DEF Writes
    <3>3. Back(r) \in Returns(made) /\ Back(r).req = r
      BY <1>a, <3>2, Bare
    <3> HIDE DEF r
    <3>4. Reply(Back(r)) \/ UNCHANGED replies
      BY <2>2 DEF WriteComments, r
    <3>5. \A c \in BagToSet(replies') : Stays(c.req)
      BY <1>2, <3>2, <3>3, <3>4, Replies
    <3> QED
      BY <1>2, <2>2, <3>5 DEF WriteComments
  <2> QED
    BY <1>12, <2>1, <2>2 DEF Writing
<1> QED
  <2>1. Others \/ AgentWrites \/ (\E t \in Task : EmitTaskChanged(t)) \/ UNCHANGED vars
            => UNCHANGED <<up, replies, crossed>>
    BY DEF Others, Register, MoveTask, AgentWrites, EmitTaskChanged, vars
  <2> QED
    BY <1>4, <1>7, <1>8, <1>9, <1>10, <1>11, <1>12, <2>1 DEF Next, Worker

-----------------------------------------------------------------------------
(* How the states of the connection wait among the events.                  *)
LEMMA EndsAppend ==
    ASSUME NEW S, NEW q \in Seq(S), NEW e \in S, NEW b, NEW v
    PROVE  /\ ~IsStatus(e) /\ Ends(q, b, v) => Ends(Append(q, e), b, v)
           /\ IsStatus(e) /\ e.ok = v => Ends(Append(q, e), b, v)
           /\ Loses(q) => Loses(Append(q, e))
<1> DEFINE a == Append(q, e)
<1>1. /\ Len(q) \in Nat /\ Len(a) = Len(q) + 1 /\ a[Len(q) + 1] = e
      /\ \A i \in 1..Len(q) : a[i] = q[i]
  BY Pushed
<1> HIDE DEF a
<1>2. ASSUME ~IsStatus(e), Ends(q, b, v) PROVE Ends(a, b, v)
  <2>1. CASE b = v /\ \A i \in 1..Len(q) : ~IsStatus(q[i])
    <3>1. \A i \in 1..Len(a) : ~IsStatus(a[i])
      BY <1>1, <1>2, <2>1
    <3> QED
      BY <2>1, <3>1 DEF Ends
  <2>2. CASE \E i \in 1..Len(q) : /\ IsStatus(q[i]) /\ q[i].ok = v
                                  /\ \A j \in 1..Len(q) : j > i => ~IsStatus(q[j])
    <3>1. PICK i \in 1..Len(q) : /\ IsStatus(q[i]) /\ q[i].ok = v
                                 /\ \A j \in 1..Len(q) : j > i => ~IsStatus(q[j])
      BY <2>2
    <3>2. i \in 1..Len(a) /\ IsStatus(a[i]) /\ a[i].ok = v
      BY <1>1, <3>1
    <3>3. \A j \in 1..Len(a) : j > i => ~IsStatus(a[j])
      BY <1>1, <1>2, <3>1
    <3> QED
      BY <3>2, <3>3 DEF Ends
  <2> QED
    BY <1>2, <2>1, <2>2 DEF Ends
<1>3. ASSUME IsStatus(e), e.ok = v PROVE Ends(a, b, v)
  <2>1. Len(a) \in 1..Len(a) /\ IsStatus(a[Len(a)]) /\ a[Len(a)].ok = v
    BY <1>1, <1>3
  <2>2. \A j \in 1..Len(a) : ~(j > Len(a))
    BY <1>1
  <2> QED
    BY <2>1, <2>2 DEF Ends
<1>4. ASSUME Loses(q) PROVE Loses(a)
  <2>1. PICK i \in 1..Len(q) : IsStatus(q[i]) /\ ~q[i].ok
    BY <1>4 DEF Loses
  <2>2. i \in 1..Len(a) /\ IsStatus(a[i]) /\ ~a[i].ok
    BY <1>1, <2>1
  <2> QED
    BY <2>2 DEF Loses
<1> QED
  BY <1>2, <1>3, <1>4 DEF a

LEMMA EndsTail ==
    ASSUME TypeInv, NEW kind, Hears(kind), NEW b, NEW v
    PROVE  /\ ~IsStatus(Heard) /\ Ends(events, b, v) => Ends(events', b, v)
           /\ IsStatus(Heard) /\ Ends(events, b, v) => Ends(events', Heard.ok, v)
           /\ Loses(events) => Loses(events') \/ (IsStatus(Heard) /\ ~Heard.ok)
<1>1. /\ Heard = events[1] /\ Len(events) \in Nat /\ Len(events') = Len(events) - 1
      /\ 1 \in 1..Len(events)
      /\ \A i \in 1..Len(events') : events'[i] = events[i + 1]
  BY Hearing
<1>2. \A i \in 1..Len(events) : i # 1 => i - 1 \in 1..Len(events') /\ events'[i - 1] = events[i]
  <2> TAKE i \in 1..Len(events)
  <2> HAVE i # 1
  <2>1. i - 1 \in 1..Len(events') /\ (i - 1) + 1 = i
    BY <1>1
  <2> QED
    BY <1>1, <2>1
<1>3. ASSUME Loses(events), ~(IsStatus(Heard) /\ ~Heard.ok) PROVE Loses(events')
  <2>1. PICK i \in 1..Len(events) : IsStatus(events[i]) /\ ~events[i].ok
    BY <1>3 DEF Loses
  <2>2. i # 1
    BY <1>1, <1>3, <2>1
  <2> QED
    BY <1>2, <2>1, <2>2 DEF Loses
<1>4. ASSUME Ends(events, b, v), NEW c, IsStatus(Heard) => c = Heard.ok, ~IsStatus(Heard) => c = b
      PROVE  Ends(events', c, v)
  <2>1. CASE b = v /\ \A i \in 1..Len(events) : ~IsStatus(events[i])
    <3>1. c = v
      BY <1>1, <1>4, <2>1
    <3>2. \A i \in 1..Len(events') : ~IsStatus(events'[i])
      BY <1>1, <2>1
    <3> QED
      BY <3>1, <3>2 DEF Ends
  <2>2. CASE \E i \in 1..Len(events) : /\ IsStatus(events[i]) /\ events[i].ok = v
                                       /\ \A j \in 1..Len(events) : j > i => ~IsStatus(events[j])
    <3>1. PICK i \in 1..Len(events) : /\ IsStatus(events[i]) /\ events[i].ok = v
                                      /\ \A j \in 1..Len(events) : j > i => ~IsStatus(events[j])
      BY <2>2
    <3>2. \A j \in 1..Len(events') : j + 1 \in 1..Len(events) /\ events'[j] = events[j + 1]
      BY <1>1
    <3>3. CASE i = 1
      <4>1. c = v
        BY <1>1, <1>4, <3>1, <3>3
      <4>2. \A j \in 1..Len(events') : ~IsStatus(events'[j])
        BY <3>1, <3>2, <3>3
      <4> QED
        BY <4>1, <4>2 DEF Ends
    <3>4. CASE i # 1
      <4>1. i - 1 \in 1..Len(events') /\ IsStatus(events'[i - 1]) /\ events'[i - 1].ok = v
        BY <1>2, <3>1, <3>4
      <4>2. \A j \in 1..Len(events') : j > i - 1 => ~IsStatus(events'[j])
        BY <3>1, <3>2
      <4> QED
        BY <4>1, <4>2 DEF Ends
    <3> QED
      BY <3>3, <3>4
  <2> QED
    BY <1>4, <2>1, <2>2 DEF Ends
<1> QED
  BY <1>3, <1>4

(* The steps that push, and those that leave the events and the connection. *)
Pushing == Register \/ \E t \in Task : EmitTaskChanged(t)
Elsewhere ==
    \/ UNCHANGED vars \/ (\E t \in Task : MoveTask(t)) \/ AgentWrites \/ User
    \/ (\E r \in BagToSet(up) : Serve(r)) \/ (\E b \in BagToSet(replies) : Fold(b))
    \/ (\E w \in Worker : Writing(w))
    \/ (\E r \in BagToSet(up) : Fail(r)) \/ (\E b \in BagToSet(replies) : ReplyLost(b))

LEMMA PushingAppends ==
    ASSUME TypeInv, Pushing
    PROVE  /\ UNCHANGED <<epoch, connected, roots, owed, unheard, crossed, read, guiVars, up,
                          replies, file, made>>
           /\ \/ UNCHANGED events
              \/ \E e \in Pushes(made) : ~IsStatus(e) /\ events' = Append(events, e)
<1> USE DEF guiVars
<1>a. made \in SUBSET Task /\ \A t \in Task : pushing[t] > 0 => t \in made
  BY DEF TypeInv, DaemonOK
<1>1. CASE Register
  BY <1>1, <1>a, EventsAre DEF Register, EmitProjectChanged, Push
<1>2. ASSUME NEW t \in Task, EmitTaskChanged(t)
      PROVE  \/ UNCHANGED events
             \/ \E e \in Pushes(made) : ~IsStatus(e) /\ events' = Append(events, e)
  BY <1>2, <1>a, EventsAre DEF EmitTaskChanged, Push
<1>3. ASSUME NEW t \in Task, EmitTaskChanged(t)
      PROVE  UNCHANGED <<epoch, connected, roots, owed, unheard, crossed, read, guiVars, up,
                         replies, file, made>>
  BY <1>3 DEF EmitTaskChanged
<1> QED
  BY <1>1, <1>2, <1>3 DEF Pushing

LEMMA ElsewhereLeaves ==
    ASSUME Elsewhere
    PROVE  UNCHANGED <<connected, owed, unheard, events, badge>>
<1> USE DEF guiVars, linkVars, boundVars, daemonVars, unasked
<1>1. UNCHANGED vars \/ (\E t \in Task : MoveTask(t)) \/ AgentWrites \/ User
          => UNCHANGED <<connected, owed, unheard, events, badge>>
  BY DEF vars, MoveTask, AgentWrites, User, SelectProject, SelectTask, WriteComment
<1>2. \A r : Serve(r) \/ Fail(r) => UNCHANGED <<connected, owed, unheard, events, badge>>
  BY DEF Serve, Handle, Subscribe, BeginWrite, Fail
<1>3. \A b : Fold(b) \/ ReplyLost(b) => UNCHANGED <<connected, owed, unheard, events, badge>>
  BY DEF Fold, OnProjects, OnTasks, OnTask, OnDone, OnSubscribed, ReplyLost
<1>4. \A w : Writing(w) => UNCHANGED <<connected, owed, unheard, events, badge>>
  BY DEF Writing, TakeCommentLock, WriteComments
<1> QED
  BY <1>1, <1>2, <1>3, <1>4 DEF Elsewhere

LEMMA Steps == [Next]_vars => Pushing \/ Elsewhere \/ Host \/ Hear
  BY DEF Next, Others, Pushing, Elsewhere, Worker

LEMMA StatusStep ==
    ASSUME TypeInv, StatusInv, [Next]_vars
    PROVE  StatusInv'
<1>a. /\ events \in Seq(Pushes(made)) /\ owed \in Nat /\ connected \in BOOLEAN
      /\ made \in SUBSET Task
  BY DEF TypeInv, LinkOK, DaemonOK
<1>1. CASE Elsewhere
  <2>1. /\ connected' = connected /\ owed' = owed /\ unheard' = unheard
        /\ events' = events /\ badge' = badge
    BY <1>1, ElsewhereLeaves
  <2> QED
    BY <2>1, Zenon DEF StatusInv
<1>2. CASE Pushing
  <2>1. UNCHANGED <<connected, owed, unheard, badge>>
    BY <1>2, PushingAppends DEF guiVars
  <2>2. \A v : Ends(events, badge, v) => Ends(events', badge, v)
    BY <1>2, <1>a, PushingAppends, EndsAppend
  <2> QED
    BY <2>1, <2>2 DEF StatusInv
<1>3. CASE Hear
  <2>1. UNCHANGED <<connected, owed, unheard>>
    BY <1>3 DEF Hear, OnProjectChanged, OnTaskChanged, OnDaemonStatus, unasked
  <2>2. ASSUME NEW v, Ends(events, badge, v) PROVE Ends(events', badge', v)
    <3>1. CASE OnProjectChanged \/ OnTaskChanged
      <4>1. badge' = badge
        BY <3>1 DEF OnProjectChanged, OnTaskChanged, guiVars
      <4>2. PICK kind \in {"project-changed", "task-changed"} : Hears(kind)
        BY <3>1 DEF OnProjectChanged, OnTaskChanged
      <4>3. ~IsStatus(Heard)
        BY <4>2 DEF Hears, Heard, IsStatus
      <4> QED
        BY <2>2, <4>1, <4>2, <4>3, EndsTail
    <3>2. CASE OnDaemonStatus
      <4>1. Hears("daemon-status") /\ badge' = Heard.ok /\ IsStatus(Heard)
        BY <3>2 DEF OnDaemonStatus, Hears, Heard, IsStatus
      <4> QED
        BY <2>2, <4>1, EndsTail
    <3> QED
      BY <1>3, <3>1, <3>2 DEF Hear
  <2> QED
    BY <2>1, <2>2 DEF StatusInv
<1>4. CASE Drop
  BY <1>4 DEF Drop, StatusInv
<1>5. CASE SayLost
  <2>1. Status(FALSE) \in Pushes(made) /\ IsStatus(Status(FALSE)) /\ Status(FALSE).ok = FALSE
    BY <1>a, EventsAre
  <2>2. events' = Append(events, Status(FALSE)) /\ UNCHANGED <<connected, unheard, badge>> /\ owed > 0
    BY <1>5 DEF SayLost, guiVars
  <2>3. Ends(events', badge', FALSE)
    BY <1>a, <2>1, <2>2, EndsAppend
  <2>4. connected' => unheard'
    <3>1. owed # 0 /\ connected' = connected /\ unheard' = unheard
      BY <1>a, <2>2
    <3> QED
      BY <3>1, Zenon DEF StatusInv
  <2> QED
    BY <2>3, <2>4, Zenon DEF StatusInv
<1>6. CASE Dial
  <2>1. Status(TRUE) \in Pushes(made) /\ IsStatus(Status(TRUE)) /\ Status(TRUE).ok = TRUE
    BY <1>a, EventsAre
  <2>2. /\ events' = Append(events, Status(TRUE)) /\ UNCHANGED badge /\ connected' = TRUE
        /\ (~unheard' => ~(owed > 0)) /\ owed' \in 0..owed
    BY <1>6 DEF Dial, guiVars
  <2>3. Ends(events', badge', TRUE)
    BY <1>a, <2>1, <2>2, EndsAppend
  <2>4. connected' /\ (~unheard' => owed' = 0)
    BY <1>a, <2>2
  <2> QED
    BY <2>3, <2>4, Zenon DEF StatusInv
<1> QED
  BY <1>1, <1>2, <1>3, <1>4, <1>5, <1>6, Steps DEF Host

-----------------------------------------------------------------------------
(* While the connection is lost, and after each step of the host, the app   *)
(* will learn of it, or has been told too early.                            *)
LEMMA HostHeals ==
    ASSUME TypeInv, StatusInv
    PROVE  /\ ~connected => Heals
           /\ Host => unheard' \/ Heals'
           /\ \A b : ReplyLost(b) => Heals'
           /\ \A r : Fail(r) => Heals'
<1>a. events \in Seq(Pushes(made)) /\ made \in SUBSET Task /\ owed \in Nat
  BY DEF TypeInv, LinkOK, DaemonOK
<1>1. Ends(events, badge, FALSE) => ~badge \/ Loses(events)
  BY DEF Ends, Loses
<1>2. ASSUME ~connected PROVE Heals
  BY <1>1, <1>2 DEF StatusInv, Heals
<1>3. ASSUME Drop PROVE Heals'
  BY <1>3 DEF Drop, Heals
<1>4. ASSUME SayLost PROVE Heals'
  <2>1. Status(FALSE) \in Pushes(made) /\ IsStatus(Status(FALSE)) /\ ~Status(FALSE).ok
    BY <1>a, EventsAre
  <2>2. events' = Append(events, Status(FALSE))
    BY <1>4 DEF SayLost
  <2>3. Len(events) + 1 \in 1..Len(events') /\ events'[Len(events) + 1] = Status(FALSE)
    <3>1. ASSUME NEW e \in Pushes(made), events' = Append(events, e)
          PROVE  Len(events) + 1 \in 1..Len(events') /\ events'[Len(events) + 1] = e
      BY <1>a, <3>1, OneMore
    <3> QED
      BY <2>1, <2>2, <3>1, Zenon
  <2>4. Loses(events')
    BY <2>1, <2>3, Zenon DEF Loses
  <2> QED
    BY <2>4, Zenon DEF Heals
<1>5. ASSUME Dial PROVE unheard' \/ Heals'
  <2>1. Status(TRUE) \in Pushes(made) /\ events' = Append(events, Status(TRUE)) /\ badge' = badge
    BY <1>5, <1>a, EventsAre DEF Dial, guiVars
  <2>2. Loses(events) => Loses(events')
    BY <1>a, <2>1, EndsAppend
  <2>3. ~connected /\ (owed > 0 => unheard')
    BY <1>5 DEF Dial
  <2>4. owed > 0 \/ ~badge \/ Loses(events)
    BY <1>1, <2>3, Zenon DEF StatusInv
  <2> QED
    BY <2>1, <2>2, <2>3, <2>4, Zenon DEF Heals
<1>6. ASSUME NEW b, ReplyLost(b) PROVE Heals'
  BY <1>2, <1>6 DEF ReplyLost, Heals, guiVars
<1>7. ASSUME NEW r, Fail(r) PROVE Heals'
  BY <1>2, <1>7 DEF Fail, Heals, guiVars
<1> QED
  BY <1>2, <1>3, <1>4, <1>5, <1>6, <1>7 DEF Host

(* It stays so until the app has heard of it, and asks again.               *)
AsksAgain == OnDaemonStatus /\ ~badge /\ Heard.ok

LEMMA HealsStay ==
    ASSUME TypeInv, StatusInv, [Next]_vars, unheard \/ Heals
    PROVE  unheard' \/ Heals' \/ AsksAgain
<1>a. events \in Seq(Pushes(made)) /\ made \in SUBSET Task
  BY DEF TypeInv, LinkOK, DaemonOK
<1>1. CASE Elsewhere
  BY <1>1, ElsewhereLeaves DEF Heals
<1>2. CASE Pushing
  <2>1. UNCHANGED <<connected, owed, unheard, badge>>
    BY <1>2, PushingAppends DEF guiVars
  <2>2. Loses(events) => Loses(events')
    BY <1>2, <1>a, PushingAppends, EndsAppend
  <2> QED
    BY <2>1, <2>2 DEF Heals
<1>3. CASE OnProjectChanged \/ OnTaskChanged
  <2>1. UNCHANGED <<connected, owed, badge, unheard>>
    BY <1>3 DEF OnProjectChanged, OnTaskChanged, guiVars, unasked
  <2>2. PICK kind \in {"project-changed", "task-changed"} : Hears(kind)
    BY <1>3 DEF OnProjectChanged, OnTaskChanged
  <2>3. ~IsStatus(Heard)
    BY <2>2 DEF Hears, Heard, IsStatus
  <2> QED
    BY <2>1, <2>2, <2>3, EndsTail DEF Heals
<1>4. CASE OnDaemonStatus
  <2>1. Hears("daemon-status") /\ badge' = Heard.ok /\ UNCHANGED <<connected, owed, unheard>>
    BY <1>4 DEF OnDaemonStatus, unasked
  <2> QED
    BY <1>4, <2>1, EndsTail DEF Heals, AsksAgain
<1> QED
  BY <1>1, <1>2, <1>3, <1>4, HostHeals, Steps DEF Hear

(* Requests that enter and leave no project.                                *)
LEMMA AsksMore ==
    ASSUME TypeInv, NEW reqs \in SUBSET Calls(made), Ask(reqs),
           \A r \in reqs : r.m \notin {"subscribe", "unsubscribe"}
    PROVE  /\ crossed' = crossed
           /\ \A r : In(r, up) => In(r, up)'
           /\ \A r : In(r, up)' => In(r, up) \/ r \in reqs
           /\ \A p : In(Leave(p), up)' => In(Leave(p), up)
<1>1. BagToSet(up') = BagToSet(up) \cup reqs
  BY Sends
<1>2. \A p : Enter(p) \notin reqs /\ Leave(p) \notin reqs
  BY DEF Enter, Leave, Req
<1> QED
  BY <1>1, <1>2 DEF Ask, In

LEMMA MinorAsks ==
    ASSUME TypeInv
    PROVE  /\ \A t \in made : RefreshTask(active, t) \in SUBSET Calls(made)
           /\ RefreshProjects \in SUBSET Calls(made)
           /\ {} \in SUBSET Calls(made)
           /\ \A p, t : \A r \in RefreshTask(p, t) : r.m = "task"
           /\ \A r \in RefreshProjects : r.m = "projects"
<1>1. made \in SUBSET Task /\ active \in Project \cup {None}
  BY DEF TypeInv, DaemonOK, AppOK
<1> QED
  BY <1>1, Asks DEF RefreshTask, RefreshProjects, Req

(* The steps of the app that only ask for lists, tasks and writes, and say  *)
(* what they do not change.                                                 *)
Minor ==
    \/ SelectTask \/ WriteComment \/ OnProjectChanged \/ OnTaskChanged
    \/ \E b \in BagToSet(replies) : OnTasks(b) \/ OnTask(b) \/ OnDone(b) \/ OnSubscribed(b)

LEMMA MinorKeeps ==
    ASSUME TypeInv, Minor
    PROVE  /\ UNCHANGED <<active, crossed, roots, unheard, read, file, pushing>>
           /\ \A r : In(r, up) => In(r, up)'
           /\ \A p : In(Leave(p), up)' => In(Leave(p), up)
<1> USE DEF guiVars, linkVars, boundVars, daemonVars, unasked
<1>a. made \in SUBSET Task /\ AppOK
  BY DEF TypeInv, DaemonOK
<1> DEFINE Kept == /\ crossed' = crossed
                   /\ \A r : In(r, up) => In(r, up)'
                   /\ \A p : In(Leave(p), up)' => In(Leave(p), up)
<1>1. ASSUME SelectTask PROVE Kept
  <2>1. PICK t \in rows[active] \cup {None} : Ask(IF t = None THEN {} ELSE RefreshTask(active, t))
    BY <1>1 DEF SelectTask
  <2>2. active \in Project /\ (t = None \/ t \in made)
    BY <1>1, <1>a, <2>1 DEF SelectTask, AppOK, Of
  <2> QED
    BY <2>1, <2>2, MinorAsks, AsksMore
<1>2. ASSUME WriteComment PROVE Kept
  <2>1. PICK m \in Writes, c \in Comment \cup {None} : Ask({Req(m, active, picked, c)})
    BY <1>2 DEF WriteComment
  <2>2. active \in Project /\ picked \in made /\ picked \in Task
    BY <1>2, <1>a DEF WriteComment, AppOK, Of
  <2>3. Req(m, active, picked, c) \in ReqType
    BY <2>1, <2>2 DEF Req, ReqType, CommentId
  <2>4. /\ Req(m, active, picked, c).m \in Writes /\ Req(m, active, picked, c).t \in made
        /\ Req(m, active, picked, c).m \notin {"subscribe", "unsubscribe"}
    BY <2>1, <2>2 DEF Req, Writes
  <2>5. {Req(m, active, picked, c)} \in SUBSET Calls(made)
    BY <1>a, <2>3, <2>4, Asks
  <2> QED
    BY <2>1, <2>4, <2>5, AsksMore
<1>3. ASSUME OnProjectChanged PROVE Kept
  BY <1>3, MinorAsks, AsksMore DEF OnProjectChanged
<1>4. ASSUME OnTaskChanged PROVE Kept
  <2>1. Heard \in Pushes(made) /\ Heard.kind = "task-changed"
    BY <1>4, Hearing DEF OnTaskChanged
  <2>2. Heard.t \in made
    BY <2>1 DEF Pushes
  <2>3. /\ IfPicked(active, Heard.t) \in SUBSET Calls(made)
        /\ \A r \in IfPicked(active, Heard.t) : r.m = "task"
    BY <2>2, MinorAsks DEF IfPicked
  <2> QED
    BY <1>4, <2>3, AsksMore DEF OnTaskChanged
<1>5. ASSUME NEW b \in BagToSet(replies), OnDone(b) PROVE Kept
  <2>1. b.req.m \in Writes /\ b.req \in Calls(made)
    BY <1>5, Comes DEF OnDone
  <2>2. b.req.t \in made
    BY <1>a, <2>1, CallFacts
  <2> QED
    BY <1>5, <2>2, MinorAsks, AsksMore DEF OnDone
<1>6. ASSUME NEW b \in BagToSet(replies), OnTasks(b) \/ OnTask(b) \/ OnSubscribed(b) PROVE Kept
  BY <1>6 DEF OnTasks, OnTask, OnSubscribed
<1>7. UNCHANGED <<active, roots, unheard, read, file, pushing>>
  <2>1. \A b : OnTasks(b) \/ OnTask(b) \/ OnDone(b) \/ OnSubscribed(b)
            => UNCHANGED <<active, roots, unheard, read, file, pushing>>
    BY DEF OnTasks, OnTask, OnDone, OnSubscribed
  <2> QED
    BY <2>1 DEF Minor, SelectTask, WriteComment, OnProjectChanged, OnTaskChanged
<1> QED
  BY <1>1, <1>2, <1>3, <1>4, <1>5, <1>6, <1>7 DEF Minor

(* A switch of the active project, and the load of the registry.            *)
LEMMA SwitchAsks ==
    ASSUME TypeInv, LoadInv, NEW p \in Project \cup {None}, active' = p, Ask(Follow(p, TRUE))
    PROVE  /\ \/ active' = None
              \/ crossed'
              \/ active' = active /\ loaded /\ crossed' = crossed /\ up' = up (+) SetToBag({})
              \/ ~In(Leave(active), up)' /\ In(Enter(active), up)'
           /\ \A r : In(r, up) => In(r, up)'
           /\ p = active /\ crossed => crossed'
<1>a. TRUE \in BOOLEAN /\ (loaded => TRUE) /\ p \in Project \cup {None}
  OBVIOUS
<1>b. loaded \in BOOLEAN /\ None \notin Project
  BY Values DEF TypeInv, AppOK
<1>1. Follow(p, TRUE) \in SUBSET Calls(made)
  BY <1>a, Follows
<1>2. BagToSet(up') = BagToSet(up) \cup Follow(p, TRUE)
  BY <1>1, Sends
<1>3. \A r : In(r, up) => In(r, up)'
  BY <1>2 DEF In
<1>4. CASE Follow(p, TRUE) = {}
  <2>1. (loaded /\ p = active) \/ p = None
    BY <1>a, <1>b, <1>4, Follows DEF Watch, Enter
  <2> QED
    BY <1>3, <1>4, <2>1 DEF Ask
<1>5. CASE p # None /\ Enter(p) \in Follow(p, TRUE) /\ Leave(p) \notin Follow(p, TRUE)
           /\ \A q \in Project : Enter(q) \in Follow(p, TRUE) => q = p
  <2>1. crossed' \/ ~In(Leave(p), up)
    BY <1>5 DEF Ask
  <2>2. crossed' \/ ~In(Leave(p), up)'
    BY <1>2, <1>5, <2>1 DEF In
  <2>3. In(Enter(p), up)'
    BY <1>2, <1>5 DEF In
  <2>4. p = active /\ crossed => crossed'
    <3>1. CASE loaded /\ p = active
      BY <1>5, <3>1 DEF Follow
    <3>2. CASE ~loaded
      BY <3>2 DEF LoadInv
    <3> QED
      BY <1>b, <3>1, <3>2
  <2> QED
    BY <1>3, <2>2, <2>3, <2>4
<1>6. CASE p = None /\ \A q \in Project : Enter(q) \notin Follow(p, TRUE)
  BY <1>3, <1>6 DEF Ask
<1> QED
  BY <1>a, <1>4, <1>5, <1>6, Follows

-----------------------------------------------------------------------------
(* On a new connection the app subscribes again.                            *)
LEMMA AgainAsks ==
    ASSUME TypeInv, AsksAgain
    PROVE  /\ UNCHANGED <<active, picked, roots, unheard>>
           /\ active # None => crossed' \/ (~In(Leave(active), up)' /\ In(Enter(active), up)')
           /\ picked # None => In(TaskReq(active, picked), up)'
<1>a. active \in Project \cup {None} /\ (picked # None => active # None)
  BY DEF TypeInv, AppOK
<1>b. /\ Heard \in Pushes(made) /\ Heard.ok /\ ~badge
      /\ UNCHANGED <<active, picked, roots, unheard>>
  BY Hearing DEF AsksAgain, OnDaemonStatus, unasked
<1>1. Heard.ok \in BOOLEAN /\ Ask(StatusAsks(Heard.ok))
  BY <1>b DEF AsksAgain, OnDaemonStatus, Pushes, StatusAsks
<1> DEFINE reqs == StatusAsks(Heard.ok)
<1>2. /\ reqs \subseteq Calls(made)
      /\ \A q \in Project : Leave(q) \notin reqs
      /\ active # None => Enter(active) \in reqs
      /\ picked # None => TaskReq(active, picked) \in reqs
  BY <1>1, <1>b, StatusAsked
<1> HIDE DEF reqs
<1>3. BagToSet(up') = BagToSet(up) \cup reqs
  BY <1>1, <1>2, Sends DEF reqs
<1>4. ASSUME active # None
      PROVE  crossed' \/ (~In(Leave(active), up)' /\ In(Enter(active), up)')
  <2>1. active \in Project
    BY <1>4, <1>a
  <2>2. crossed' \/ ~In(Leave(active), up)
    BY <1>1, <1>2, <1>4, <2>1 DEF Ask, reqs
  <2>3. up' = up (+) SetToBag(reqs) /\ active' = active
    BY <1>1, <1>b DEF Ask, reqs
  <2> QED
    BY <1>2, <1>3, <1>4, <1>b, <2>1, <2>2 DEF In
<1>5. picked # None => In(TaskReq(active, picked), up)'
  BY <1>2, <1>3, <1>b DEF In
<1> QED
  BY <1>4, <1>5, <1>b

(* A status that changes nothing makes the app ask for nothing.             *)
LEMMA SameStatus ==
    ASSUME TypeInv, OnDaemonStatus, ~AsksAgain
    PROVE  /\ ~badge' \/ UNCHANGED crossed
           /\ UNCHANGED <<active, picked, roots, unheard>>
           /\ BagToSet(up') = BagToSet(up)
<1>1. Heard \in Pushes(made) /\ UNCHANGED <<active, picked, roots, unheard>>
  BY Hearing DEF OnDaemonStatus, unasked
<1>2. Heard.ok \in BOOLEAN /\ Ask(StatusAsks(Heard.ok)) /\ badge \in BOOLEAN
  BY <1>1 DEF OnDaemonStatus, Pushes, StatusAsks, TypeInv, AppOK
<1>3. StatusAsks(Heard.ok) = {}
  BY <1>2 DEF AsksAgain, StatusAsks
<1>4. BagToSet(up') = BagToSet(up)
  BY <1>2, <1>3, Sends
<1>5. crossed' = crossed
  BY <1>2, <1>3 DEF Ask
<1> QED
  BY <1>1, <1>4, <1>5

(* The daemon's steps on a connection: what is on its way of the app's.     *)
LEMMA ServeKeeps ==
    ASSUME TypeInv, NEW r \in BagToSet(up), Serve(r)
    PROVE  /\ UNCHANGED <<active, picked, crossed, unheard, overtaken, shown, pushing, file, events>>
           /\ BagToSet(up') \subseteq BagToSet(up)
           /\ \A c : In(c, up) /\ c # r => In(c, up)'
           /\ r.m \notin {"subscribe", "unsubscribe"} => UNCHANGED roots
           /\ r \in Calls(made)
<1> USE DEF guiVars, daemonVars
<1>1. CASE Handle(r)
  BY <1>1, Served DEF Handle, In
<1>2. CASE Subscribe(r)
  BY <1>2, Served DEF Subscribe, In
<1>3. CASE BeginWrite(r)
  BY <1>3, Served DEF BeginWrite, In
<1> QED
  BY <1>1, <1>2, <1>3 DEF Serve

(* Subscriptions as they are served.                                        *)
LEMMA RootsKeep ==
    ASSUME TypeInv, NEW r \in BagToSet(up), Serve(r), active # None, ~In(Leave(active), up)
    PROVE  /\ active \in roots => active \in roots'
           /\ In(Enter(active), up) => active \in roots' \/ In(Enter(active), up)'
<1>1. r \in Calls(made) /\ made \in SUBSET Task /\ active \in Project
  BY ServeKeeps DEF TypeInv, DaemonOK, AppOK
<1>2. r # Leave(active)
  BY DEF In
<1>3. CASE Handle(r) \/ BeginWrite(r)
  <2>1. r.m \notin {"subscribe", "unsubscribe"} /\ UNCHANGED roots
    BY <1>3, Served DEF Handle, BeginWrite, Writes
  <2>2. r # Enter(active)
    BY <2>1 DEF Enter, Req
  <2> QED
    BY <2>1, <2>2, ServeKeeps
<1>4. CASE Subscribe(r)
  <2>1. r.m \in {"subscribe", "unsubscribe"}
    BY <1>4, Served DEF Subscribe
  <2>2. /\ r.m = "subscribe" => r = Enter(r.p) /\ roots' = roots \cup {r.p}
        /\ r.m = "unsubscribe" => r = Leave(r.p) /\ roots' = roots \ {r.p}
    BY <1>1, <1>4, <2>1, CallFacts DEF Subscribe
  <2>3. CASE r.m = "unsubscribe"
    <3>1. r.p # active /\ r # Enter(active)
      BY <1>2, <2>2, <2>3 DEF Enter, Req
    <3> QED
      BY <2>2, <2>3, <3>1, ServeKeeps
  <2>4. CASE r.m = "subscribe"
    <3>1. r = Enter(active) => active \in roots'
      BY <2>2, <2>4 DEF Enter, Req
    <3> QED
      BY <2>2, <2>4, <3>1, ServeKeeps
  <2> QED
    BY <2>1, <2>3, <2>4
<1> QED
  BY <1>3, <1>4 DEF Serve

(* The steps that have nothing to do with the subscription.                 *)
Aside ==
    \/ UNCHANGED vars \/ Pushing \/ (\E t \in Task : MoveTask(t)) \/ AgentWrites
    \/ \E w \in Worker : Writing(w)

LEMMA AsideKeeps ==
    ASSUME TypeInv, Aside
    PROVE  UNCHANGED <<active, picked, crossed, unheard, overtaken, shown, up, roots, read>>
<1> USE DEF guiVars, linkVars, boundVars, daemonVars
<1>1. \A w : Writing(w) =>
          UNCHANGED <<active, picked, crossed, unheard, overtaken, shown, up, roots, read>>
  BY DEF Writing, TakeCommentLock, WriteComments
<1> QED
  BY <1>1, PushingAppends DEF Aside, vars, MoveTask, AgentWrites

LEMMA Parts ==
    ASSUME [Next]_vars
    PROVE  \/ Aside \/ Minor \/ Host \/ OnDaemonStatus \/ SelectProject
           \/ \E r \in BagToSet(up) : Serve(r) \/ Fail(r)
           \/ \E b \in BagToSet(replies) : OnProjects(b) \/ ReplyLost(b)
  BY DEF Next, Others, User, Fold, Hear, Aside, Minor, Pushing, Worker

(* After a switch the project is subscribed to, or is asked for.            *)
LEMMA Switched ==
    ASSUME TypeInv, LoadInv, NEW p \in Project \cup {None}, active' = p, Ask(Follow(p, TRUE)),
           roots' = roots,
           \/ crossed \/ active = None
           \/ ~In(Leave(active), up) /\ (active \in roots \/ In(Enter(active), up))
    PROVE  WatchInv'
<1>1. \/ active' = None
      \/ crossed'
      \/ active' = active /\ loaded /\ crossed' = crossed /\ up' = up (+) SetToBag({})
      \/ ~In(Leave(active), up)' /\ In(Enter(active), up)'
  BY SwitchAsks
<1>2. CASE active' = None \/ crossed' \/ (~In(Leave(active), up)' /\ In(Enter(active), up)')
  BY <1>2 DEF WatchInv, Excused
<1>3. CASE active' = active /\ loaded /\ crossed' = crossed /\ up' = up (+) SetToBag({})
  <2>1. BagToSet(up') = BagToSet(up)
    BY <1>3, Added DEF TypeInv, LinkOK
  <2> QED
    BY <1>3, <2>1 DEF WatchInv, Excused, In
<1> QED
  BY <1>1, <1>2, <1>3

LEMMA WatchStep ==
    ASSUME TypeInv, LoadInv, StatusInv, WatchInv, [Next]_vars
    PROVE  WatchInv'
<1>a. active \in Project \cup {None}
  BY DEF TypeInv, AppOK
<1>1. CASE AsksAgain
  BY <1>1, AgainAsks, Zenon DEF WatchInv, Excused
<1>2. CASE unheard \/ Heals
  BY <1>1, <1>2, HealsStay, Zenon DEF WatchInv, Excused
<1> DEFINE Watched == ~In(Leave(active), up) /\ (active \in roots \/ In(Enter(active), up))
<1>3. SUFFICES ASSUME ~AsksAgain, crossed \/ active = None \/ Watched
               PROVE  WatchInv'
  BY <1>1, <1>2, Zenon DEF WatchInv, Excused
<1>4. CASE Aside
  <2>1. UNCHANGED <<active, crossed, up, roots>>
    BY <1>4, AsideKeeps
  <2> QED
    BY <1>3, <2>1 DEF WatchInv, Excused, In
<1>5. CASE Minor
  <2>1. /\ UNCHANGED <<active, crossed, roots>>
        /\ \A r : In(r, up) => In(r, up)'
        /\ \A p : In(Leave(p), up)' => In(Leave(p), up)
    BY <1>5, MinorKeeps
  <2>2. CASE crossed
    BY <2>1, <2>2 DEF WatchInv, Excused
  <2>3. CASE active = None
    BY <2>1, <2>3 DEF WatchInv
  <2>4. CASE Watched
    <3>1. ~In(Leave(active), up)' /\ (active \in roots' \/ In(Enter(active), up)')
      BY <2>1, <2>4
    <3> QED
      BY <2>1, <3>1 DEF WatchInv
  <2> QED
    BY <1>3, <2>2, <2>3, <2>4
<1>6. CASE Host \/ (\E r : Fail(r)) \/ (\E b : ReplyLost(b))
  BY <1>6, HostHeals, Zenon DEF WatchInv, Excused
<1>7. CASE OnDaemonStatus
  <2>1. /\ ~badge' \/ UNCHANGED crossed
        /\ UNCHANGED <<active, roots>> /\ BagToSet(up') = BagToSet(up)
    BY <1>3, <1>7, SameStatus
  <2> QED
    BY <1>3, <2>1 DEF WatchInv, Excused, Heals, In
<1>8. CASE SelectProject
  <2>1. PICK p \in listed : active' = p /\ Ask(Follow(p, loaded))
    BY <1>8 DEF SelectProject
  <2>2. loaded = TRUE /\ p \in Project /\ roots' = roots
    BY <1>8 DEF LoadInv, TypeInv, AppOK, SelectProject, unasked
  <2> QED
    BY <1>3, <2>1, <2>2, Switched
<1>9. ASSUME NEW b \in BagToSet(replies), OnProjects(b) PROVE WatchInv'
  <2>1. active' \in Project \cup {None} /\ Ask(Follow(active', TRUE)) /\ roots' = roots
    <3>1. TypeInv'
      BY TypeStep
    <3> QED
      BY <1>9, <3>1 DEF OnProjects, TypeInv, AppOK, unasked
  <2> QED
    BY <1>3, <2>1, Switched
<1>10. ASSUME NEW r \in BagToSet(up), Serve(r) PROVE WatchInv'
  <2>1. /\ UNCHANGED <<active, crossed>> /\ BagToSet(up') \subseteq BagToSet(up)
    BY <1>10, ServeKeeps
  <2>2. CASE crossed \/ active = None
    BY <2>1, <2>2 DEF WatchInv, Excused
  <2>3. CASE active # None /\ Watched
    <3>1. active \in roots' \/ In(Enter(active), up)'
      BY <1>10, <2>3, RootsKeep
    <3>2. ~In(Leave(active), up)'
      BY <2>1, <2>3 DEF In
    <3> QED
      BY <2>1, <3>1, <3>2 DEF WatchInv
  <2> QED
    BY <1>3, <2>2, <2>3
<1> QED
  BY <1>4, <1>5, <1>6, <1>7, <1>8, <1>9, <1>10, Parts

-----------------------------------------------------------------------------
(* The push of a change waits among the events until it is folded.          *)
Waits(q, t) == \E i \in 1..Len(q) : q[i].kind = "task-changed" /\ q[i].t = t

LEMMA WaitsAppend ==
    ASSUME NEW S, NEW q \in Seq(S), NEW e \in S, NEW t
    PROVE  /\ Waits(q, t) => Waits(Append(q, e), t)
           /\ e.kind = "task-changed" /\ e.t = t => Waits(Append(q, e), t)
<1> DEFINE a == Append(q, e)
<1>1. /\ Len(q) \in Nat /\ Len(a) = Len(q) + 1 /\ a[Len(q) + 1] = e
      /\ \A i \in 1..Len(q) : a[i] = q[i]
  BY Pushed
<1> HIDE DEF a
<1>2. \A i \in 1..Len(q) : i \in 1..Len(a)
  BY <1>1
<1>3. Len(q) + 1 \in 1..Len(a)
  BY <1>1
<1>4. Waits(q, t) => Waits(a, t)
  BY <1>1, <1>2 DEF Waits
<1>5. e.kind = "task-changed" /\ e.t = t => Waits(a, t)
  BY <1>1, <1>3 DEF Waits
<1> QED
  BY <1>4, <1>5 DEF a

LEMMA WaitsTail ==
    ASSUME TypeInv, NEW kind, Hears(kind), NEW t, Waits(events, t)
    PROVE  Waits(events', t) \/ (kind = "task-changed" /\ Heard.t = t)
<1>1. /\ Heard = events[1] /\ Len(events) \in Nat /\ Len(events') = Len(events) - 1
      /\ Heard.kind = kind
      /\ \A i \in 1..Len(events') : events'[i] = events[i + 1]
  BY Hearing
<1>2. PICK i \in 1..Len(events) : events[i].kind = "task-changed" /\ events[i].t = t
  BY DEF Waits
<1>3. CASE i = 1
  BY <1>1, <1>2, <1>3
<1>4. CASE i # 1
  <2>1. i - 1 \in 1..Len(events') /\ (i - 1) + 1 = i
    BY <1>1, <1>2, <1>4
  <2>2. events'[i - 1] = events[i]
    BY <1>1, <2>1
  <2> QED
    BY <1>2, <2>1, <2>2 DEF Waits
<1> QED
  BY <1>3, <1>4

(* The task on screen is asked for, or current.                             *)
Good ==
    \/ In(TaskReq(active, picked), up)
    \/ read[picked] = None
    \/ /\ active \in roots
       /\ \/ pushing[picked] > 0 \/ Waits(events, picked)
          \/ /\ read[picked] = file[picked]
             /\ Coming(picked) \/ picked \in overtaken \/ shown[picked] = read[picked]

LEMMA GoodIs == PickInv <=> Excused \/ picked = None \/ Good
  BY DEF PickInv, Good, Current, Announced, Waits

LEMMA GoodIsNext == PickInv' <=> Excused' \/ picked' = None \/ Good'
  BY DEF PickInv, Good, Current, Announced, Waits

(* What a step must leave of it.                                            *)
LEMMA GoodKept ==
    ASSUME Good, active' = active, picked' = picked,
           In(TaskReq(active, picked), up) => In(TaskReq(active, picked), up'),
           active \in roots => active \in roots',
           read'[picked] = read[picked],
           pushing[picked] > 0 => pushing'[picked] > 0 \/ Waits(events', picked),
           Waits(events, picked) => Waits(events', picked),
           \/ file'[picked] = file[picked]
           \/ pushing'[picked] > 0,
           \A b \in BagToSet(replies) :
               b.req.m = "task" /\ b.ok /\ b.req.t = picked => b \in BagToSet(replies'),
           picked \in overtaken => picked \in overtaken',
           shown'[picked] = shown[picked]
    PROVE  Good'
<1>1. CASE In(TaskReq(active, picked), up)
  BY <1>1 DEF Good, In
<1>2. CASE read[picked] = None
  BY <1>2 DEF Good
<1>3. CASE active \in roots /\ (pushing[picked] > 0 \/ Waits(events, picked))
  BY <1>3 DEF Good
<1>4. CASE /\ active \in roots /\ read[picked] = file[picked]
           /\ Coming(picked) \/ picked \in overtaken \/ shown[picked] = read[picked]
  <2>1. CASE file'[picked] = file[picked]
    <3>1. Coming(picked) => Coming(picked)'
      BY DEF Coming
    <3> QED
      BY <1>4, <2>1, <3>1 DEF Good
  <2>2. CASE pushing'[picked] > 0
    BY <1>4, <2>2 DEF Good
  <2> QED
    BY <2>1, <2>2
<1> QED
  BY <1>1, <1>2, <1>3, <1>4 DEF Good

(* The steps aside of the subscription.                                     *)
LEMMA PickAside ==
    ASSUME TypeInv, CommentInv, Aside, Good, connected, picked # None
    PROVE  Good'
<1> USE DEF guiVars, linkVars, boundVars, daemonVars
<1>a. /\ UNCHANGED <<active, picked, overtaken, shown, up, roots, read>>
      /\ picked \in Task /\ events \in Seq(Pushes(made)) /\ made \in SUBSET Task
      /\ pushing \in [Task -> Nat] /\ \A t \in Task : pushing[t] > 0 => t \in made
      /\ picked \in made /\ active = ProjectOf[picked]
  BY AsideKeeps DEF TypeInv, AppOK, LinkOK, DaemonOK, Of
<1>1. CASE UNCHANGED vars
  BY <1>1, <1>a, GoodKept DEF vars
<1>2. CASE Register
  <2>1. UNCHANGED <<pushing, file, replies>>
    BY <1>2 DEF Register
  <2>2. Waits(events, picked) => Waits(events', picked)
    BY <1>2, <1>a, PushingAppends, WaitsAppend DEF Pushing
  <2> QED
    BY <1>a, <2>1, <2>2, GoodKept
<1>3. ASSUME NEW t \in Task, EmitTaskChanged(t) PROVE Good'
  <2>1. /\ UNCHANGED <<file, replies>> /\ pushing' = [pushing EXCEPT ![t] = pushing[t] - 1]
        /\ pushing[t] > 0
        /\ ProjectOf[t] \in roots => events' = Append(events, Event("task-changed", ProjectOf[t], t))
    BY <1>3 DEF EmitTaskChanged, Push
  <2>2. Waits(events, picked) => Waits(events', picked)
    <3>1. Pushing
      BY <1>3 DEF Pushing
    <3> QED
      BY <3>1, <1>a, PushingAppends, WaitsAppend
  <2>3. CASE t # picked
    <3>1. pushing'[picked] = pushing[picked]
      BY <1>a, <2>1, <2>3
    <3> QED
      BY <1>a, <2>1, <2>2, <3>1, GoodKept
  <2>4. CASE t = picked /\ active \in roots
    <3>1. Event("task-changed", active, picked) \in Pushes(made)
          /\ Event("task-changed", active, picked).kind = "task-changed"
          /\ Event("task-changed", active, picked).t = picked
      BY <1>a, EventsAre
    <3>2. events' = Append(events, Event("task-changed", active, picked))
      BY <1>a, <2>1, <2>4
    <3>3. \A e \in Pushes(made) :
              e.kind = "task-changed" /\ e.t = picked => Waits(Append(events, e), picked)
      BY <1>a, WaitsAppend
    <3>4. Waits(events', picked)
      BY <3>1, <3>2, <3>3
    <3> QED
      BY <1>a, <2>1, <2>2, <3>4, GoodKept
  <2>5. CASE active \notin roots
    BY <1>a, <2>1, <2>5 DEF Good
  <2> QED
    BY <2>3, <2>4, <2>5
<1>4. ASSUME NEW t \in Task, MoveTask(t) PROVE Good'
  <2>1. UNCHANGED <<events, file, replies>> /\ pushing' = [pushing EXCEPT ![t] = pushing[t] + 1]
    BY <1>4 DEF MoveTask, NotifyTaskChange
  <2>2. pushing[picked] > 0 => pushing'[picked] > 0
    BY <1>a, <2>1
  <2> QED
    BY <1>a, <2>1, <2>2, GoodKept
<1>5. CASE AgentWrites
  <2>1. UNCHANGED <<events, file, replies, pushing>>
    BY <1>5 DEF AgentWrites
  <2> QED
    BY <1>a, <2>1, GoodKept
<1>6. ASSUME NEW w \in Worker, TakeCommentLock(w) PROVE Good'
  <2>1. UNCHANGED <<events, file, replies, pushing>>
    BY <1>6 DEF TakeCommentLock
  <2> QED
    BY <1>a, <2>1, GoodKept
<1>7. ASSUME NEW w \in Worker, WriteComments(w) PROVE Good'
  <2> DEFINE r == serve[w].req
             f == Put(serve[w].base, r)
  <2>1. /\ UNCHANGED events /\ file' = [file EXCEPT ![r.t] = f] /\ serve[w].pc = "write"
        /\ IF f = serve[w].base THEN UNCHANGED pushing
                                ELSE pushing' = [pushing EXCEPT ![r.t] = pushing[r.t] + 1]
    BY <1>7 DEF WriteComments, NotifyTaskChange
  <2>2. r.t \in Task /\ serve[w].base = file[r.t] /\ file \in [Task -> Text]
        /\ r \in ReqType /\ r.m \in Writes /\ r.t \in made
    BY <2>1 DEF CommentInv, TypeInv, DaemonOK, Serves
  <2>3. file'[picked] = file[picked] \/ pushing'[picked] > 0
    BY <1>a, <2>1, <2>2
  <2>4. pushing[picked] > 0 => pushing'[picked] > 0
    BY <1>a, <2>1, <2>2
  <2>5. BagToSet(replies) \subseteq BagToSet(replies')
    <3>1. r \in Calls(made) /\ r.m \notin {"projects", "tasks", "task"}
      BY <1>a, <2>2, Asks DEF Writes
    <3>2. Back(r) \in Returns(made)
      BY <1>a, <3>1, Bare
    <3> HIDE DEF r
    <3>3. Reply(Back(r)) \/ UNCHANGED replies
      BY <1>7 DEF WriteComments, r
    <3> QED
      BY <3>2, <3>3, Replies
  <2> QED
    BY <1>a, <2>1, <2>3, <2>4, <2>5, GoodKept
<1> QED
  BY <1>1, <1>2, <1>3, <1>4, <1>5, <1>6, <1>7 DEF Aside, Pushing, Writing

(* The daemon answers.                                                      *)
LEMMA PickServe ==
    ASSUME TypeInv, NEW r \in BagToSet(up), Serve(r), Good, picked # None,
           ~In(Leave(active), up)
    PROVE  Good'
<1> USE DEF guiVars, linkVars, boundVars, daemonVars
<1>a. /\ picked \in Task /\ picked \in made /\ active = ProjectOf[picked] /\ active # None
      /\ UNCHANGED <<active, picked, overtaken, shown, pushing, file, events>>
      /\ r \in Calls(made) /\ made \in SUBSET Task /\ DaemonOK
      /\ active \in roots => active \in roots'
      /\ read \in [Task -> Text \cup {None}] /\ file \in [Task -> Text]
      /\ \A c : In(c, up) /\ c # r => In(c, up)'
  BY ServeKeeps, RootsKeep DEF TypeInv, AppOK, LinkOK, DaemonOK, Of
<1>b. \A b \in Returns(made) : Reply(b) => BagToSet(replies') = BagToSet(replies) \cup {b}
  BY Replies
<1>c. BagToSet(replies) \subseteq BagToSet(replies')
  <2>1. CASE Handle(r)
    BY <1>a, <1>b, <2>1, Served, Answered DEF Handle
  <2>2. CASE Subscribe(r)
    BY <1>a, <1>b, <2>2, Served, Bare DEF Subscribe
  <2>3. CASE BeginWrite(r)
    BY <2>3 DEF BeginWrite
  <2> QED
    BY <2>1, <2>2, <2>3 DEF Serve
<1>1. CASE r # TaskReq(active, picked) /\ read'[picked] = read[picked]
  <2>1. In(TaskReq(active, picked), up) => In(TaskReq(active, picked), up')
    BY <1>a, <1>1 DEF In
  <2> QED
    BY <1>a, <1>c, <1>1, <2>1, GoodKept
<1>2. CASE r = TaskReq(active, picked)
  <2>1. r.m = "task" /\ r.p = active /\ r.t = picked
    BY <1>2 DEF TaskReq, Req
  <2>2. Handle(r)
    BY <2>1, Served DEF Serve, Subscribe, BeginWrite, Writes
  <2>3. Answers(r)
    BY <1>a, <2>1 DEF Answers
  <2>4. /\ Answer(r) \in Returns(made) /\ Answer(r).req = r
        /\ Answer(r).ok /\ Answer(r).text = file[picked]
    BY <1>a, <2>1, <2>3, Answered
  <2>5. /\ read'[picked] = IF active \in roots THEN file[picked] ELSE None
        /\ UNCHANGED roots /\ Reply(Answer(r))
    BY <1>a, <2>1, <2>2, <2>3 DEF Handle
  <2>6. Answer(r) \in BagToSet(replies')
    BY <1>b, <2>4, <2>5
  <2>7. CASE active \notin roots
    BY <1>a, <2>5, <2>7 DEF Good
  <2>8. CASE active \in roots
    <3>1. read'[picked] = file[picked]
      BY <2>5, <2>8
    <3>2. Coming(picked)'
      BY <1>a, <2>1, <2>4, <2>6, <3>1 DEF Coming
    <3> QED
      BY <1>a, <2>5, <2>8, <3>1, <3>2 DEF Good
  <2> QED
    BY <2>7, <2>8
<1>3. CASE r # TaskReq(active, picked) /\ read'[picked] # read[picked]
  <2>1. Handle(r) /\ r.m = "task" /\ Answers(r) /\ r.t = picked
    BY <1>a, <1>3 DEF Serve, Handle, Subscribe, BeginWrite
  <2>2. r.p = active
    BY <1>a, <2>1 DEF Answers
  <2>3. r = TaskReq(r.p, r.t)
    BY <1>a, <2>1, CallFacts
  <2> QED
    BY <1>3, <2>1, <2>2, <2>3
<1> QED
  BY <1>1, <1>2, <1>3

(* The app asks and folds.                                                  *)
LEMMA PickMinor ==
    ASSUME TypeInv, Minor, Good, picked # None
    PROVE  picked' = None \/ Good'
<1> USE DEF guiVars, linkVars, boundVars, daemonVars, unasked
<1>a. /\ picked \in Task /\ picked \in made /\ active = ProjectOf[picked] /\ active # None
      /\ UNCHANGED <<active, roots, read, file, pushing>>
      /\ \A c : In(c, up) => In(c, up)'
      /\ made \in SUBSET Task
  BY MinorKeeps DEF TypeInv, AppOK, DaemonOK, Of
<1>b. In(TaskReq(active, picked), up) => In(TaskReq(active, picked), up')
  BY <1>a DEF In
<1>1. CASE SelectTask
  <2>1. PICK t \in rows[active] \cup {None} :
            picked' = t /\ Ask(IF t = None THEN {} ELSE RefreshTask(active, t))
    BY <1>1 DEF SelectTask, Select
  <2>2. CASE t = None
    BY <2>1, <2>2
  <2>3. CASE t # None
    <3>1. t \in made
      BY <1>a, <2>1, <2>3, Values DEF TypeInv, AppOK, Of
    <3>2. BagToSet(up') = BagToSet(up) \cup RefreshTask(active, t)
      BY <2>1, <2>3, <3>1, MinorAsks, Sends
    <3>3. TaskReq(active, t) \in BagToSet(up')
      BY <1>a, <3>2 DEF RefreshTask, TaskReq
    <3> QED
      BY <1>a, <2>1, <3>3 DEF Good, In
  <2> QED
    BY <2>2, <2>3
<1>2. CASE WriteComment
  BY <1>2, <1>a, <1>b, GoodKept DEF WriteComment
<1>3. CASE OnProjectChanged
  <2>1. Waits(events, picked) => Waits(events', picked)
    BY <1>3, WaitsTail DEF OnProjectChanged
  <2> QED
    BY <1>3, <1>a, <1>b, <2>1, GoodKept DEF OnProjectChanged
<1>4. CASE OnTaskChanged
  <2>1. /\ Heard \in Pushes(made) /\ Heard.kind = "task-changed"
        /\ Hears("task-changed") /\ UNCHANGED <<picked, replies, overtaken, shown>>
    BY <1>4, Hearing DEF OnTaskChanged
  <2>2. CASE Heard.t = picked
    <3>1. Heard.p = active
      BY <1>a, <2>1, <2>2 DEF Pushes
    <3>2. Ask(RefreshTask(active, picked))
      BY <1>4, <2>2, <3>1 DEF OnTaskChanged, IsActive, IfPicked
    <3>3. BagToSet(up') = BagToSet(up) \cup RefreshTask(active, picked)
      BY <1>a, <3>2, MinorAsks, Sends
    <3>4. TaskReq(active, picked) \in BagToSet(up')
      BY <1>a, <3>3 DEF RefreshTask, TaskReq
    <3> QED
      BY <1>a, <2>1, <3>4 DEF Good, In
  <2>3. CASE Heard.t # picked
    <3>1. Waits(events, picked) => Waits(events', picked)
      BY <2>1, <2>3, WaitsTail
    <3> QED
      BY <1>a, <1>b, <2>1, <3>1, GoodKept
  <2> QED
    BY <2>2, <2>3
<1>5. ASSUME NEW b \in BagToSet(replies), OnTasks(b) \/ OnDone(b) \/ OnSubscribed(b)
      PROVE  Good'
  <2>1. UNCHANGED <<picked, events, overtaken, shown>> /\ b.req.m # "task"
    BY <1>5, Comes DEF OnTasks, OnDone, OnSubscribed, Writes
  <2>2. \A c \in BagToSet(replies) : c # b => c \in BagToSet(replies')
    BY <1>5, Comes DEF OnTasks, OnDone, OnSubscribed
  <2> QED
    BY <1>a, <1>b, <2>1, <2>2, GoodKept
<1>6. ASSUME NEW b \in BagToSet(replies), OnTask(b) PROVE Good'
  <2>1. /\ UNCHANGED <<picked, events>>
        /\ \A c \in BagToSet(replies) : c # b => c \in BagToSet(replies')
        /\ b.ok => /\ shown' = [shown EXCEPT ![b.req.t] = b.text]
                   /\ overtaken' = IF b.text = read[b.req.t] THEN overtaken \ {b.req.t}
                                                             ELSE overtaken \cup {b.req.t}
        /\ ~b.ok => UNCHANGED <<shown, overtaken>>
    BY <1>6, Comes DEF OnTask
  <2>2. CASE ~b.ok
    BY <1>a, <1>b, <2>1, <2>2, GoodKept
  <2>3. CASE b.ok /\ b.req.t # picked
    <3>1. shown'[picked] = shown[picked] /\ (picked \in overtaken => picked \in overtaken')
      BY <2>1, <2>3 DEF TypeInv, AppOK
    <3> QED
      BY <1>a, <1>b, <2>1, <2>3, <3>1, GoodKept
  <2>4. CASE b.ok /\ b.req.t = picked
    <3>1. shown'[picked] = b.text /\ (b.text # read[picked] => picked \in overtaken')
      BY <1>a, <2>1, <2>4 DEF TypeInv, AppOK
    <3>2. picked \in overtaken' \/ shown'[picked] = read[picked]
      BY <3>1
    <3>3. CASE In(TaskReq(active, picked), up) \/ read[picked] = None
      BY <1>a, <1>b, <2>1, <3>3 DEF Good, In
    <3>4. CASE /\ active \in roots
               /\ pushing[picked] > 0 \/ Waits(events, picked) \/ read[picked] = file[picked]
      BY <1>a, <2>1, <3>2, <3>4 DEF Good
    <3> QED
      BY <3>3, <3>4 DEF Good
  <2> QED
    BY <2>2, <2>3, <2>4
<1> QED
  BY <1>1, <1>2, <1>3, <1>4, <1>5, <1>6 DEF Minor

LEMMA PickNone ==
    ASSUME TypeInv, Minor, picked = None
    PROVE  picked' = None \/ Good'
<1> USE DEF guiVars
<1>1. CASE SelectTask
  <2>1. PICK t \in rows[active] \cup {None} :
            picked' = t /\ Ask(IF t = None THEN {} ELSE RefreshTask(active, t))
    BY <1>1 DEF SelectTask, Select
  <2>2. CASE t = None
    BY <2>1, <2>2
  <2>3. CASE t # None
    <3>1. t \in made /\ active # None /\ active' = active
      BY <1>1, <2>1, <2>3, Values DEF SelectTask, TypeInv, AppOK, Of
    <3>2. BagToSet(up') = BagToSet(up) \cup RefreshTask(active, t)
      BY <2>1, <2>3, <3>1, MinorAsks, Sends
    <3>3. TaskReq(active, t) \in BagToSet(up')
      BY <3>1, <3>2 DEF RefreshTask, TaskReq
    <3> QED
      BY <2>1, <3>1, <3>3 DEF Good, In
  <2> QED
    BY <2>2, <2>3
<1>2. CASE Minor /\ ~SelectTask
  BY <1>2 DEF Minor, WriteComment, OnProjectChanged, OnTaskChanged, OnTasks, OnTask, OnDone,
              OnSubscribed
<1> QED
  BY <1>1, <1>2

LEMMA PickStep ==
    ASSUME TypeInv, CommentInv, LoadInv, StatusInv, WatchInv, PickInv, [Next]_vars
    PROVE  PickInv'
<1>1. CASE AsksAgain
  <2>1. /\ UNCHANGED <<active, picked>>
        /\ picked # None => In(TaskReq(active, picked), up)'
    BY <1>1, AgainAsks
  <2>2. picked' = None \/ Good'
    BY <2>1 DEF Good
  <2> QED
    BY <2>2, GoodIsNext
<1>2. CASE unheard \/ Heals
  BY <1>1, <1>2, HealsStay, Zenon DEF PickInv, Excused
<1>3. SUFFICES ASSUME ~AsksAgain, ~unheard, ~Heals PROVE PickInv'
  BY <1>1, <1>2
<1>4. crossed \/ picked = None \/ Good
  BY <1>3, GoodIs DEF Excused
<1>5. connected
  BY <1>3, HostHeals
<1>6. CASE Host \/ (\E r : Fail(r)) \/ (\E b : ReplyLost(b))
  BY <1>6, HostHeals, Zenon DEF PickInv, Excused
<1>7. CASE Aside
  <2>1. UNCHANGED <<crossed, picked>>
    BY <1>7, AsideKeeps
  <2> QED
    BY <1>4, <1>5, <1>7, <2>1, PickAside, GoodIsNext DEF Excused
<1>8. CASE Minor
  <2>1. crossed' = crossed
    BY <1>8, MinorKeeps
  <2>2. CASE crossed
    BY <2>1, <2>2, GoodIsNext DEF Excused
  <2>3. CASE picked # None /\ Good
    BY <1>8, <2>3, PickMinor, GoodIsNext
  <2>4. CASE picked = None
    BY <1>8, <2>4, PickNone, GoodIsNext
  <2> QED
    BY <1>4, <2>2, <2>3, <2>4
<1>9. CASE OnDaemonStatus
  <2>1. /\ ~badge' \/ UNCHANGED crossed
        /\ UNCHANGED <<active, picked, roots>> /\ BagToSet(up') = BagToSet(up)
    BY <1>3, <1>9, SameStatus
  <2>2. UNCHANGED <<read, pushing, file, replies, overtaken, shown>>
    BY <1>9 DEF OnDaemonStatus, unasked, daemonVars
  <2>3. Waits(events, picked) => Waits(events', picked)
    BY <1>9, WaitsTail DEF OnDaemonStatus
  <2>4. Good => Good'
    <3>1. In(TaskReq(active, picked), up) => In(TaskReq(active, picked), up')
      BY <2>1 DEF In
    <3> QED
      BY <2>1, <2>2, <2>3, <3>1, GoodKept
  <2>5. ~badge' => Heals'
    BY DEF Heals
  <2> QED
    BY <1>4, <2>1, <2>4, <2>5, GoodIsNext DEF Excused
<1>10. CASE SelectProject
  BY <1>10 DEF SelectProject, PickInv
<1>11. ASSUME NEW b \in BagToSet(replies), OnProjects(b) PROVE PickInv'
  <2>1. active' \in Project \cup {None} /\ Ask(Follow(active', TRUE))
    <3>1. TypeInv'
      BY TypeStep
    <3> QED
      BY <1>11, <3>1 DEF OnProjects, TypeInv, AppOK
  <2>2. /\ picked' = IF active' = active THEN picked ELSE None
        /\ UNCHANGED <<roots, read, pushing, file, overtaken, shown, events>>
        /\ b.req.m = "projects"
        /\ \A c \in BagToSet(replies) : c # b => c \in BagToSet(replies')
    BY <1>11, Comes DEF OnProjects, PickOf, unasked, daemonVars
  <2>3. CASE picked' = None
    BY <2>3 DEF PickInv
  <2>4. CASE picked' # None
    <3>1. active' = active /\ picked' = picked
      BY <2>2, <2>4
    <3>2. crossed => crossed'
      BY <2>1, <3>1, SwitchAsks
    <3>3. In(TaskReq(active, picked), up) => In(TaskReq(active, picked), up')
      BY <2>1, SwitchAsks DEF In
    <3>4. Good => Good'
      BY <2>2, <3>1, <3>3, GoodKept
    <3> QED
      BY <1>4, <2>4, <3>1, <3>2, <3>4, GoodIsNext DEF Excused
  <2> QED
    BY <2>3, <2>4
<1>12. ASSUME NEW r \in BagToSet(up), Serve(r) PROVE PickInv'
  <2>1. UNCHANGED <<crossed, picked>>
    BY <1>12, ServeKeeps
  <2>2. CASE crossed \/ picked = None
    BY <2>1, <2>2, GoodIsNext DEF Excused
  <2>3. CASE ~crossed /\ picked # None
    <3>1. active # None
      BY <2>3 DEF TypeInv, AppOK
    <3>2. ~In(Leave(active), up)
      BY <1>3, <2>3, <3>1 DEF WatchInv, Excused
    <3> QED
      BY <1>4, <1>12, <2>3, <3>2, PickServe, GoodIsNext
  <2> QED
    BY <2>2, <2>3
<1> QED
  BY <1>6, <1>7, <1>8, <1>9, <1>10, <1>11, <1>12, Parts

-----------------------------------------------------------------------------
LEMMA InitInv == Init => Inv
<1> SUFFICES ASSUME Init PROVE Inv
  OBVIOUS
<1>1. TypeInv
  BY TypeInit
<1>2. CommentInv
  BY Values DEF Init, CommentInv, CommentsKept, Worker
<1>3. BagToSet(up) = RefreshProjects /\ BagToSet(replies) = {} /\ events = <<>>
  BY Nothing DEF Init, BagToSet, SetToBag, RefreshProjects
<1>4. LoadInv
  <2>1. \A r \in BagToSet(up) : r.m # "unsubscribe"
    BY <1>3 DEF RefreshProjects, Req
  <2>2. listed = {} /\ crossed = FALSE
    BY DEF Init
  <2> QED
    BY <1>3, <2>1, <2>2 DEF LoadInv
<1>5. badge = FALSE /\ connected = FALSE
  BY DEF Init
<1>6. Ends(events, badge, FALSE)
  BY <1>3, <1>5 DEF Ends
<1>7. StatusInv
  BY <1>5, <1>6 DEF StatusInv
<1>8. Excused
  BY <1>5 DEF Excused, Heals
<1> QED
  BY <1>1, <1>2, <1>4, <1>7, <1>8 DEF Inv, WatchInv, PickInv

LEMMA Inductive == Inv /\ [Next]_vars => Inv'
  BY TypeStep, CommentStep, LoadStep, StatusStep, WatchStep, PickStep DEF Inv

(* What the app, the connection and the daemon know of each other.          *)
THEOREM Invariant == Spec => []Inv
  BY InitInv, Inductive, PTL DEF Spec

(* store.ts:575-629: no comment is lost between the user and the agent:     *)
(* under the lock each write is one of the comments as they are.            *)
THEOREM CommentsAreKept == Spec => []CommentsKept
<1>1. Inv => CommentsKept
  BY DEF Inv, CommentInv
<1> QED
  BY <1>1, Invariant, PTL

(* An app in touch, at rest, has nothing to learn of its connection.        *)
LEMMA Rested ==
    ASSUME Inv, Settled, InTouch
    PROVE  /\ ~Excused /\ \A r : ~In(r, up) /\ \A b : b \notin BagToSet(replies)
           /\ events = <<>>
<1>1. /\ up = EmptyBag /\ replies = EmptyBag /\ events = <<>> /\ connected = TRUE
      /\ ~unheard /\ ~crossed
  BY DEF Settled, InTouch, Inv, TypeInv, LinkOK
<1>2. BagToSet(up) = {} /\ BagToSet(replies) = {}
  BY <1>1, Nothing
<1>3. Ends(events, badge, TRUE)
  BY <1>1 DEF Inv, StatusInv
<1>4. badge = TRUE
  BY <1>1, <1>3 DEF Ends
<1>5. ~Loses(events)
  BY <1>1 DEF Loses
<1> QED
  BY <1>1, <1>2, <1>4, <1>5 DEF Excused, Heals, In

(* store.tsx:426-457 and :542-565: an app in touch is subscribed to its     *)
(* active project once all is answered, whatever was lost on the way.       *)
THEOREM TheActiveIsWatched == Spec => []ActiveIsWatched
<1>1. Inv => ActiveIsWatched
  <2> SUFFICES ASSUME Inv, Settled, InTouch, active # None PROVE active \in roots
    BY DEF ActiveIsWatched
  <2> QED
    BY Rested DEF Inv, WatchInv
<1> QED
  BY <1>1, Invariant, PTL

(* store.tsx:322-343, :426-492, reducer.ts: projects are never mixed, and   *)
(* at rest the last answer about the task on screen, given under the        *)
(* subscription, is true, and is on screen if none overtook it.             *)
THEOREM TheScreenIsTrue == Spec => []ScreenIsTrue
<1>1. Inv => RowsFiled /\ SelectionIsActive
  BY DEF Inv, TypeInv, AppOK, RowsFiled, SelectionIsActive, Of
<1>2. Inv => PickedIsCurrent
  <2> SUFFICES ASSUME Inv, AtRest, InTouch, picked # None, read[picked] # None
               PROVE  /\ read[picked] = file[picked]
                      /\ picked \in overtaken \/ shown[picked] = file[picked]
    BY DEF PickedIsCurrent
  <2>1. /\ ~Excused /\ events = <<>> /\ ~In(TaskReq(active, picked), up)
        /\ \A b : b \notin BagToSet(replies)
    BY Rested DEF AtRest
  <2>2. Current(picked)
    BY <2>1 DEF Inv, PickInv
  <2>3. ~Announced(picked)
    <3>1. picked \in Task /\ pushing[picked] = 0
      BY DEF AtRest, Inv, TypeInv, AppOK
    <3> QED
      BY <2>1, <3>1 DEF Announced
  <2>4. ~Coming(picked)
    BY <2>1 DEF Coming
  <2> QED
    BY <2>2, <2>3, <2>4 DEF Current
<1> QED
  BY <1>1, <1>2, Invariant, PTL DEF ScreenIsTrue
=============================================================================
