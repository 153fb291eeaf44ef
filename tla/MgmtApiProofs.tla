--------------------------- MODULE MgmtApiProofs ----------------------------
(***************************************************************************)
(* What a caller of the management interface is told, for any number of    *)
(* connections and requests, any clock and any lag of the tasks.           *)
(*                                                                         *)
(* A call may be given up while its request is on its way, queued with the *)
(* authority or half done.  The invariant follows each request: which task *)
(* has it, what the phase of the task says it has done so far, and that a  *)
(* task whose client hung up works on a call that failed.  The age of the  *)
(* decision a request is served under is a second invariant on top of it.  *)
(***************************************************************************)
EXTENDS MgmtApi, TLAPS

\* Types.
MgmtTypes ==
    /\ clock \in Nat /\ good \in BOOLEAN /\ lastGood \in Nat
    /\ client \in Conn \cup {None}
    /\ call \in Exchange \cup {None}
    /\ asked \in Seq(Kind) /\ Len(asked) <= MaxRequests
    /\ told \in [Request -> Answer \cup {"failed", None}]
    /\ tasks \in [Conn -> Task \cup {None}]
    /\ commands \in Seq(Conn)

\* Request r has had no effect yet.
Untouched(r) ==
    /\ r \notin applied /\ r \notin policy /\ r \notin recorded
    /\ r \notin flooded /\ r \notin removed

\* What has become of request r while it is a task's job.
Stage(r, phase) ==
    /\ phase \in {"revalidate", "decide"} => Untouched(r)
    /\ phase = "router" => asked[r] \in {"plain", "config"} /\ Untouched(r)
    /\ phase \in {"ask", "authority"} =>
         \/ asked[r] = "config" /\ r \in applied /\ r \notin policy
              /\ r \notin recorded
         \/ asked[r] = "revoke" /\ Untouched(r)
    /\ phase = "flood" => asked[r] = "revoke" /\ r \in recorded
    /\ phase = "vpn" => asked[r] = "revoke" /\ r \in recorded /\ r \in flooded

\* The request a task has to serve.
Held(t) == IF t.job # 0 THEN t.job ELSE IF t.inbox = <<>> THEN 0
    ELSE Head(t.inbox)

\* The phases in which a task works on no request.
Waiting == {"authenticate", "admit", "idle"}

\* What holds of a task: the phase it is in says what its request has done so
\* far, and a task whose client hung up works on a call that failed.
TaskOK(t) ==
    /\ t.job = 0 <=> t.phase \in Waiting
    /\ t.job # 0 => t.inbox = <<>> /\ Stage(t.job, t.phase)
    /\ t.closed => t.phase = "authenticate"
    /\ t.phase \in {"authenticate", "admit"} /\ ~t.closed =>
          t.inbox = <<>> /\ t.outbox = <<>>
    /\ t.inbox # <<>> => Untouched(Head(t.inbox))
    /\ Held(t) <= Len(asked)
    /\ t.hung_up /\ Held(t) # 0 => told[Held(t)] = "failed"

\* It holds of every task.
TaskInv == \A c \in Conn : tasks[c] # None => TaskOK(tasks[c])

\* No request is with two tasks.
HeldOnce ==
    \A c, d \in Conn :
        tasks[c] # None /\ tasks[d] # None /\ Held(tasks[c]) # 0
            /\ Held(tasks[c]) = Held(tasks[d]) => c = d

\* The connection the caller uses.
Current == IF call # None THEN call.on ELSE client

\* Between exchanges.
Quiet(t) == Held(t) = 0 /\ t.outbox = <<>> /\ (t.closed \/ t.phase = "idle")

\* Dialling for request r.
Opening(t, r) ==
    /\ Held(t) = 0 /\ Untouched(r)
    /\ t.outbox \in {<<>>, <<"granted">>, <<"denied">>}
    /\ t.phase = "idle" => t.outbox = <<"granted">>

\* Request r is under way, cut off, or answered.
Exchanging(t, r) ==
    \/ Held(t) = r /\ t.outbox = <<>>
    \/ Held(t) = 0 /\ t.closed /\ t.outbox = <<>>
    \/ Held(t) = 0 /\ \E a \in Answer \ {"granted"} : t.outbox = <<a>>
         /\ IsTrue(r, a)

\* The caller and the task it talks to agree on how far the call is.
CallInv ==
    /\ \A c \in Conn : tasks[c] # None /\ ~tasks[c].hung_up => c = Current
    /\ Current # None => tasks[Current] # None /\ ~tasks[Current].hung_up
    /\ call = None /\ client # None => Quiet(tasks[client])
    /\ call # None =>
          /\ call.request = Len(asked) /\ told[call.request] = None
          /\ client = IF call.since = None THEN None ELSE call.on
          /\ call.since = None => Opening(tasks[call.on], call.request)
          /\ call.since # None => Exchanging(tasks[call.on], call.request)

\* Nothing is done for a request not yet made.
Unmade ==
    \A r \in Request : r > Len(asked) => Untouched(r) /\ told[r] = None

\* A command in the queue of the authority is of a task that waits for it,
\* and only the first is being carried out.
QueueInv ==
    /\ \A i \in 1 .. Len(commands) :
          /\ tasks[commands[i]] # None
          /\ \/ tasks[commands[i]].phase = "authority"
             \/ i = 1 /\ tasks[commands[i]].phase = "flood"
    /\ \A i, j \in 1 .. Len(commands) : commands[i] = commands[j] => i = j
    /\ \A c \in Conn :
          tasks[c] # None /\ tasks[c].phase = "flood" =>
              commands # <<>> /\ commands[1] = c

\* The inductive invariant.
AnswerInv ==
    MgmtTypes /\ TaskInv /\ HeldOnce /\ CallInv /\ Unmade /\ AnswerIsTrue

----------------------------------------------------------------------------
\* A step leaves the effects of request r as they are.
Same(r) ==
    /\ r \in applied <=> r \in applied'
    /\ r \in policy <=> r \in policy'
    /\ r \in recorded <=> r \in recorded'
    /\ r \in flooded <=> r \in flooded'
    /\ r \in removed <=> r \in removed'

\* What is said of a request depends on its effects only.
LEMMA SameKeeps ==
  ASSUME NEW r, Same(r), asked'[r] = asked[r]
  PROVE  /\ Untouched(r) <=> Untouched(r)'
         /\ \A p : Stage(r, p) <=> Stage(r, p)'
         /\ \A a : IsTrue(r, a) <=> IsTrue(r, a)'
BY Zenon DEF Same, Untouched, Stage, IsTrue

\* The request a task has.
LEMMA HeldTyped ==
  ASSUME NEW t \in Task
  PROVE  /\ Held(t) \in Request \cup {0}
         /\ t.job # 0 => Held(t) = t.job
         /\ t.job = 0 /\ t.inbox = <<>> => Held(t) = 0
         /\ t.job = 0 /\ t.inbox # <<>> =>
              Held(t) = Head(t.inbox) /\ Head(t.inbox) \in Request
         /\ \A r : t.inbox = <<r>> => Head(t.inbox) = r
BY CallAssumption DEF Held, Task, Slot, Request

\* A step of the serve task of c: it is left alone, ends, or goes on.
Move(c) ==
    \/ tasks'[c] = tasks[c]
    \/ tasks[c] # None /\ tasks[c].hung_up /\ tasks'[c] = None
    \/ /\ tasks[c] # None /\ tasks'[c] # None
       /\ tasks'[c].hung_up = tasks[c].hung_up
       /\ TaskOK(tasks[c])'
       /\ Held(tasks'[c]) \in {0, Held(tasks[c])}
       /\ ~tasks[c].hung_up =>
             /\ Quiet(tasks[c]) => Quiet(tasks'[c])
             /\ \A r \in Request :
                   /\ Opening(tasks[c], r) => Opening(tasks[c], r)'
                   /\ Exchanging(tasks[c], r) => Exchanging(tasks[c], r)'

\* What is done is done for the request of a task that takes a step.
Touches ==
    \A r \in Request :
        Same(r) \/ \E c \in Conn : /\ tasks[c] # None /\ tasks'[c] # tasks[c]
                                   /\ Held(tasks[c]) = r

\* The caller's task.
LEMMA CurrentTask ==
  ASSUME AnswerInv
  PROVE  /\ call # None =>
              /\ call \in Exchange /\ call.on \in Conn
                   /\ call.request \in Request
              /\ Current = call.on
         /\ call = None => Current = client
         /\ Current # None =>
              /\ Current \in Conn /\ tasks[Current] \in Task
              /\ tasks[Current] # None /\ ~tasks[Current].hung_up
<1>1. call # None =>
          call \in Exchange /\ call.on \in Conn /\ call.request \in Request
  BY Zenon DEF AnswerInv, MgmtTypes, Exchange
<1>2. client \in Conn \cup {None} /\ tasks \in [Conn -> Task \cup {None}]
  BY Zenon DEF AnswerInv, MgmtTypes
<1>3. (call # None => Current = call.on) /\ (call = None => Current = client)
  BY Zenon DEF Current
<1>4. Current # None => tasks[Current] # None /\ ~tasks[Current].hung_up
  BY Zenon DEF AnswerInv, CallInv
<1> QED BY <1>1, <1>2, <1>3, <1>4, Zenon

\* A request in hand was given up or is the one under way.
LEMMA HeldPending ==
  ASSUME AnswerInv, NEW c \in Conn, tasks[c] # None, Held(tasks[c]) # 0
  PROVE  /\ Held(tasks[c]) \in Request
         /\ \/ tasks[c].hung_up /\ told[Held(tasks[c])] = "failed"
            \/ /\ call # None /\ call.since # None /\ c = call.on
               /\ Held(tasks[c]) = call.request
               /\ told[call.request] = None
<1>1. Held(tasks[c]) \in Request
  BY HeldTyped, Zenon DEF AnswerInv, MgmtTypes
<1>2. CASE tasks[c].hung_up
  BY <1>1, <1>2, Zenon DEF AnswerInv, TaskInv, TaskOK
<1>3. CASE ~tasks[c].hung_up
  <2>1. c = Current
    BY <1>3, Zenon DEF AnswerInv, CallInv
  <2>2. c # None
    BY CallAssumption, Zenon
  <2>3. call # None
    BY <2>1, <2>2, CurrentTask, Zenon DEF AnswerInv, CallInv, Quiet
  <2>4. c = call.on /\ told[call.request] = None
    BY <2>1, <2>3, CurrentTask, Zenon DEF AnswerInv, CallInv
  <2>5. call.since # None /\ Exchanging(tasks[c], call.request)
    BY <2>3, <2>4, Zenon DEF AnswerInv, CallInv, Opening
  <2> QED BY <1>1, <2>3, <2>4, <2>5, Zenon DEF Exchanging
<1> QED BY <1>2, <1>3, Zenon

\* A step of the server keeps the invariant if each task makes a legal move.
LEMMA ServerStep ==
  ASSUME AnswerInv, MgmtTypes', UNCHANGED caller, Touches,
         \A c \in Conn : Move(c)
  PROVE  AnswerInv'
<1> USE DEF caller
<1>1. \A r \in Request : asked'[r] = asked[r]
  BY Zenon
<1>a. ASSUME NEW c \in Conn, tasks[c] # None
      PROVE  Held(tasks[c]) \in Request \cup {0}
  BY <1>a, HeldTyped, Zenon DEF AnswerInv, MgmtTypes
<1>b. ASSUME NEW c \in Conn, tasks[c] # None, tasks'[c] = tasks[c],
    Held(tasks[c]) # 0
      PROVE  Same(Held(tasks[c]))
  BY <1>a, <1>b, Zenon DEF Touches, AnswerInv, HeldOnce
<1>c. ASSUME NEW c \in Conn, tasks[c] # None, Held(tasks[c]) # 0
      PROVE  told[Held(tasks[c])] \in {None, "failed"}
  BY <1>c, HeldPending, Zenon
<1>2. TaskInv'
  <2> SUFFICES ASSUME NEW c \in Conn, tasks'[c] # None PROVE TaskOK(tasks[c])'
    BY Zenon DEF TaskInv
  <2>1. CASE tasks'[c] = tasks[c]
    <3>1. TaskOK(tasks[c]) /\ tasks[c] \in Task
      BY <2>1, Zenon DEF AnswerInv, TaskInv, MgmtTypes
    <3>2. /\ tasks[c].job # 0 =>
               Same(tasks[c].job) /\ asked'[tasks[c].job] = asked[tasks[c].job]
          /\ tasks[c].inbox # <<>> =>
                Same(Head(tasks[c].inbox))
                    /\ asked'[Head(tasks[c].inbox)] =
                         asked[Head(tasks[c].inbox)]
      BY <1>b, <2>1, <3>1, HeldTyped, CallAssumption DEF TaskOK, Request
    <3>3. Held(tasks[c]) = Held(tasks[c])'
      BY <2>1, Zenon DEF Held
    <3> QED BY <2>1, <3>1, <3>2, <3>3, SameKeeps, Zenon DEF TaskOK
  <2>2. CASE tasks'[c] # tasks[c]
    BY <2>2, Zenon DEF Move
  <2> QED BY <2>1, <2>2, Zenon
<1>3. HeldOnce'
  <2>1. \A c \in Conn : tasks'[c] # None /\ Held(tasks[c])' # 0 =>
            tasks[c] # None /\ Held(tasks[c]) = Held(tasks[c])'
    <3> SUFFICES ASSUME NEW c \in Conn, tasks'[c] # None, Held(tasks[c])' # 0
                 PROVE  tasks[c] # None /\ Held(tasks[c]) = Held(tasks[c])'
      BY Zenon
    <3>1. Held(tasks[c])' = Held(tasks'[c])
      BY Zenon DEF Held
    <3> QED BY <3>1, Zenon DEF Move
  <2> QED BY Zenon, <2>1 DEF AnswerInv, HeldOnce
<1>4. CallInv'
  <2>1. Current' = Current
    BY Zenon DEF Current
  <2>2. \A c \in Conn : tasks'[c] # None /\ ~tasks'[c].hung_up => c = Current'
    BY <2>1, Zenon DEF Move, AnswerInv, CallInv
  <2>3. Current' # None => tasks'[Current'] # None /\ ~tasks'[Current'].hung_up
    BY <2>1, CurrentTask, Zenon DEF Move
  <2>4. call' = None /\ client' # None => Quiet(tasks[client])'
    <3> SUFFICES ASSUME call = None, client # None PROVE Quiet(tasks'[client])
      BY Zenon DEF Quiet, Held
    <3>1. Quiet(tasks[client])
      BY Zenon DEF AnswerInv, CallInv
    <3> QED BY <3>1, CurrentTask, Zenon DEF Move
  <2>5. ASSUME call # None
        PROVE  /\ call.since = None => Opening(tasks[call.on], call.request)'
               /\ call.since # None =>
                    Exchanging(tasks[call.on], call.request)'
    <3> DEFINE c == call.on
               r == call.request
    <3>1. /\ c \in Conn /\ r \in Request /\ tasks[c] # None
               /\ ~tasks[c].hung_up
          /\ told[r] = None /\ c = Current
      <4>1. told[r] = None
        BY <2>5, Zenon DEF AnswerInv, CallInv
      <4>2. Current # None
        BY <2>5, CurrentTask, CallAssumption, Zenon
      <4> QED BY <2>5, <4>1, <4>2, CurrentTask, Zenon
    <3>2. \/ call.since = None /\ Opening(tasks[c], r)
          \/ call.since # None /\ Exchanging(tasks[c], r)
      BY <2>5, Zenon DEF AnswerInv, CallInv
    <3>3. CASE tasks'[c] = tasks[c]
      <4>1. ASSUME NEW d \in Conn, tasks[d] # None, Held(tasks[d]) = r
            PROVE  d = c
        BY <4>1, <3>1, HeldPending, CallAssumption DEF Request
      <4>2. Same(r) /\ asked'[r] = asked[r]
        BY <4>1, <3>1, <3>3, Zenon DEF Touches
      <4>3. /\ Untouched(r) => Untouched(r)'
            /\ \A a : IsTrue(r, a) => IsTrue(r, a)'
        BY <4>2, SameKeeps, Zenon
      <4>4. Held(tasks[c]) = Held(tasks[c])'
        BY <3>3, Zenon DEF Held
      <4>5. c' = c /\ r' = r
        BY Zenon
      <4> HIDE DEF c, r
      <4>6. Opening(tasks[c], r) => Opening(tasks[c], r)'
        BY <3>3, <4>3, <4>4, <4>5, Zenon DEF Opening
      <4>7. Exchanging(tasks[c], r) => Exchanging(tasks[c], r)'
        BY <3>3, <4>3, <4>4, <4>5, Zenon DEF Exchanging
      <4> QED BY <3>2, <4>6, <4>7, Zenon DEF c, r
    <3>4. CASE tasks'[c] # tasks[c]
      <4>1. c' = c /\ r' = r
        BY Zenon
      <4> QED BY <3>1, <3>2, <3>4, <4>1, Zenon DEF Move
    <3> QED BY <3>3, <3>4, Zenon
  <2> QED BY <2>2, <2>3, <2>4, <2>5, Zenon DEF CallInv, AnswerInv
<1>5. Unmade'
  <2> SUFFICES ASSUME NEW r \in Request, r > Len(asked)
               PROVE  Untouched(r)' /\ told[r] = None
    BY Zenon DEF Unmade
  <2>1. Untouched(r) /\ told[r] = None
    BY Zenon DEF AnswerInv, Unmade
  <2>2. Same(r) /\ asked'[r] = asked[r]
    BY <1>a, CallAssumption
    DEF Touches, AnswerInv, TaskInv, TaskOK, MgmtTypes, Request
  <2> QED BY <2>1, <2>2, SameKeeps, Zenon
<1>6. AnswerIsTrue'
  <2> SUFFICES ASSUME NEW r \in 1 .. Len(asked) PROVE IsTrue(r, told[r])'
    BY Zenon DEF AnswerIsTrue
  <2>1. r \in Request /\ IsTrue(r, told[r])
    BY CallAssumption DEF AnswerInv, AnswerIsTrue, MgmtTypes, Request
  <2>2. CASE Same(r)
    BY <2>1, <2>2, SameKeeps, Zenon
  <2>3. CASE told[r] \in {None, "failed"}
    BY <2>3, CallAssumption DEF IsTrue, Answer
  <2> QED BY <1>c, <2>1, <2>2, <2>3, CallAssumption DEF Touches, Request
<1> QED BY <1>2, <1>3, <1>4, <1>5, <1>6, Zenon DEF AnswerInv

----------------------------------------------------------------------------
(* The serve task of one connection.                                       *)

\* A task past the waiting phases.
LEMMA Working ==
  ASSUME AnswerInv, NEW c \in Conn, tasks[c] # None,
         tasks[c].phase \notin Waiting
  PROVE  /\ tasks[c] \in Task
         /\ tasks[c].job \in Request /\ tasks[c].job <= Len(asked)
         /\ Held(tasks[c]) = tasks[c].job /\ Held(tasks[c]) # 0
         /\ tasks[c].inbox = <<>> /\ ~tasks[c].closed
         /\ Stage(tasks[c].job, tasks[c].phase)
<1>1. tasks[c] \in Task /\ TaskOK(tasks[c])
  BY Zenon DEF AnswerInv, MgmtTypes, TaskInv
<1>2. tasks[c].job # 0
  BY <1>1, Zenon DEF TaskOK
<1>3. tasks[c].job \in Request /\ Held(tasks[c]) = tasks[c].job
  BY <1>1, <1>2, HeldTyped, Zenon DEF Task
<1> QED BY <1>1, <1>2, <1>3, Zenon DEF TaskOK, Waiting

\* A task that has a request has not answered yet.
LEMMA NothingSent ==
  ASSUME AnswerInv, NEW c \in Conn, tasks[c] # None, ~tasks[c].hung_up,
         Held(tasks[c]) # 0
  PROVE  tasks[c].outbox = <<>>
<1>1. /\ call # None /\ call.since # None /\ c = call.on
  BY HeldPending, Zenon
<1>2. Exchanging(tasks[c], call.request)
  BY <1>1, Zenon DEF AnswerInv, CallInv
<1> QED BY <1>2, Zenon DEF Exchanging

\* The step is one of the task of c alone, and what it does it does for r.
StepOf(c, r) ==
    /\ UNCHANGED <<clock, good, lastGood, caller>> /\ commands' \in Seq(Conn)
    /\ tasks' \in [Conn -> Task \cup {None}]
    /\ tasks'[c] # tasks[c]
    /\ \A d \in Conn \ {c} : tasks'[d] = tasks[d]
    /\ \A q \in Request : q = r \/ Same(q)

\* A step of one task.
LEMMA OneTask ==
  ASSUME AnswerInv, NEW c \in Conn, tasks[c] # None,
         StepOf(c, Held(tasks[c])), Move(c)
  PROVE  AnswerInv'
<1>1. MgmtTypes'
  BY Zenon DEF StepOf, AnswerInv, MgmtTypes, caller
<1>2. Touches
  BY Zenon DEF StepOf, Touches
<1>3. \A d \in Conn : Move(d)
  BY Zenon DEF StepOf, Move
<1>4. UNCHANGED caller
  BY Zenon DEF StepOf
<1> QED BY <1>1, <1>2, <1>3, <1>4, ServerStep, Zenon

\* The task goes on with the request it has in hand.
Continues(c, r) ==
    LET t == tasks[c]  u == tasks'[c]
    IN  /\ u # None /\ u.job = r /\ u.phase \notin Waiting
        /\ u.inbox = <<>> /\ ~u.closed
        /\ u.outbox = t.outbox /\ u.hung_up = t.hung_up

\* A task that goes on with its request.
LEMMA Works ==
  ASSUME AnswerInv, NEW c \in Conn, tasks[c] # None,
         NEW r \in Request, Held(tasks[c]) = r, StepOf(c, r),
         Continues(c, r), Stage(r, tasks[c].phase)'
  PROVE  AnswerInv'
<1> DEFINE u == tasks'[c]
<1>1. u # None /\ UNCHANGED caller
  BY Zenon DEF StepOf, Continues
<1>2. r # 0 /\ r <= Len(asked)
  BY CallAssumption DEF AnswerInv, TaskInv, TaskOK, Request
<1>3. Held(u) = r /\ Held(tasks[c])' = r
  BY <1>2, Zenon DEF Held, Continues
<1>4. tasks[c].hung_up => told[r] = "failed"
  BY <1>2, Zenon DEF AnswerInv, TaskInv, TaskOK
<1>5. TaskOK(tasks[c])'
  BY <1>1, <1>2, <1>3, <1>4, Zenon DEF TaskOK, Waiting, caller, Continues
<1>6. ~Quiet(tasks[c]) /\ \A q : ~Opening(tasks[c], q)
  BY <1>2, Zenon DEF Quiet, Opening
<1>7. \A q \in Request : Exchanging(tasks[c], q) => Exchanging(tasks[c], q)'
  BY <1>2, <1>3, Zenon DEF Exchanging, Continues
<1>8. Move(c)
  BY <1>1, <1>3, <1>5, <1>6, <1>7, Zenon DEF Move, Continues
<1> QED BY <1>8, OneTask, Zenon

\* The task answers the request it has in hand, or finds nobody to answer.
Replies(c, a) ==
    LET t == tasks[c]  u == tasks'[c]
    IN  /\ t.hung_up => u = None
        /\ ~t.hung_up =>
              /\ u # None /\ u.job = 0 /\ u.inbox = <<>> /\ u.outbox = <<a>>
              /\ ~u.hung_up
              /\ \/ u.phase = "idle" /\ ~u.closed
                 \/ u.phase = "authenticate" /\ u.closed

\* A task that answers truly makes a legal move.
LEMMA ReplyMoves ==
  ASSUME AnswerInv, UNCHANGED caller, NEW c \in Conn, tasks[c] # None,
         tasks'[c] \in Task \cup {None},
         NEW r \in Request, Held(tasks[c]) = r,
         NEW a \in Answer \ {"granted"}, Replies(c, a), IsTrue(r, a)'
  PROVE  Move(c) /\ tasks'[c] # tasks[c]
<1> DEFINE u == tasks'[c]
<1>2. r # 0
  BY CallAssumption DEF Request
<1>3. CASE tasks[c].hung_up
  <2>1. tasks'[c] = None
    BY <1>3, Zenon DEF Replies
  <2> QED BY Zenon, <1>3, <2>1 DEF Move
<1>4. CASE ~tasks[c].hung_up
  <2>1. /\ u \in Task /\ u # None
        /\ u.job = 0 /\ u.inbox = <<>> /\ u.outbox = <<a>> /\ ~u.hung_up
        /\ \/ u.phase = "idle" /\ ~u.closed
           \/ u.phase = "authenticate" /\ u.closed
    BY <1>4, Zenon DEF Replies
  <2>2. Held(u) = 0 /\ Held(tasks[c])' = 0
    BY <2>1, Zenon DEF Held
  <2>3. TaskOK(tasks[c])'
    BY <2>1, <2>2, CallAssumption
       DEF TaskOK, Waiting, AnswerInv, MgmtTypes, caller
  <2>4. ~Quiet(tasks[c]) /\ \A q : ~Opening(tasks[c], q)
    BY <1>2, Zenon DEF Quiet, Opening
  <2>5. \A q \in Request : Exchanging(tasks[c], q) => Exchanging(tasks[c], q)'
    BY <1>2, <2>1, <2>2, Zenon DEF Exchanging
  <2>6. Move(c)
    <3>1. tasks[c] \in Task
      BY Zenon DEF AnswerInv, MgmtTypes
    <3>2. u.hung_up = FALSE /\ tasks[c].hung_up = FALSE
      BY <1>4, <2>1, <3>1, Zenon DEF Task
    <3> QED BY Zenon, <2>1, <2>2, <2>3, <2>4, <2>5, <3>2 DEF Move
  <2>7. u # tasks[c]
    BY <1>2, <2>2, Zenon
  <2> QED BY <2>6, <2>7, Zenon
<1> QED BY <1>3, <1>4, Zenon

\* Fields of a task.
LEMMA TaskUpdates ==
  ASSUME NEW t \in Task
  PROVE  /\ \A p \in Phase : [t EXCEPT !.phase = p] \in Task
         /\ \A j \in Request \cup {0} : [t EXCEPT !.job = j] \in Task
         /\ \A b \in BOOLEAN : [t EXCEPT !.snapshot = b] \in Task
         /\ \A l \in 0 .. MaxLag : [t EXCEPT !.lag = l] \in Task
         /\ \A n \in Nat : [t EXCEPT !.decided_at = n] \in Task
         /\ \A q \in Slot(Request) : [t EXCEPT !.inbox = q] \in Task
         /\ \A q \in Slot(Answer) : [t EXCEPT !.outbox = q] \in Task
         /\ \A b \in BOOLEAN : [t EXCEPT !.hung_up = b] \in Task
         /\ \A b \in BOOLEAN : [t EXCEPT !.closed = b] \in Task
<1> USE DEF Task
<1>1. \A p \in Phase : [t EXCEPT !.phase = p] \in Task
  BY Zenon
<1>2. \A j \in Request \cup {0} : [t EXCEPT !.job = j] \in Task
  OBVIOUS
<1>3. \A b \in BOOLEAN : [t EXCEPT !.snapshot = b] \in Task
  BY Zenon
<1>4. \A l \in 0 .. MaxLag : [t EXCEPT !.lag = l] \in Task
  BY Zenon
<1>5. \A n \in Nat : [t EXCEPT !.decided_at = n] \in Task
  BY Zenon
<1>6. \A q \in Slot(Request) : [t EXCEPT !.inbox = q] \in Task
  BY Zenon
<1>7. \A q \in Slot(Answer) : [t EXCEPT !.outbox = q] \in Task
  BY Zenon
<1>8. \A b \in BOOLEAN : [t EXCEPT !.hung_up = b] \in Task
  BY Zenon
<1>9. \A b \in BOOLEAN : [t EXCEPT !.closed = b] \in Task
  BY Zenon
<1> QED BY Zenon, <1>1, <1>2, <1>3, <1>4, <1>5, <1>6, <1>7, <1>8, <1>9

\* send_response, as seen by whoever is at the other end.
LEMMA RepliesBack ==
  ASSUME AnswerInv, NEW c \in Conn, tasks[c] # None, Held(tasks[c]) # 0,
         tasks[c].inbox = <<>>, ~tasks[c].closed,
             NEW a \in Answer \ {"granted"},
         tasks'[c] = IF tasks[c].hung_up THEN None
                     ELSE [tasks[c] EXCEPT !.phase = "idle", !.job = 0,
                                           !.outbox = Append(tasks[c].outbox,
                                               a)]
  PROVE  Replies(c, a) /\ tasks'[c] \in Task \cup {None}
<1> DEFINE t == tasks[c]
           u == tasks'[c]
<1>1. t \in Task
  BY Zenon DEF AnswerInv, MgmtTypes
<1>2. CASE t.hung_up
  BY <1>2, Zenon DEF Replies
<1>3. CASE ~t.hung_up
  <2>1. t.outbox = <<>>
    BY <1>3, NothingSent, Zenon
  <2>2. Append(t.outbox, a) = <<a>> /\ <<a>> \in Slot(Answer)
    BY <2>1 DEF Slot
  <2>3. u = [t EXCEPT !.phase = "idle", !.job = 0, !.outbox = <<a>>]
    BY <1>3, <2>2, Zenon
  <2>4. t.hung_up = FALSE /\ t.closed = FALSE
    BY <1>1, <1>3, Zenon DEF Task
  <2>5. "idle" \in Phase /\ 0 \in Request \cup {0} /\ t.inbox = <<>>
    BY Zenon DEF Phase
  <2>6. u \in Task /\ u # None
    <3> HIDE DEF t, u
    <3>1. u \in Task
      BY Zenon, <1>1, <2>2, <2>3, <2>5, TaskUpdates
    <3> QED BY <3>1, CallAssumption, Zenon
  <2> HIDE DEF t, u
  <2>7. /\ u.job = 0 /\ u.inbox = <<>> /\ u.outbox = <<a>>
        /\ ~u.hung_up /\ u.phase = "idle" /\ ~u.closed
    BY <1>1, <2>3, <2>4, <2>5, Zenon DEF Task
  <2> USE DEF t, u
  <2> QED BY <1>3, <2>6, <2>7, Zenon DEF Replies
<1> QED BY <1>2, <1>3, Zenon

\* A task that answers truly and is done with its request.
LEMMA RespondsStep ==
  ASSUME AnswerInv, NEW c \in Conn, tasks[c] # None,
         tasks[c].phase \notin Waiting,
         NEW r, r = tasks[c].job, NEW a \in Answer \ {"granted"},
         Responds(c, a), IsTrue(r, a)',
         UNCHANGED <<clock, good, lastGood, caller>>, commands' \in Seq(Conn),
         \A q \in Request : q = r \/ Same(q)
  PROVE  AnswerInv'
<1> DEFINE t == tasks[c]
           u == tasks'[c]
<1>1. /\ u = IF t.hung_up THEN None
             ELSE [t EXCEPT !.phase = "idle", !.job = 0,
                            !.outbox = Append(@, a)]
      /\ \A d \in Conn \ {c} : tasks'[d] = tasks[d]
  BY Zenon DEF Responds, AnswerInv, MgmtTypes
<1>2. /\ t \in Task /\ r \in Request /\ Held(t) = r /\ Held(t) # 0
      /\ t.inbox = <<>> /\ ~t.closed
  BY Working, Zenon
<1>3. Replies(c, a) /\ u \in Task \cup {None}
  BY Zenon, <1>1, <1>2, RepliesBack
<1>4. Move(c) /\ u # t
  BY <1>2, <1>3, ReplyMoves, Zenon
<1>5. tasks' \in [Conn -> Task \cup {None}]
  <2>1. tasks' = [tasks EXCEPT ![c] = u]
            /\ tasks \in [Conn -> Task \cup {None}]
    BY Zenon DEF Responds, AnswerInv, MgmtTypes
  <2> QED BY <1>3, <2>1, Zenon
<1>6. StepOf(c, r)
  BY <1>1, <1>4, <1>5, Zenon DEF StepOf
<1> QED BY <1>2, <1>4, <1>6, OneTask, Zenon

\* A task goes to phase p.
Advances(c, p) == tasks' = [tasks EXCEPT ![c].phase = p]

\* A task that goes to the next phase.
LEMMA WorksStep ==
  ASSUME AnswerInv, NEW c \in Conn, tasks[c] # None,
         tasks[c].phase \notin Waiting,
         NEW r, r = tasks[c].job, NEW p \in Phase \ Waiting,
         p # tasks[c].phase,
         Advances(c, p), Stage(r, p)',
         UNCHANGED <<clock, good, lastGood, caller>>, commands' \in Seq(Conn),
         \A q \in Request : q = r \/ Same(q)
  PROVE  AnswerInv'
<1> DEFINE t == tasks[c]
           u == tasks'[c]
<1>1. u = [t EXCEPT !.phase = p] /\ \A d \in Conn \ {c} : tasks'[d] = tasks[d]
  BY Zenon DEF AnswerInv, MgmtTypes, Advances
<1>2. /\ t \in Task /\ r \in Request /\ Held(t) = r
      /\ t.inbox = <<>> /\ ~t.closed
  BY Working, Zenon
<1>3. /\ u \in Task /\ u # t /\ u # None /\ u.phase = p
      /\ Continues(c, r)
  BY <1>1, <1>2, CallAssumption DEF Task, Continues
<1>4. tasks' \in [Conn -> Task \cup {None}]
  BY <1>3, Zenon DEF AnswerInv, MgmtTypes, Advances
<1>5. StepOf(c, r)
  BY <1>1, <1>3, <1>4, Zenon DEF StepOf
<1>6. Stage(r, tasks[c].phase)'
  BY <1>3, Zenon
<1> QED BY <1>2, <1>3, <1>5, <1>6, Works, Zenon

----------------------------------------------------------------------------
(* What the owners of the state do for a task's request.                   *)

\* The router carries a request out.
LEMMA RouterStep ==
  ASSUME AnswerInv, NEW c \in Conn, forward_to_router(c)
  PROVE  AnswerInv'
<1> SUFFICES ASSUME NEW r, r = tasks[c].job PROVE AnswerInv'
  BY Zenon
<1>1. /\ tasks[c] # None /\ tasks[c].phase = "router"
      /\ tasks[c].phase \notin Waiting
      /\ UNCHANGED <<clock, good, lastGood, caller>>
      /\ UNCHANGED <<policy, recorded, flooded, removed>>
      /\ commands' \in Seq(Conn) /\ asked' = asked
  BY Zenon DEF forward_to_router, Waiting, AnswerInv, MgmtTypes, caller
<1>2. asked[r] \in {"plain", "config"} /\ Untouched(r)
  BY <1>1, Working, Zenon DEF Stage
<1>3. CASE Responds(c, "refused") /\ UNCHANGED applied
  <2>1. IsTrue(r, "refused")' /\ \A q : Same(q)
    BY <1>1, <1>2, <1>3, Zenon DEF IsTrue, Untouched, Same
  <2> QED BY <1>1, <1>3, <2>1, RespondsStep, Zenon DEF Answer
<1>4. CASE applied' = applied \cup {r} /\ asked[r] = "config"
                /\ Advances(c, "ask")
  <2>1. \A q : q = r \/ Same(q)
    BY <1>1, <1>4, Zenon DEF Same
  <2>2. Stage(r, "ask")'
    BY <1>1, <1>2, <1>4, Zenon DEF Stage, Untouched
  <2>3. "ask" \in Phase \ Waiting
    BY Zenon DEF Phase, Waiting
  <2> QED BY <1>1, <1>4, <2>1, <2>2, <2>3, WorksStep, Zenon
<1>5. CASE applied' = applied \cup {r} /\ asked[r] # "config"
          /\ Responds(c, "ok")
  <2>1. IsTrue(r, "ok")' /\ \A q : q = r \/ Same(q)
    BY <1>1, <1>2, <1>5, Zenon DEF IsTrue, Same
  <2> QED BY <1>1, <1>5, <2>1, RespondsStep, Zenon DEF Answer
<1> QED BY <1>3, <1>4, <1>5, Zenon DEF forward_to_router, KindOf, Advances

\* A request is passed to the authority.
LEMMA AskStep ==
  ASSUME AnswerInv, NEW c \in Conn, forward_to_authority(c)
  PROVE  AnswerInv'
<1> SUFFICES ASSUME NEW r, r = tasks[c].job PROVE AnswerInv'
  BY Zenon
<1>1. /\ tasks[c] # None /\ tasks[c].phase = "ask"
      /\ tasks[c].phase \notin Waiting
      /\ UNCHANGED <<clock, good, lastGood, caller>>
      /\ UNCHANGED effects /\ asked' = asked
      /\ commands' \in Seq(Conn)
  <2>1. commands' = commands \/ commands' = Append(commands, c)
    BY Zenon DEF forward_to_authority
  <2>2. commands \in Seq(Conn)
    BY Zenon DEF AnswerInv, MgmtTypes
  <2>3. commands' \in Seq(Conn)
    BY <2>1, <2>2
  <2> QED BY <2>3, Zenon DEF forward_to_authority, Waiting, caller
<1>2. \A q : Same(q)
  BY <1>1, Zenon DEF effects, Same
<1>3. Stage(r, "ask")
  BY <1>1, Working, Zenon
<1>4. ASSUME NEW a \in {"died", "busy"}, Responds(c, Worded(c, a))
      PROVE  AnswerInv'
  <2>1. SUFFICES ASSUME NEW w, w = Worded(c, a), Responds(c, w)
                            PROVE AnswerInv'
    BY <1>4, Zenon
  <2>2. \/ w = "partial" /\ asked[r] = "config"
        \/ w \in {"died", "busy"} /\ asked[r] # "config"
    BY <2>1, Zenon DEF Worded, KindOf
  <2>3. IsTrue(r, w)'
    BY <1>1, <1>3, <2>2, Zenon DEF Stage, effects, Untouched, IsTrue
  <2>4. w \in Answer \ {"granted"}
    BY <2>2, Zenon DEF Answer
  <2> QED BY <1>1, <1>2, <2>1, <2>3, <2>4, RespondsStep, Zenon
<1>5. CASE Advances(c, "authority")
  <2>1. "authority" \in Phase \ Waiting
    BY Zenon DEF Phase, Waiting
  <2>2. Stage(r, "authority")'
    BY <1>1, <1>3, Zenon DEF Stage, Untouched, effects
  <2> QED BY <1>1, <1>2, <1>5, <2>1, <2>2, WorksStep, Zenon
<1> QED BY <1>4, <1>5, Zenon DEF forward_to_authority, Advances

\* A request changes the authority's policy.
LEMMA PolicyStep ==
  ASSUME AnswerInv, NEW c \in Conn, tasks[c] # None, AppliesPolicy(c)
  PROVE  AnswerInv'
<1> SUFFICES ASSUME NEW r, r = tasks[c].job PROVE AnswerInv'
  BY Zenon
<1>1. /\ tasks[c].phase = "authority" /\ asked[r] = "config"
      /\ tasks[c].phase \notin Waiting
      /\ UNCHANGED <<clock, good, lastGood, caller>>
      /\ UNCHANGED <<applied, recorded, flooded, removed>>
      /\ commands' \in Seq(Conn) /\ asked' = asked
  BY DEF AppliesPolicy, AtHead, KindOf, Waiting, AnswerInv, MgmtTypes, caller
<1>2. r \in applied /\ r \notin policy
  BY <1>1, Working, Zenon DEF Stage
<1>3. CASE policy' = policy \cup {r} /\ Responds(c, "ok")
  <2>1. IsTrue(r, "ok")' /\ \A q : q = r \/ Same(q)
    BY <1>1, <1>2, <1>3, Zenon DEF IsTrue, Same
  <2> QED BY <1>1, <1>3, <2>1, RespondsStep, Zenon DEF Answer
<1>4. CASE UNCHANGED policy /\ Responds(c, "partial")
  <2>1. IsTrue(r, "partial")' /\ \A q : q = r \/ Same(q)
    BY <1>1, <1>2, <1>4, Zenon DEF IsTrue, Same
  <2> QED BY <1>1, <1>4, <2>1, RespondsStep, Zenon DEF Answer
<1> QED BY <1>3, <1>4, Zenon DEF AppliesPolicy

\* The authority records a revocation.
LEMMA RevokeStep ==
  ASSUME AnswerInv, NEW c \in Conn, tasks[c] # None, serve_one_request(c)
  PROVE  AnswerInv'
<1> SUFFICES ASSUME NEW r, r = tasks[c].job PROVE AnswerInv'
  BY Zenon
<1>1. /\ tasks[c].phase = "authority" /\ asked[r] = "revoke"
      /\ tasks[c].phase \notin Waiting
      /\ UNCHANGED <<clock, good, lastGood, caller>>
      /\ UNCHANGED <<applied, policy, flooded, removed>>
      /\ commands' \in Seq(Conn) /\ asked' = asked
  <2>1. commands # <<>> /\ commands \in Seq(Conn)
    BY Zenon DEF serve_one_request, AtHead, AnswerInv, MgmtTypes
  <2>2. commands' = commands \/ commands' = Tail(commands)
    BY Zenon DEF serve_one_request
  <2>3. commands' \in Seq(Conn)
    BY <2>1, <2>2
  <2> QED BY <2>3, Zenon
             DEF serve_one_request, AtHead, KindOf, Waiting, caller
<1>2. Untouched(r)
  BY <1>1, Working, Zenon DEF Stage
<1>3. CASE Responds(c, "refused") /\ UNCHANGED recorded
  <2>1. IsTrue(r, "refused")' /\ \A q : Same(q)
    BY <1>1, <1>2, <1>3, Zenon DEF IsTrue, Same, Untouched
  <2> QED BY <1>1, <1>3, <2>1, RespondsStep, Zenon DEF Answer
<1>4. CASE recorded' = recorded \cup {r} /\ Advances(c, "flood")
  <2>1. Stage(r, "flood")' /\ \A q : q = r \/ Same(q)
    BY <1>1, <1>2, <1>4, Zenon DEF Stage, Same
  <2>2. "flood" \in Phase \ Waiting
    BY Zenon DEF Phase, Waiting
  <2> QED BY <1>1, <1>4, <2>1, <2>2, WorksStep, Zenon
<1> QED BY <1>3, <1>4, Zenon DEF serve_one_request, Advances

\* The authority floods it.
LEMMA FloodStep ==
  ASSUME AnswerInv, NEW c \in Conn, commands # <<>>, FloodsRevocation(c)
  PROVE  AnswerInv'
<1> SUFFICES ASSUME NEW r, r = tasks[c].job PROVE AnswerInv'
  BY Zenon
<1>1. /\ tasks[c] # None /\ tasks[c].phase = "flood"
      /\ tasks[c].phase \notin Waiting
      /\ UNCHANGED <<clock, good, lastGood, caller>>
      /\ UNCHANGED <<applied, policy, recorded, removed>>
      /\ commands' \in Seq(Conn) /\ asked' = asked
  BY DEF FloodsRevocation, Waiting, AnswerInv, MgmtTypes, caller
<1>2. asked[r] = "revoke" /\ r \in recorded
  BY <1>1, Working, Zenon DEF Stage
<1>3. CASE flooded' \in {flooded, flooded \cup {r}} /\ Responds(c, "unflooded")
  <2>1. IsTrue(r, "unflooded")' /\ \A q : q = r \/ Same(q)
    BY <1>1, <1>2, <1>3, Zenon DEF IsTrue, Same
  <2> QED BY <1>1, <1>3, <2>1, RespondsStep, Zenon DEF Answer
<1>4. CASE flooded' = flooded \cup {r} /\ Advances(c, "vpn")
  <2>1. Stage(r, "vpn")' /\ \A q : q = r \/ Same(q)
    BY <1>1, <1>2, <1>4, Zenon DEF Stage, Same
  <2>2. "vpn" \in Phase \ Waiting
    BY Zenon DEF Phase, Waiting
  <2> QED BY <1>1, <1>4, <2>1, <2>2, WorksStep, Zenon
<1> QED BY <1>3, <1>4, Zenon DEF FloodsRevocation, Advances

\* The peer is removed from the tunnel.
LEMMA VpnStep ==
  ASSUME AnswerInv, NEW c \in Conn, revoke_vpn_alongside_mesh(c)
  PROVE  AnswerInv'
<1> SUFFICES ASSUME NEW r, r = tasks[c].job PROVE AnswerInv'
  BY Zenon
<1>1. /\ tasks[c] # None /\ tasks[c].phase = "vpn"
      /\ tasks[c].phase \notin Waiting
      /\ UNCHANGED <<clock, good, lastGood, caller>>
      /\ UNCHANGED <<applied, policy, recorded, flooded>>
      /\ commands' \in Seq(Conn) /\ asked' = asked
  BY Zenon
     DEF revoke_vpn_alongside_mesh, Waiting, AnswerInv, MgmtTypes, caller
<1>2. asked[r] = "revoke" /\ r \in recorded /\ r \in flooded
  BY <1>1, Working, Zenon DEF Stage
<1>3. CASE removed' = removed \cup {r} /\ Responds(c, "ok")
  <2>1. IsTrue(r, "ok")' /\ \A q : q = r \/ Same(q)
    BY <1>1, <1>2, <1>3, Zenon DEF IsTrue, Same
  <2> QED BY <1>1, <1>3, <2>1, RespondsStep, Zenon DEF Answer
<1>4. CASE UNCHANGED removed /\ Responds(c, "half")
  <2>1. IsTrue(r, "half")' /\ \A q : q = r \/ Same(q)
    BY <1>1, <1>2, <1>4, Zenon DEF IsTrue, Same
  <2> QED BY <1>1, <1>4, <2>1, RespondsStep, Zenon DEF Answer
<1> QED BY <1>3, <1>4, Zenon DEF revoke_vpn_alongside_mesh

----------------------------------------------------------------------------
(* What the task itself does.                                              *)

\* A step that changes one task and nothing else.
Sets(c, u) ==
    /\ tasks' = [tasks EXCEPT ![c] = u]
    /\ UNCHANGED <<clock, good, lastGood, caller, commands, effects>>

\* What it leaves alone.
LEMMA SetsTask ==
  ASSUME AnswerInv, NEW c \in Conn, NEW u \in Task \cup {None},
         u # tasks[c], Sets(c, u)
  PROVE  /\ tasks'[c] = u /\ UNCHANGED caller /\ \A q : Same(q)
         /\ \A r : StepOf(c, r)
<1>1. tasks \in [Conn -> Task \cup {None}] /\ commands \in Seq(Conn)
  BY Zenon DEF AnswerInv, MgmtTypes
<1>2. \A q : Same(q)
  BY Zenon DEF Sets, effects, Same
<1>3. /\ tasks'[c] = u /\ \A d \in Conn \ {c} : tasks'[d] = tasks[d]
      /\ tasks' \in [Conn -> Task \cup {None}]
  BY <1>1, Zenon DEF Sets
<1>4. UNCHANGED <<clock, good, lastGood, caller>> /\ commands' \in Seq(Conn)
  BY <1>1, Zenon DEF Sets
<1> QED BY <1>2, <1>3, <1>4, Zenon DEF StepOf

\* The invariant, of one task.
LEMMA TaskFacts ==
  ASSUME AnswerInv, NEW c \in Conn, tasks[c] # None
  PROVE  tasks[c] \in Task /\ TaskOK(tasks[c])
BY Zenon DEF AnswerInv, MgmtTypes, TaskInv

\* A task that answers without an effect.
LEMMA AnswerStep ==
  ASSUME AnswerInv, NEW c \in Conn, tasks[c] # None,
         NEW r \in Request, Held(tasks[c]) = r, NEW a \in Answer \ {"granted"},
         NEW u \in Task \cup {None}, u # tasks[c], Sets(c, u),
         Replies(c, a), IsTrue(r, a)
  PROVE  AnswerInv'
<1>1. /\ tasks'[c] = u /\ UNCHANGED caller /\ Same(r) /\ StepOf(c, r)
  BY SetsTask, Zenon
<1>2. IsTrue(r, a)'
  BY <1>1, SameKeeps, Zenon DEF caller
<1>3. Move(c)
  BY <1>1, <1>2, ReplyMoves, Zenon
<1> QED BY <1>1, <1>3, OneTask, Zenon

\* A task that takes a request up.
LEMMA DispatchStep ==
  ASSUME AnswerInv, NEW c \in Conn, tasks[c] # None,
         tasks[c].phase \in {"idle", "decide"},
         NEW r \in Request, Held(tasks[c]) = r, Untouched(r),
         NEW v \in Task, v.inbox = <<>>, ~v.closed,
         v.outbox = tasks[c].outbox, v.hung_up = tasks[c].hung_up,
         Sets(c, Dispatched(v, r))
  PROVE  AnswerInv'
<1>1. tasks[c] \in Task /\ r # 0 /\ r <= Len(asked)
  BY TaskFacts, CallAssumption DEF TaskOK, Request
<1>2. asked[r] \in Kind
  BY <1>1, CallAssumption DEF Request, AnswerInv, MgmtTypes
<1>3. SUFFICES ASSUME NEW u, u = Dispatched(v, r), Sets(c, u) PROVE AnswerInv'
  BY Zenon
<1>4. CASE asked[r] = "barred" /\ tasks[c].hung_up
  <2>1. u = None
    BY <1>3, <1>4, Zenon DEF Dispatched
  <2>2. Replies(c, "refused")
    BY <1>3, <1>4, <2>1, SetsTask, Zenon DEF Replies
  <2>3. IsTrue(r, "refused")
    BY Zenon DEF IsTrue, Untouched
  <2> QED BY <1>3, <2>1, <2>2, <2>3, AnswerStep, Zenon DEF Answer
<1>5. CASE asked[r] = "barred" /\ ~tasks[c].hung_up
  <2>1. v.outbox = <<>>
    BY <1>1, <1>5, NothingSent, Zenon
  <2>2. Append(v.outbox, "refused") = <<"refused">>
            /\ <<"refused">> \in Slot(Answer)
    BY <2>1 DEF Slot, Answer
  <2>3. u = [v EXCEPT !.phase = "idle", !.job = 0, !.outbox = <<"refused">>]
    <3>1. ~v.hung_up
      BY <1>5, Zenon
    <3> QED BY Zenon, <1>3, <1>5, <2>2, <3>1 DEF Dispatched
  <2>4. "idle" \in Phase /\ 0 \in Request \cup {0}
    BY Zenon DEF Phase
  <2>5. u \in Task
    BY Zenon, <2>2, <2>3, <2>4, TaskUpdates
  <2>6. /\ u.job = 0 /\ u.inbox = <<>> /\ u.outbox = <<"refused">>
        /\ ~u.hung_up /\ u.phase = "idle" /\ ~u.closed
    BY <1>5, <2>3, Zenon DEF Task
  <2>7. u # tasks[c] /\ u # None
    BY <1>1, <2>5, <2>6, CallAssumption, Zenon DEF Held
  <2>8. Replies(c, "refused")
    BY <1>3, <1>5, <2>5, <2>6, <2>7, SetsTask DEF Replies
  <2>9. IsTrue(r, "refused")
    BY Zenon DEF IsTrue, Untouched
  <2> QED BY <1>3, <2>5, <2>7, <2>8, <2>9, AnswerStep, Zenon DEF Answer
<1>6. CASE asked[r] # "barred"
  <2> SUFFICES ASSUME NEW p, p = IF asked[r] = "revoke" THEN "ask"
                          ELSE "router"
               PROVE  AnswerInv'
    BY Zenon
  <2>1. u = [v EXCEPT !.phase = p, !.job = r]
    BY <1>2, <1>3, <1>6, Zenon DEF Dispatched, Kind
  <2>2. p \in Phase /\ p \notin Waiting /\ r \in Request \cup {0}
    BY Zenon DEF Phase, Waiting
  <2>3. Stage(r, p)
    BY <1>2, <1>6, Zenon DEF Stage, Kind
  <2>4. u \in Task
    BY Zenon, <2>1, <2>2, TaskUpdates
  <2>5. /\ u.job = r /\ u.phase = p /\ u.inbox = <<>> /\ ~u.closed
        /\ u.outbox = v.outbox /\ u.hung_up = v.hung_up
    BY <2>1, Zenon DEF Task
  <2>6. u # tasks[c] /\ u # None
    BY <2>2, <2>4, <2>5, CallAssumption, Zenon
  <2>7. tasks'[c] = u /\ StepOf(c, r) /\ Same(r) /\ UNCHANGED caller
    BY <1>3, <2>4, <2>6, SetsTask, Zenon
  <2>8. Continues(c, r)
    BY <2>2, <2>5, <2>6, <2>7, Zenon DEF Continues
  <2>9. Stage(r, tasks[c].phase)'
    <3>1. asked'[r] = asked[r] /\ tasks'[c].phase = p
      BY <2>5, <2>7, Zenon DEF caller
    <3>2. Stage(r, p)'
      BY <2>3, <2>7, <3>1, SameKeeps, Zenon DEF caller
    <3> QED BY <3>1, <3>2, Zenon
  <2> QED BY <2>7, <2>8, <2>9, Works, Zenon
<1> QED BY <1>4, <1>5, <1>6, Zenon

\* A task of a new connection.
LEMMA OpenedTask == Opened \in Task
<1>1. /\ 0 \in 0 .. MaxLag /\ <<>> \in Slot(Request) /\ <<>> \in Slot(Answer)
      /\ "authenticate" \in Phase
  BY CallAssumption DEF Slot, Phase
<1> QED BY <1>1, Zenon DEF Opened, Task

\* The task of a connection the node has closed.
LEMMA ClosedTask ==
  ASSUME NEW q \in Slot(Answer)
  PROVE  LET u == [Opened EXCEPT !.closed = TRUE, !.outbox = q]
         IN  /\ u \in Task /\ u.job = 0 /\ u.inbox = <<>> /\ u.outbox = q
             /\ u.hung_up = FALSE /\ u.closed = TRUE
                  /\ u.phase = "authenticate"
<1> DEFINE u == [Opened EXCEPT !.closed = TRUE, !.outbox = q]
<1>2. Opened \in Task
  BY OpenedTask, Zenon
<1>3. u \in Task
  BY Zenon, <1>2, TaskUpdates
<1>4. /\ u.job = 0 /\ u.inbox = <<>> /\ u.outbox = q
      /\ u.hung_up = FALSE /\ u.closed = TRUE /\ u.phase = "authenticate"
  BY Zenon DEF Opened
<1> QED BY <1>3, <1>4, Zenon

\* Denies, for a request in hand.
LEMMA DenyStep ==
  ASSUME AnswerInv, NEW c \in Conn, tasks[c] # None,
         NEW r \in Request, Held(tasks[c]) = r, Untouched(r), Denies(c),
         UNCHANGED <<clock, good, lastGood, caller, commands, effects>>
  PROVE  AnswerInv'
<1>1. SUFFICES ASSUME NEW u,
                      u = IF tasks[c].hung_up THEN None
                          ELSE [Opened EXCEPT !.closed = TRUE,
                                              !.outbox = <<"denied">>],
                      Sets(c, u)
               PROVE  AnswerInv'
  BY Zenon DEF Denies, Sets
<1>2. tasks[c].hung_up => u = None
  BY <1>1, Zenon
<1>3. ~tasks[c].hung_up =>
         /\ u \in Task /\ u.job = 0 /\ u.inbox = <<>>
         /\ u.outbox = <<"denied">> /\ ~u.hung_up
         /\ u.phase = "authenticate" /\ u.closed
  <2> SUFFICES ASSUME ~tasks[c].hung_up
               PROVE  /\ u \in Task /\ u.job = 0 /\ u.inbox = <<>>
                      /\ u.outbox = <<"denied">> /\ ~u.hung_up
                      /\ u.phase = "authenticate" /\ u.closed
    BY Zenon
  <2>1. u = [Opened EXCEPT !.closed = TRUE, !.outbox = <<"denied">>]
    BY <1>1, Zenon
  <2>2. <<"denied">> \in Slot(Answer)
    BY Zenon DEF Slot, Answer
  <2> QED BY Zenon, <2>1, <2>2, ClosedTask
<1>4. u \in Task \cup {None} /\ u # tasks[c]
  BY <1>2, <1>3, CallAssumption DEF Held, Request
<1>5. tasks'[c] = u
  BY <1>1, <1>4, SetsTask, Zenon
<1>6. Replies(c, "denied")
  BY <1>2, <1>3, <1>5, CallAssumption, Zenon DEF Replies
<1>7. IsTrue(r, "denied")
  BY Zenon DEF IsTrue, Untouched
<1> QED BY <1>1, <1>4, <1>6, <1>7, AnswerStep, Zenon DEF Answer

\* The caller is admitted or turned away before it has asked for anything.
Admission(c, u) ==
    \/ u = None /\ tasks[c].hung_up
    \/ /\ u \in Task /\ u.job = 0 /\ u.inbox = <<>>
       /\ u.hung_up = tasks[c].hung_up
       /\ \/ u.phase = "admit" /\ u.outbox = <<>> /\ ~u.closed
          \/ u.phase = "idle" /\ u.outbox = <<"granted">> /\ ~u.closed
          \/ u.phase = "authenticate" /\ u.outbox = <<"denied">> /\ u.closed

\* A step of a task that has no request yet.
LEMMA AdmitMoves ==
  ASSUME AnswerInv, NEW c \in Conn, tasks[c] # None,
         tasks[c].phase \in {"authenticate", "admit"}, ~tasks[c].closed,
         NEW u \in Task \cup {None}, u # tasks[c], Sets(c, u),
         Admission(c, u)
  PROVE  AnswerInv'
<1>1. tasks'[c] = u /\ UNCHANGED caller /\ (\A q : Same(q)) /\ StepOf(c, 0)
  BY SetsTask, Zenon
<1>2. /\ tasks[c] \in Task /\ tasks[c].job = 0 /\ tasks[c].inbox = <<>>
      /\ tasks[c].outbox = <<>> /\ Held(tasks[c]) = 0
  BY TaskFacts, HeldTyped, Zenon DEF TaskOK, Waiting
<1>3. CASE u = None /\ tasks[c].hung_up
  <2>1. Move(c)
    BY Zenon, <1>1, <1>3 DEF Move
  <2> QED BY <1>1, <1>2, <2>1, OneTask, Zenon
<1>4. CASE u # None
  <2>1. Held(u) = 0 /\ Held(tasks[c])' = 0
    BY <1>1, <1>4, Zenon DEF Held, Admission
  <2>2. TaskOK(tasks[c])'
    BY <1>1, <1>4, <2>1, CallAssumption
       DEF TaskOK, Waiting, AnswerInv, MgmtTypes, caller, Admission
  <2>3. ~Quiet(tasks[c])
    BY Zenon DEF Quiet
  <2>4. \A q \in Request : ~Exchanging(tasks[c], q)
    BY <1>2, CallAssumption DEF Exchanging, Request
  <2>5. \A q \in Request : Opening(tasks[c], q) => Opening(tasks[c], q)'
    <3> SUFFICES ASSUME NEW q \in Request, Untouched(q)
                 PROVE  Opening(tasks[c], q)'
      BY Zenon DEF Opening
    <3>1. Untouched(q)'
      BY <1>1, SameKeeps, Zenon DEF caller
    <3> QED BY Zenon, <1>1, <1>4, <2>1, <3>1 DEF Opening, Admission
  <2>6. Move(c)
    BY Zenon, <1>1, <1>2, <1>4, <2>1, <2>2, <2>3, <2>4, <2>5
    DEF Move, Admission
  <2> QED BY <1>1, <1>2, <2>6, OneTask, Zenon
<1> QED BY <1>3, <1>4, CallAssumption, Zenon DEF Admission

\* The handshake.
LEMMA ContextStep ==
  ASSUME AnswerInv, NEW c \in Conn, context(c)
  PROVE  AnswerInv'
<1>1. /\ tasks[c] # None /\ ~tasks[c].closed
      /\ tasks[c].phase \in {"authenticate", "revalidate"}
      /\ tasks[c] \in Task /\ TaskOK(tasks[c]) /\ good \in BOOLEAN
  BY TaskFacts DEF context, AnswerInv, MgmtTypes
<1>2. SUFFICES ASSUME NEW u, NEW p,
                      p = IF tasks[c].phase = "authenticate" THEN "admit"
                          ELSE "decide",
                      u = [tasks[c] EXCEPT !.phase = p, !.snapshot = good,
                          !.lag = 0],
                      Sets(c, u)
               PROVE  AnswerInv'
  BY Zenon DEF context, Sets
<1>3. u \in Task
  <2>1. p \in Phase /\ 0 \in 0 .. MaxLag
    BY <1>2, CallAssumption DEF Phase
  <2> QED BY Zenon, <1>1, <1>2, <2>1, TaskUpdates
<1>4. /\ u.phase = p /\ u.job = tasks[c].job /\ u.inbox = tasks[c].inbox
      /\ u.outbox = tasks[c].outbox /\ u.hung_up = tasks[c].hung_up
      /\ u.closed = tasks[c].closed
  BY <1>1, <1>2, Zenon DEF Task
<1>5. u # tasks[c] /\ u # None
  <2>1. p # tasks[c].phase
    BY <1>1, <1>2, Zenon
  <2> QED BY <1>3, <1>4, <2>1, CallAssumption, Zenon
<1>6. CASE tasks[c].phase = "authenticate"
  <2>1. tasks[c].job = 0 /\ tasks[c].inbox = <<>> /\ tasks[c].outbox = <<>>
    BY <1>1, <1>6, Zenon DEF TaskOK, Waiting
  <2>2. u.phase = "admit" /\ u.job = 0 /\ u.inbox = <<>> /\ u.outbox = <<>>
            /\ ~u.closed
    BY <1>1, <1>2, <1>4, <1>6, <2>1, Zenon
  <2>3. Sets(c, u)
    BY <1>2, Zenon
  <2>4. Admission(c, u)
    BY <1>3, <1>4, <2>2, Zenon DEF Admission
  <2> QED BY <1>1, <1>3, <1>5, <1>6, <2>3, <2>4, AdmitMoves, Zenon
<1>7. CASE tasks[c].phase = "revalidate"
  <2>1. SUFFICES ASSUME NEW r, r = tasks[c].job PROVE AnswerInv'
    BY Zenon
  <2>2. /\ r \in Request /\ Held(tasks[c]) = r /\ tasks[c].inbox = <<>>
        /\ Stage(r, "revalidate")
    BY <1>1, <1>7, <2>1, Working, Zenon DEF Waiting
  <2>3. tasks'[c] = u /\ UNCHANGED caller /\ Same(r) /\ StepOf(c, r)
    BY <1>2, <1>3, <1>5, SetsTask, Zenon
  <2>4. Continues(c, r)
    <3>1. u.phase \notin Waiting
      BY <1>2, <1>4, <1>7 DEF Waiting
    <3> QED BY <1>1, <1>4, <1>5, <2>1, <2>2, <2>3, <3>1, Zenon DEF Continues
  <2>5. Stage(r, "decide")'
    BY <2>2, <2>3, SameKeeps, Zenon DEF caller, Stage
  <2>6. Stage(r, tasks[c].phase)'
    BY <1>2, <1>4, <1>7, <2>3, <2>5, Zenon
  <2> QED BY <1>1, <2>2, <2>3, <2>4, <2>6, Works, Zenon
<1> QED BY <1>1, <1>6, <1>7

\* The decision to admit the client.
LEMMA AdmitsStep ==
  ASSUME AnswerInv, NEW c \in Conn, Admits(c)
  PROVE  AnswerInv'
<1>1. /\ tasks[c] # None /\ ~tasks[c].closed /\ tasks[c].phase = "admit"
      /\ tasks[c] \in Task /\ clock \in Nat
  BY TaskFacts, Zenon DEF Admits, AnswerInv, MgmtTypes
<1>2. /\ tasks[c].job = 0 /\ tasks[c].inbox = <<>> /\ tasks[c].outbox = <<>>
  BY <1>1, TaskFacts, Zenon DEF TaskOK, Waiting
<1>3. CASE tasks[c].hung_up
  <2>1. Sets(c, None)
    BY <1>3, Zenon DEF Admits, Denies, Sets
  <2>2. Admission(c, None)
    BY <1>3, Zenon DEF Admission
  <2> QED BY <1>1, <2>1, <2>2, AdmitMoves, Zenon
<1>4. CASE ~tasks[c].hung_up /\ ~tasks[c].snapshot
  <2>1. SUFFICES ASSUME NEW u,
                        u = [Opened EXCEPT !.closed = TRUE,
                            !.outbox = <<"denied">>],
                        Sets(c, u)
                 PROVE  AnswerInv'
    BY Zenon, <1>4 DEF Admits, Denies, Sets
  <2>2. <<"denied">> \in Slot(Answer)
    BY Zenon DEF Slot, Answer
  <2>3. /\ u \in Task /\ u.job = 0 /\ u.inbox = <<>> /\ u.outbox = <<"denied">>
        /\ u.hung_up = FALSE /\ u.closed = TRUE /\ u.phase = "authenticate"
    BY Zenon, <2>1, <2>2, ClosedTask
  <2>4. Admission(c, u)
    BY <1>1, <1>4, <2>3, Zenon DEF Admission, Task
  <2>5. u # tasks[c]
    BY <1>1, <2>3, Zenon
  <2> QED BY <1>1, <2>1, <2>3, <2>4, <2>5, AdmitMoves, Zenon
<1>5. CASE ~tasks[c].hung_up /\ tasks[c].snapshot
  <2>1. SUFFICES ASSUME NEW u,
                        u = [tasks[c] EXCEPT !.phase = "idle",
                            !.decided_at = clock,
                                             !.snapshot = FALSE, !.lag = 0,
                                             !.outbox = <<"granted">>],
                        Sets(c, u)
                 PROVE  AnswerInv'
    BY Zenon, <1>5 DEF Admits, Sets
  <2>2. <<"granted">> \in Slot(Answer) /\ "idle" \in Phase /\ 0 \in 0 .. MaxLag
    BY CallAssumption DEF Slot, Answer, Phase
  <2>3. u \in Task
    BY Zenon, <1>1, <2>1, <2>2, TaskUpdates
  <2>4. /\ u.phase = "idle" /\ u.job = 0 /\ u.inbox = <<>>
        /\ u.outbox = <<"granted">> /\ u.hung_up = tasks[c].hung_up
        /\ u.closed = tasks[c].closed
    BY <1>1, <1>2, <2>1, Zenon DEF Task
  <2>5. Admission(c, u)
    BY <1>1, <2>3, <2>4, Zenon DEF Admission
  <2>6. u # tasks[c]
    BY <1>1, <2>4, Zenon
  <2> QED BY <1>1, <2>1, <2>3, <2>5, <2>6, AdmitMoves, Zenon
<1> QED BY <1>3, <1>4, <1>5, Zenon

\* A task reads a request.
LEMMA ReadsStep ==
  ASSUME AnswerInv, NEW c \in Conn, Reads(c)
  PROVE  AnswerInv'
<1>1. /\ tasks[c] # None /\ ~tasks[c].closed /\ tasks[c].phase = "idle"
      /\ tasks[c].inbox # <<>> /\ tasks[c] \in Task /\ TaskOK(tasks[c])
  BY TaskFacts, Zenon DEF Reads
<1>2. PICK r \in Request : tasks[c].inbox = <<r>>
  BY <1>1, Zenon DEF Task, Slot
<1>3. /\ Head(tasks[c].inbox) = r /\ Tail(tasks[c].inbox) = <<>>
      /\ tasks[c].job = 0 /\ Held(tasks[c]) = r /\ Untouched(r)
  <2>1. Head(tasks[c].inbox) = r /\ Tail(tasks[c].inbox) = <<>>
    BY <1>2
  <2>2. tasks[c].job = 0 /\ Untouched(r)
    BY <1>1, <2>1, Zenon DEF TaskOK, Waiting
  <2> QED BY <1>1, <2>1, <2>2, Zenon DEF Held
<1>4. SUFFICES ASSUME NEW v, v = [tasks[c] EXCEPT !.inbox = <<>>],
                      Sets(c, IF Expired(v)
                              THEN [v EXCEPT !.phase = "revalidate", !.job = r]
                              ELSE Dispatched(v, r))
               PROVE  AnswerInv'
  BY Zenon, <1>3 DEF Reads, Sets
<1>5. v \in Task
  BY Zenon, <1>1, <1>4, TaskUpdates DEF Slot
<1>6. /\ v.inbox = <<>> /\ v.outbox = tasks[c].outbox
      /\ v.hung_up = tasks[c].hung_up /\ v.closed = tasks[c].closed
  BY <1>1, <1>4, Zenon DEF Task
<1>7. CASE Expired(v)
  <2>1. SUFFICES ASSUME NEW u, u = [v EXCEPT !.phase = "revalidate",
                            !.job = r],
                        Sets(c, u)
                 PROVE  AnswerInv'
    BY Zenon, <1>4, <1>7
  <2>2. "revalidate" \in Phase /\ r \in Request \cup {0}
            /\ "revalidate" \notin Waiting
    BY Zenon DEF Phase, Waiting
  <2>3. u \in Task
    BY Zenon, <1>5, <2>1, <2>2, TaskUpdates
  <2>4. /\ u.job = r /\ u.phase = "revalidate" /\ u.inbox = <<>>
        /\ u.outbox = tasks[c].outbox /\ u.hung_up = tasks[c].hung_up
        /\ u.closed = tasks[c].closed
    BY <1>5, <1>6, <2>1, Zenon DEF Task
  <2>5. u # tasks[c] /\ u # None
    BY <1>1, <2>3, <2>4, CallAssumption, Zenon
  <2>6. tasks'[c] = u /\ UNCHANGED caller /\ Same(r) /\ StepOf(c, r)
    BY <2>1, <2>3, <2>5, SetsTask, Zenon
  <2>7. Continues(c, r)
    BY <1>1, <2>2, <2>4, <2>5, <2>6, Zenon DEF Continues
  <2>8. Untouched(r)'
    BY <1>3, <2>6, SameKeeps, Zenon DEF caller
  <2>9. Stage(r, tasks[c].phase)'
    BY <2>4, <2>6, <2>8, Zenon DEF Stage
  <2> QED BY <1>1, <1>3, <2>6, <2>7, <2>9, Works, Zenon
<1>8. CASE ~Expired(v)
  <2>1. Sets(c, Dispatched(v, r))
    BY Zenon, <1>4, <1>8
  <2> QED BY <1>1, <1>3, <1>5, <1>6, <2>1, DispatchStep, Zenon
<1> QED BY <1>7, <1>8, Zenon

\* A task decides again whether the client may go on.
LEMMA RevalidatesStep ==
  ASSUME AnswerInv, NEW c \in Conn, Revalidates(c)
  PROVE  AnswerInv'
<1>1. /\ tasks[c] # None /\ ~tasks[c].closed /\ tasks[c].phase = "decide"
      /\ tasks[c].phase \notin Waiting /\ clock \in Nat
      /\ UNCHANGED <<clock, good, lastGood, caller, commands, effects>>
  BY Zenon DEF Revalidates, Waiting, AnswerInv, MgmtTypes
<1>2. SUFFICES ASSUME NEW r, r = tasks[c].job PROVE AnswerInv'
  BY Zenon
<1>3. /\ tasks[c] \in Task /\ r \in Request /\ Held(tasks[c]) = r
      /\ tasks[c].inbox = <<>> /\ Untouched(r)
  BY <1>1, <1>2, Working, Zenon DEF Stage
<1>4. CASE ~tasks[c].snapshot
  <2>1. Denies(c)
    BY <1>4, Zenon DEF Revalidates
  <2> QED BY <1>1, <1>3, <2>1, DenyStep, Zenon
<1>5. CASE tasks[c].snapshot
  <2>1. SUFFICES ASSUME NEW v,
                        v = [tasks[c] EXCEPT !.decided_at = clock,
                            !.snapshot = FALSE,
                                             !.lag = 0],
                        Sets(c, Dispatched(v, r))
                 PROVE  AnswerInv'
    BY Zenon, <1>2, <1>5 DEF Revalidates, Sets
  <2>2. v \in Task
    <3>1. 0 \in 0 .. MaxLag
      BY CallAssumption
    <3> QED BY Zenon, <1>1, <1>3, <2>1, <3>1, TaskUpdates
  <2>3. /\ v.inbox = <<>> /\ v.outbox = tasks[c].outbox
        /\ v.hung_up = tasks[c].hung_up /\ v.closed = tasks[c].closed
    BY <1>3, <2>1, Zenon DEF Task
  <2>4. tasks[c].phase \in {"idle", "decide"} /\ ~v.closed
    BY <1>1, <2>3, Zenon
  <2>5. tasks[c] # None
    BY <1>1, Zenon
  <2>6. Sets(c, Dispatched(v, r))
    BY <2>1, Zenon
  <2> QED BY Zenon, <1>3, <2>2, <2>3, <2>4, <2>5, <2>6, DispatchStep
<1> QED BY <1>4, <1>5, Zenon

\* A task ends.
LEMMA EndsStep ==
  ASSUME AnswerInv, NEW c \in Conn, Ends(c)
  PROVE  AnswerInv'
<1>1. tasks[c] # None /\ tasks[c].hung_up /\ Sets(c, None)
  BY Zenon DEF Ends, Sets
<1>2. tasks'[c] = None /\ StepOf(c, Held(tasks[c]))
  BY <1>1, SetsTask, Zenon
<1>3. Move(c)
  BY Zenon, <1>1, <1>2 DEF Move
<1> QED BY <1>1, <1>2, <1>3, OneTask, Zenon

----------------------------------------------------------------------------
(* What befalls every task at once.                                        *)

\* The authority dies with its queue.
LEMMA DiesStep ==
  ASSUME AnswerInv, QueueInv, AuthorityDies
  PROVE  AnswerInv'
<1>1. /\ UNCHANGED <<clock, good, lastGood, caller, applied, policy, flooded,
           removed>>
      /\ commands' = <<>> /\ asked' = asked
      /\ tasks \in [Conn -> Task \cup {None}] /\ commands \in Seq(Conn)
  BY Zenon DEF AuthorityDies, AnswerInv, MgmtTypes, caller
<1>2. ASSUME NEW c \in Conn, c \in Range(commands)
      PROVE  /\ tasks[c] # None /\ tasks[c].phase = "authority"
             /\ tasks[c].phase \notin Waiting
  <2>1. PICK i \in 1 .. Len(commands) : commands[i] = c
    BY <1>1, <1>2 DEF Range
  <2>2. tasks[c] # None
    BY <2>1, Zenon DEF QueueInv
  <2>3. tasks[c].phase = "authority"
    <3>1. \A d \in Range(commands) : tasks[d].phase = "authority"
      BY Zenon DEF AuthorityDies
    <3> QED BY <1>1, <2>1, <3>1 DEF Range
  <2> QED BY <2>2, <2>3, Zenon DEF Waiting
<1>3. ASSUME NEW c \in Conn, c \in Range(commands)
      PROVE  /\ tasks'[c] \in Task \cup {None}
             /\ Move(c) /\ tasks'[c] # tasks[c]
  <2>1. SUFFICES ASSUME NEW r, r = tasks[c].job, NEW a, a = Worded(c, "died")
                 PROVE  /\ tasks'[c] \in Task \cup {None}
                        /\ Move(c) /\ tasks'[c] # tasks[c]
    BY Zenon
  <2>2. /\ tasks[c] \in Task /\ r \in Request /\ Held(tasks[c]) = r
        /\ Held(tasks[c]) # 0 /\ tasks[c].inbox = <<>> /\ ~tasks[c].closed
        /\ Stage(r, "authority")
    BY <1>2, <1>3, <2>1, Working, Zenon
  <2>3. \/ a = "partial" /\ asked[r] = "config"
        \/ a = "died" /\ asked[r] # "config"
    BY <2>1, Zenon DEF Worded, KindOf
  <2>4. IsTrue(r, a)' /\ a \in Answer \ {"granted"}
    BY <1>1, <2>2, <2>3, Zenon DEF IsTrue, Answer, Stage
  <2>5. tasks'[c] = IF tasks[c].hung_up THEN None
                    ELSE [tasks[c] EXCEPT !.phase = "idle", !.job = 0,
                                          !.outbox = Append(tasks[c].outbox,
                                              a)]
    BY Zenon, <1>3, <2>1 DEF AuthorityDies
  <2>6. Replies(c, a) /\ tasks'[c] \in Task \cup {None}
    <3>1. tasks[c] # None
      BY <1>2, <1>3, Zenon
    <3> QED BY Zenon, <2>2, <2>4, <2>5, <3>1, RepliesBack
  <2> QED BY <1>1, <1>2, <1>3, <2>2, <2>4, <2>6, ReplyMoves, Zenon
<1>4. ASSUME NEW c \in Conn, c \notin Range(commands)
                 PROVE tasks'[c] = tasks[c]
  BY Zenon, <1>4 DEF AuthorityDies
<1>5. \A c \in Conn : Move(c)
  BY <1>3, <1>4, Zenon DEF Move
<1>6. MgmtTypes'
  <2>1. tasks' \in [Conn -> Task \cup {None}]
    <3>1. \A c \in Conn : tasks'[c] \in Task \cup {None}
      BY <1>1, <1>3, <1>4, Zenon
    <3>2. tasks' = [c \in Conn |-> tasks'[c]]
      BY Zenon DEF AuthorityDies
    <3> QED BY <3>1, <3>2, Zenon
  <2> QED BY <1>1, <2>1 DEF AnswerInv, MgmtTypes, caller
<1>7. Touches
  <2>1. CASE recorded' = recorded
    BY <1>1, <2>1, Zenon DEF Touches, Same
  <2>2. CASE recorded' # recorded
    <3>1. PICK c \in Conn : AtHead(c)
              /\ recorded' = recorded \cup {tasks[c].job}
      BY Zenon, <2>2 DEF AuthorityDies
    <3>2. c \in Range(commands)
      BY <1>1, <3>1 DEF AtHead, Range
    <3>3. Held(tasks[c]) = tasks[c].job
      BY <1>2, <3>2, Working, Zenon
    <3> QED BY <1>1, <1>2, <1>3, <3>1, <3>2, <3>3, Zenon DEF Touches, Same
  <2> QED BY <2>1, <2>2, Zenon
<1> QED BY <1>1, <1>5, <1>6, <1>7, ServerStep, Zenon

\* The node restarts.
LEMMA RestartStep ==
  ASSUME AnswerInv, Restart
  PROVE  AnswerInv'
<1>1. /\ UNCHANGED <<clock, good, lastGood, caller, effects>>
      /\ commands' = <<>> /\ asked' = asked /\ told' = told
      /\ tasks \in [Conn -> Task \cup {None}] /\ Len(asked) \in Nat
  <2>1. asked \in Seq(Kind)
    BY Zenon DEF AnswerInv, MgmtTypes
  <2>2. Len(asked) \in Nat
    BY <2>1
  <2> QED BY Zenon, <2>2 DEF Restart, AnswerInv, MgmtTypes, caller
<1>2. \A q : Same(q)
  BY <1>1, Zenon DEF Same, effects
<1>3. ASSUME NEW c \in Conn
      PROVE  Move(c) /\ tasks'[c] \in Task \cup {None}
  <2>1. CASE tasks[c] = None \/ tasks[c].hung_up
    <3>1. tasks'[c] = None
      BY Zenon, <2>1 DEF Restart
    <3> QED BY Zenon, <2>1, <3>1 DEF Move
  <2>2. CASE tasks[c] # None /\ ~tasks[c].hung_up
    <3>1. tasks'[c] =
              [Opened EXCEPT !.closed = TRUE, !.outbox = tasks[c].outbox]
      BY Zenon, <2>2 DEF Restart
    <3>2. tasks[c] \in Task /\ tasks[c].outbox \in Slot(Answer)
          /\ tasks[c].hung_up = FALSE
      BY <1>1, <2>2, Zenon DEF Task
    <3>3. SUFFICES ASSUME NEW u, u = tasks'[c]
                   PROVE  Move(c) /\ tasks'[c] \in Task \cup {None}
      BY Zenon
    <3>4. /\ u \in Task /\ u.job = 0 /\ u.inbox = <<>>
          /\ u.outbox = tasks[c].outbox
          /\ u.hung_up = FALSE /\ u.closed = TRUE /\ u.phase = "authenticate"
      <4>1. SUFFICES ASSUME NEW q \in Slot(Answer), q = tasks[c].outbox
                     PROVE  /\ u \in Task /\ u.job = 0 /\ u.inbox = <<>>
                            /\ u.outbox = q /\ u.hung_up = FALSE
                            /\ u.closed = TRUE /\ u.phase = "authenticate"
        BY Zenon, <3>2
      <4>2. u = [Opened EXCEPT !.closed = TRUE, !.outbox = q]
        BY Zenon, <3>1, <3>3, <4>1
      <4> QED BY Zenon, <4>2, ClosedTask
    <3>5. Held(u) = 0 /\ Held(tasks[c])' = 0 /\ u # None
      BY <3>3, <3>4, CallAssumption, Zenon DEF Held
    <3>6. TaskOK(tasks[c])'
      BY <1>1, <3>3, <3>4, <3>5 DEF TaskOK, Waiting
    <3>7. Quiet(tasks[c]) => Quiet(u)
      BY <3>4, <3>5, Zenon DEF Quiet
    <3>8. \A q \in Request : Opening(tasks[c], q) => Opening(tasks[c], q)'
      BY <1>1, <3>3, <3>4, <3>5, Zenon DEF Opening, Untouched, effects
    <3>9. \A q \in Request : Exchanging(tasks[c], q) =>
              Exchanging(tasks[c], q)'
      BY <1>1, <3>3, <3>4, <3>5 DEF Exchanging, IsTrue, effects
    <3> QED BY Zenon, <2>2, <3>2, <3>3, <3>4, <3>5, <3>6, <3>7, <3>8, <3>9
            DEF Move
  <2> QED BY <2>1, <2>2, Zenon
<1>4. MgmtTypes'
  <2>1. tasks' = [c \in Conn |-> tasks'[c]]
    BY Zenon DEF Restart
  <2>2. tasks' \in [Conn -> Task \cup {None}]
    BY <1>3, <2>1, Zenon
  <2> QED BY <1>1, <2>2 DEF AnswerInv, MgmtTypes, caller
<1> QED BY <1>1, <1>2, <1>3, <1>4, ServerStep, Zenon DEF Touches

\* Time passes.
LEMMA TickStep ==
  ASSUME AnswerInv, ClockTicks
  PROVE  AnswerInv'
<1>1. /\ UNCHANGED <<good, lastGood, caller, commands, effects>>
      /\ asked' = asked /\ told' = told /\ clock' = clock + 1
      /\ tasks \in [Conn -> Task \cup {None}]
  BY Zenon DEF ClockTicks, AnswerInv, MgmtTypes, caller
<1>2. \A q : Same(q)
  BY <1>1, Zenon DEF Same, effects
<1>3. ASSUME NEW c \in Conn
      PROVE  Move(c) /\ tasks'[c] \in Task \cup {None}
  <2>1. CASE tasks'[c] = tasks[c]
    BY Zenon, <1>1, <2>1 DEF Move
  <2>2. CASE tasks'[c] # tasks[c]
    <3>1. /\ tasks[c] # None /\ tasks[c].phase \in {"admit", "decide"}
          /\ tasks[c].lag < MaxLag
          /\ tasks'[c] = [tasks[c] EXCEPT !.lag = tasks[c].lag + 1]
      BY <2>2, Zenon DEF ClockTicks
    <3>2. tasks[c] \in Task /\ TaskOK(tasks[c])
      BY <3>1, TaskFacts, Zenon
    <3>3. SUFFICES ASSUME NEW u, u = tasks'[c]
                   PROVE  Move(c) /\ tasks'[c] \in Task \cup {None}
      BY Zenon
    <3>4. tasks[c].lag + 1 \in 0 .. MaxLag
      BY <3>1, <3>2, CallAssumption DEF Task
    <3>5. u \in Task /\ u # None
      BY <3>1, <3>2, <3>3, <3>4, TaskUpdates, CallAssumption
    <3>6. /\ u.job = tasks[c].job /\ u.inbox = tasks[c].inbox
          /\ u.outbox = tasks[c].outbox /\ u.phase = tasks[c].phase
          /\ u.hung_up = tasks[c].hung_up /\ u.closed = tasks[c].closed
      BY <3>1, <3>2, <3>3 DEF Task
    <3>7. Held(u) = Held(tasks[c]) /\ Held(tasks[c])' = Held(tasks[c])
      BY <3>3, <3>6, Zenon DEF Held
    <3>8. TaskOK(tasks[c])'
      BY <1>1, <3>2, <3>3, <3>6, <3>7, Zenon
         DEF TaskOK, Stage, Untouched, effects
    <3>9. Quiet(tasks[c]) => Quiet(u)
      BY <3>6, <3>7, Zenon DEF Quiet
    <3>10. \A q \in Request : Opening(tasks[c], q) => Opening(tasks[c], q)'
      BY <1>1, <3>3, <3>6, <3>7, Zenon DEF Opening, Untouched, effects
    <3>11. \A q \in Request : Exchanging(tasks[c], q) =>
               Exchanging(tasks[c], q)'
      BY <1>1, <3>3, <3>6, <3>7 DEF Exchanging, IsTrue, effects
    <3> QED BY Zenon, <3>1, <3>3, <3>5, <3>6, <3>7, <3>8, <3>9, <3>10,
               <3>11 DEF Move
  <2> QED BY <2>1, <2>2, Zenon
<1>4. MgmtTypes'
  <2>1. tasks' = [c \in Conn |-> tasks'[c]]
    BY Zenon DEF ClockTicks
  <2>2. tasks' \in [Conn -> Task \cup {None}]
    BY <1>3, <2>1, Zenon
  <2> QED BY <1>1, <2>2 DEF AnswerInv, MgmtTypes, caller
<1> QED BY <1>1, <1>2, <1>3, <1>4, ServerStep, Zenon DEF Touches

----------------------------------------------------------------------------
(* The caller.                                                             *)

\* A call leaves the tasks of other connections as they were.
LEMMA OtherTasks ==
  ASSUME AnswerInv, NEW d \in Conn, tasks[d] # None, tasks'[d] = tasks[d],
         UNCHANGED effects, Len(asked') \in Nat, Len(asked') >= Len(asked),
         \A q \in 1 .. Len(asked) : asked'[q] = asked[q],
         told'[Held(tasks[d])] = told[Held(tasks[d])]
  PROVE  TaskOK(tasks[d])' /\ Held(tasks[d])' = Held(tasks[d])
<1>1. tasks[d] \in Task /\ TaskOK(tasks[d])
  BY TaskFacts, Zenon
<1>2. Held(tasks[d])' = Held(tasks[d])
  BY Zenon DEF Held
<1>3. Len(asked) \in Nat
  BY DEF AnswerInv, MgmtTypes
<1>4. tasks[d].job # 0 => asked'[tasks[d].job] = asked[tasks[d].job]
  BY <1>1, <1>3, HeldTyped, CallAssumption DEF TaskOK, Request
<1>5. \A q : Same(q)
  BY Zenon DEF Same, effects
<1>6. tasks[d].job # 0 => (Stage(tasks[d].job, tasks[d].phase) =>
                               Stage(tasks[d].job, tasks[d].phase)')
  BY <1>4, <1>5, SameKeeps, Zenon
<1>7. tasks[d].inbox # <<>> => (Untouched(Head(tasks[d].inbox)) =>
                                    Untouched(Head(tasks[d].inbox))')
  BY Zenon DEF Untouched, effects
<1>8. Held(tasks[d]) <= Len(asked')
  BY <1>1, <1>3, HeldTyped, CallAssumption DEF TaskOK, Request
<1> QED BY <1>1, <1>2, <1>6, <1>7, <1>8, Zenon DEF TaskOK

\* Request r is under way on connection c, or c is being dialled for it.
Raised(c, r) ==
    /\ c \in Conn /\ tasks' \in [Conn -> Task \cup {None}]
    /\ \A d \in Conn \ {c} :
          tasks'[d] = tasks[d] /\ (tasks[d] # None => tasks[d].hung_up)
    /\ tasks'[c] # None /\ ~tasks'[c].hung_up /\ TaskOK(tasks[c])'
    /\ Held(tasks[c])' \in {0, r}
    /\ call' \in Exchange /\ call'.request = r /\ call'.on = c
    /\ client' = IF call'.since = None THEN None ELSE c
    /\ call'.since = None => Opening(tasks[c], r)'
    /\ call'.since # None => Exchanging(tasks[c], r)'

\* The caller puts a request on a connection.
LEMMA RaisedStep ==
  ASSUME AnswerInv, NEW c, NEW r \in Request, Raised(c, r), told[r] = None,
         UNCHANGED <<clock, good, lastGood, told, commands, effects>>,
         asked' \in Seq(Kind), Len(asked') = r, r >= Len(asked),
         \A q \in 1 .. Len(asked) : asked'[q] = asked[q]
  PROVE  AnswerInv'
<1>1. /\ Len(asked) \in Nat /\ r \in Nat /\ c # None /\ call' # None
      /\ c \in Conn /\ tasks'[c] # None
  BY CallAssumption DEF Request, Raised, AnswerInv, MgmtTypes
<1>2. \A d \in Conn \ {c} : tasks[d] # None => Held(tasks[d]) # r
  BY <1>1, HeldPending, CallAssumption
  DEF Raised, AnswerInv, TaskInv, TaskOK, Request
<1>3. \A d \in Conn \ {c} : tasks[d] # None =>
          tasks'[d] = tasks[d] /\ TaskOK(tasks[d])'
              /\ Held(tasks[d])' = Held(tasks[d])
  BY <1>1, OtherTasks DEF Raised
<1>4. TaskInv'
  BY <1>3 DEF TaskInv, Raised
<1>5. HeldOnce'
  <2> SUFFICES ASSUME NEW d \in Conn, NEW e \in Conn, tasks'[d] # None,
                          tasks'[e] # None,
                      Held(tasks[d])' # 0, Held(tasks[d])' = Held(tasks[e])'
               PROVE  d = e
    BY Zenon DEF HeldOnce
  <2>1. CASE d # c /\ e # c
    <3>1. tasks[d] # None /\ tasks[e] # None
      BY <2>1 DEF Raised
    <3> QED BY <1>3, <2>1, <3>1 DEF AnswerInv, HeldOnce
  <2>2. CASE d = c /\ e # c
    BY <1>2, <1>3, <2>2 DEF Raised
  <2>3. CASE d # c /\ e = c
    BY <1>2, <1>3, <2>3 DEF Raised
  <2> QED BY <2>1, <2>2, <2>3
<1>6. CallInv'
  <2>1. Current' = c
    BY <1>1, Zenon DEF Current, Raised
  <2>2. \A d \in Conn : tasks'[d] # None /\ ~tasks'[d].hung_up => d = c
    BY Zenon DEF Raised
  <2>3. call'.request = Len(asked') /\ told'[call'.request] = None
    BY Zenon DEF Raised
  <2> QED BY <1>1, <2>1, <2>2, <2>3, Zenon DEF CallInv, Raised
<1>7. Unmade'
  BY <1>1, CallAssumption DEF AnswerInv, Unmade, Untouched, effects, Request
<1>8. AnswerIsTrue'
  <2> SUFFICES ASSUME NEW q \in 1 .. r PROVE IsTrue(q, told[q])'
    BY <1>1, Zenon DEF AnswerIsTrue
  <2>1. CASE q <= Len(asked)
    <3>1. IsTrue(q, told[q]) /\ asked'[q] = asked[q]
      BY <1>1, <2>1 DEF AnswerInv, AnswerIsTrue
    <3>2. Same(q)
      BY Zenon DEF Same, effects
    <3> QED BY <3>1, <3>2, SameKeeps, Zenon
  <2>2. CASE q > Len(asked)
    <3>1. q \in Request /\ told[q] = None
      BY <1>1, <2>2, CallAssumption DEF Request, AnswerInv, Unmade
    <3> QED BY <3>1, CallAssumption, Zenon DEF IsTrue, Answer
  <2> QED BY <1>1, <2>1, <2>2
<1>9. MgmtTypes'
  BY <1>1, CallAssumption DEF Request, AnswerInv, MgmtTypes, Raised
<1> QED BY <1>4, <1>5, <1>6, <1>7, <1>8, <1>9, Zenon DEF AnswerInv

\* A call begins.
LEMMA RunStep ==
  ASSUME AnswerInv, NEW k \in Kind, run(k)
  PROVE  AnswerInv'
<1>1. SUFFICES ASSUME NEW r, r = Len(asked) + 1 PROVE AnswerInv'
  OBVIOUS
<1>2. /\ call = None /\ Len(asked) < MaxRequests /\ asked' = Append(asked, k)
      /\ UNCHANGED <<clock, good, lastGood, client, told, commands, effects>>
  BY Zenon DEF run
<1>3. /\ asked \in Seq(Kind) /\ tasks \in [Conn -> Task \cup {None}]
      /\ clock \in Nat /\ commands \in Seq(Conn) /\ Len(asked) \in Nat
      /\ client \in Conn \cup {None}
  BY DEF AnswerInv, MgmtTypes
<1>4. /\ r \in Request /\ r # 0 /\ Len(asked') = r /\ asked' \in Seq(Kind)
      /\ r >= Len(asked)
      /\ \A q \in 1 .. Len(asked) : asked'[q] = asked[q]
  BY <1>1, <1>2, <1>3, CallAssumption DEF Request
<1>5. Untouched(r) /\ told[r] = None
  BY <1>1, <1>3, <1>4 DEF AnswerInv, Unmade
<1>6. Untouched(r)'
  BY <1>2, <1>5 DEF Untouched, effects
<1>7. CASE client # None
  <2>1. SUFFICES ASSUME NEW c, c = client PROVE AnswerInv'
    OBVIOUS
  <2>2. /\ call' = [request |-> r, on |-> c, since |-> clock]
        /\ tasks' = [tasks EXCEPT ![c].inbox = Append(@, r)]
    BY Zenon, <1>1, <1>7, <2>1 DEF run
  <2>3. /\ c \in Conn /\ tasks[c] \in Task /\ tasks[c] # None
        /\ ~tasks[c].hung_up /\ Quiet(tasks[c]) /\ TaskOK(tasks[c])
    BY <1>2, <1>3, <1>7, <2>1, CurrentTask, TaskFacts DEF AnswerInv, CallInv
  <2>4. /\ tasks[c].job = 0 /\ tasks[c].inbox = <<>> /\ tasks[c].outbox = <<>>
        /\ tasks[c].closed \/ tasks[c].phase = "idle"
        /\ tasks[c].hung_up = FALSE
    BY <2>3, HeldTyped, CallAssumption DEF Quiet, Request, Task
  <2>5. SUFFICES ASSUME NEW u, u = tasks'[c] PROVE AnswerInv'
    BY Zenon
  <2>6. u = [tasks[c] EXCEPT !.inbox = <<r>>]
    <3>1. Append(tasks[c].inbox, r) = <<r>>
      BY <2>4
    <3> QED BY <1>3, <2>2, <2>3, <2>5, <3>1
  <2>7. u \in Task /\ u # None
    <3>1. <<r>> \in Slot(Request)
      BY <1>4 DEF Slot
    <3> QED BY <2>3, <2>6, <3>1, TaskUpdates, CallAssumption
  <2>8. /\ u.job = 0 /\ u.inbox = <<r>> /\ u.outbox = <<>> /\ u.hung_up = FALSE
        /\ u.closed = tasks[c].closed /\ u.phase = tasks[c].phase
    BY <2>3, <2>4, <2>6 DEF Task
  <2>9. Held(tasks[c])' = r /\ u.inbox # <<>> /\ Head(u.inbox) = r
    BY <2>5, <2>8 DEF Held
  <2>10. TaskOK(tasks[c])'
    BY <1>3, <1>4, <1>6, <2>3, <2>4, <2>5, <2>8, <2>9 DEF TaskOK, Waiting
  <2>11. Exchanging(tasks[c], r)'
    BY <2>5, <2>8, <2>9, Zenon DEF Exchanging
  <2>12. /\ call' \in Exchange /\ call'.request = r /\ call'.on = c
         /\ call'.since # None
    BY <1>3, <1>4, <2>2, <2>3, CallAssumption, Zenon DEF Exchange
  <2>13. \A d \in Conn \ {c} : tasks'[d] = tasks[d]
    BY <1>3, <2>2, Zenon
  <2>14. \A d \in Conn \ {c} : tasks[d] # None => tasks[d].hung_up
    BY <1>2, <2>1, Zenon DEF AnswerInv, CallInv, Current
  <2>15. tasks' \in [Conn -> Task \cup {None}]
    <3>1. Append(tasks[c].inbox, r) = <<r>>
      BY <2>4
    <3>2. tasks' = [tasks EXCEPT ![c] = u]
      BY <2>2, <2>6, <3>1, Zenon
    <3> QED BY <1>3, <2>3, <2>7, <3>2, Zenon
  <2>16. Raised(c, r)
    BY <1>2, <2>1, <2>3, <2>5, <2>7, <2>8, <2>9, <2>10, <2>11, <2>12, <2>13,
       <2>14, <2>15, Zenon DEF Raised
  <2> QED BY <1>2, <1>4, <1>5, <2>16, RaisedStep
<1>8. CASE client = None
  <2>1. PICK c \in Conn : /\ tasks[c] = None
                          /\ call' = [request |-> r, on |-> c, since |-> None]
                          /\ tasks' = [tasks EXCEPT ![c] = Opened]
    BY Zenon, <1>1, <1>8 DEF run
  <2>2. tasks'[c] = Opened
    BY <1>3, <2>1, Zenon
  <2>3. Opened \in Task /\ Opened # None
    BY OpenedTask, CallAssumption, Zenon
  <2>4. /\ Opened.job = 0 /\ Opened.inbox = <<>> /\ Opened.outbox = <<>>
        /\ Opened.hung_up = FALSE /\ Opened.closed = FALSE
        /\ Opened.phase = "authenticate"
    BY Zenon DEF Opened
  <2>5. Held(tasks[c])' = 0
    BY <2>2, <2>4, Zenon DEF Held
  <2>6. TaskOK(tasks[c])'
    BY <1>4, <2>2, <2>4, <2>5 DEF TaskOK, Waiting
  <2>7. Opening(tasks[c], r)'
    BY <1>6, <2>2, <2>4, <2>5, Zenon DEF Opening
  <2>8. /\ call' \in Exchange /\ call'.request = r /\ call'.on = c
        /\ call'.since = None
    BY <1>4, <2>1, Zenon DEF Exchange
  <2>9. \A d \in Conn \ {c} : tasks'[d] = tasks[d]
    BY <1>3, <2>1, Zenon
  <2>10. \A d \in Conn \ {c} : tasks[d] # None => tasks[d].hung_up
    BY <1>2, <1>8, CallAssumption, Zenon DEF AnswerInv, CallInv, Current
  <2>11. tasks' \in [Conn -> Task \cup {None}]
    BY <1>3, <2>1, <2>3, Zenon
  <2>12. Raised(c, r)
    BY <1>2, <1>8, <2>2, <2>3, <2>4, <2>5, <2>6, <2>7, <2>8, <2>9, <2>10,
       <2>11,
       Zenon
       DEF Raised
  <2> QED BY <1>2, <1>4, <1>5, <2>12, RaisedStep, Zenon
<1> QED BY <1>7, <1>8, Zenon

\* The connection stands, and the request is sent.
LEMMA ConnectedStep ==
  ASSUME AnswerInv, Connected
  PROVE  AnswerInv'
<1>1. SUFFICES ASSUME NEW r, r = call.request, NEW c, c = call.on
                          PROVE AnswerInv'
  BY Zenon
<1>2. /\ call # None /\ call.since = None /\ client' = c
      /\ call' = [call EXCEPT !.since = clock]
      /\ tasks[c].outbox # <<>> /\ Head(tasks[c].outbox) = "granted"
      /\ UNCHANGED <<clock, good, lastGood, asked, told, commands, effects>>
  BY <1>1, Zenon DEF Connected
<1>3. tasks' = [tasks EXCEPT ![c] =
                   [tasks[c] EXCEPT !.outbox = Tail(tasks[c].outbox),
                                    !.inbox = Append(tasks[c].inbox, r)]]
  BY Zenon, <1>1 DEF Connected
<1>4. /\ asked \in Seq(Kind) /\ tasks \in [Conn -> Task \cup {None}]
      /\ clock \in Nat /\ Len(asked) \in Nat
  BY DEF AnswerInv, MgmtTypes
<1>5. /\ c \in Conn /\ c # None /\ c = Current /\ tasks[c] \in Task
      /\ tasks[c] # None /\ tasks[c].hung_up = FALSE
      /\ r \in Request /\ call \in Exchange
  <2>1. c \in Conn /\ c = Current /\ r \in Request /\ call \in Exchange
    BY <1>1, <1>2, CurrentTask, Zenon
  <2>2. c # None
    BY <2>1, CallAssumption, Zenon
  <2>3. tasks[c] \in Task /\ tasks[c] # None /\ ~tasks[c].hung_up
    BY <2>1, <2>2, CurrentTask, Zenon
  <2> QED BY <2>1, <2>2, <2>3, Zenon DEF Task
<1>6. /\ Opening(tasks[c], r) /\ TaskOK(tasks[c])
      /\ r = Len(asked) /\ told[r] = None
  BY <1>1, <1>2, <1>5, TaskFacts, Zenon DEF AnswerInv, CallInv
<1>7. /\ tasks[c].job = 0 /\ tasks[c].inbox = <<>> /\ Untouched(r)
      /\ tasks[c].outbox = <<"granted">> /\ Tail(tasks[c].outbox) = <<>>
  <2>1. tasks[c].job = 0 /\ tasks[c].inbox = <<>> /\ Untouched(r)
    BY <1>5, <1>6, HeldTyped, CallAssumption DEF Opening, Request
  <2>2. tasks[c].outbox = <<"granted">>
    BY <1>2, <1>6 DEF Opening
  <2>3. Tail(tasks[c].outbox) = <<>>
    BY <2>2
  <2> QED BY <2>1, <2>2, <2>3, Zenon
<1>8. SUFFICES ASSUME NEW u, u = [tasks[c] EXCEPT !.outbox = <<>>,
                          !.inbox = <<r>>],
                      tasks' = [tasks EXCEPT ![c] = u]
               PROVE  AnswerInv'
  <2>1. Append(tasks[c].inbox, r) = <<r>>
    BY <1>7
  <2>2. tasks' = [tasks EXCEPT ![c] =
                     [tasks[c] EXCEPT !.outbox = <<>>, !.inbox = <<r>>]]
    BY Zenon, <1>3, <1>7, <2>1
  <2> QED BY Zenon, <2>2
<1>9. u \in Task /\ u # None
  <2>1. <<r>> \in Slot(Request) /\ <<>> \in Slot(Answer)
    BY <1>5, Zenon DEF Slot
  <2>2. u \in Task
    BY Zenon, <1>5, <1>8, <2>1, TaskUpdates
  <2> QED BY <2>2, CallAssumption, Zenon
<1>10. /\ u.job = 0 /\ u.inbox = <<r>> /\ u.outbox = <<>> /\ u.hung_up = FALSE
       /\ u.closed = tasks[c].closed /\ u.phase = tasks[c].phase
  BY <1>5, <1>7, <1>8, Zenon DEF Task
<1>11. /\ tasks'[c] = u /\ \A d \in Conn \ {c} : tasks'[d] = tasks[d]
       /\ tasks' \in [Conn -> Task \cup {None}]
  BY <1>4, <1>5, <1>8, <1>9, Zenon
<1>12. Held(tasks[c])' = r /\ u.inbox # <<>> /\ Head(u.inbox) = r
  <2>1. tasks'[c] = u /\ u.job = 0 /\ u.inbox = <<r>>
    BY Zenon, <1>10, <1>11
  <2>2. u.inbox # <<>> /\ Head(u.inbox) = r
    BY <2>1
  <2> QED BY <2>1, <2>2, Zenon DEF Held
<1>13. TaskOK(tasks[c])'
  <2>1. Untouched(r)'
    BY <1>2, <1>7, Zenon DEF Untouched, effects
  <2>2. u.phase \in Waiting /\ (u.closed => u.phase = "authenticate")
        /\ (u.phase \in {"authenticate", "admit"} => u.closed)
    BY <1>6, <1>7, <1>10 DEF TaskOK
  <2>3. r <= Len(asked') /\ asked' = asked
    BY <1>2, <1>4, <1>6
  <2> QED BY <1>10, <1>11, <1>12, <2>1, <2>2, <2>3, Zenon DEF TaskOK
<1>14. Exchanging(tasks[c], r)'
  BY <1>10, <1>11, <1>12, Zenon DEF Exchanging
<1>15. call' \in Exchange /\ call'.request = r /\ call'.on = c
           /\ call'.since # None
  <2>1. call' = [call EXCEPT !.since = clock] /\ call \in Exchange
            /\ clock # None
    BY <1>2, <1>4, <1>5, CallAssumption, Zenon
  <2>2. call' \in Exchange /\ call'.since = clock
    BY <1>4, <2>1, Zenon DEF Exchange
  <2>3. call'.request = call.request /\ call'.on = call.on
    BY <2>1, Zenon DEF Exchange
  <2> QED BY <1>1, <2>1, <2>2, <2>3, Zenon
<1>16. \A d \in Conn \ {c} : tasks[d] # None => tasks[d].hung_up
  BY <1>5, Zenon DEF AnswerInv, CallInv
<1>17. Raised(c, r)
  BY <1>2, <1>5, <1>9, <1>10, <1>11, <1>12, <1>13, <1>14, <1>15, <1>16, Zenon
     DEF Raised
<1>18. Len(asked') = r /\ r >= Len(asked) /\ asked' \in Seq(Kind)
  BY <1>2, <1>4, <1>6
<1> QED BY <1>2, <1>5, <1>6, <1>17, <1>18, RaisedStep, Zenon

\* The exchange is over, its caller told a, its connection kept or dropped.
Over(c, r, a) ==
    /\ told' = [told EXCEPT ![r] = a] /\ call' = None /\ UNCHANGED asked
    /\ client' \in {None, c}
    /\ tasks' \in [Conn -> Task \cup {None}]
    /\ \A d \in Conn \ {c} : tasks'[d] = tasks[d]
    /\ tasks'[c] # None =>
         TaskOK(tasks[c])' /\ Held(tasks[c])' = Held(tasks[c])
    /\ client' = None => tasks'[c] = None \/ tasks'[c].hung_up
    /\ client' = c =>
         tasks'[c] # None /\ ~tasks'[c].hung_up /\ Quiet(tasks[c])'

\* A call ends with a true answer or a failure.
LEMMA OverStep ==
  ASSUME AnswerInv, call # None, NEW c, c = call.on, NEW r, r = call.request,
         NEW a \in Answer \cup {"failed"}, IsTrue(r, a), Over(c, r, a),
         UNCHANGED <<clock, good, lastGood, commands, effects>>
  PROVE  AnswerInv'
<1> USE DEF Over
<1>1. /\ c \in Conn /\ c # None /\ r \in Request /\ c = Current
      /\ tasks[c] # None /\ ~tasks[c].hung_up
  <2>1. c \in Conn /\ r \in Request /\ c = Current
    BY CurrentTask, Zenon
  <2>2. c # None
    BY <2>1, CallAssumption, Zenon
  <2> QED BY <2>1, <2>2, CurrentTask, Zenon
<1>2. r = Len(asked) /\ told[r] = None
          /\ told \in [Request -> Answer \cup {"failed", None}]
  BY Zenon DEF AnswerInv, CallInv, MgmtTypes
<1>3. told'[r] = a /\ \A q \in Request \ {r} : told'[q] = told[q]
  BY <1>1, <1>2, Zenon
<1>4. \A d \in Conn \ {c} : tasks[d] # None => tasks[d].hung_up
  BY <1>1, Zenon DEF AnswerInv, CallInv
<1>5. \A d \in Conn \ {c} : tasks[d] # None => Held(tasks[d]) # r
  BY <1>1, <1>2, <1>4, HeldPending, CallAssumption DEF Request
<1>6. \A d \in Conn \ {c} : tasks[d] # None =>
          tasks'[d] = tasks[d] /\ TaskOK(tasks[d])'
              /\ Held(tasks[d])' = Held(tasks[d])
  <2> SUFFICES ASSUME NEW d \in Conn \ {c}, tasks[d] # None
               PROVE  TaskOK(tasks[d])' /\ Held(tasks[d])' = Held(tasks[d])
    BY Zenon
  <2>1. CASE Held(tasks[d]) # 0
    <3>1. told'[Held(tasks[d])] = told[Held(tasks[d])]
      BY <1>3, <1>5, <2>1, HeldPending, Zenon
    <3>2. Len(asked') \in Nat /\ Len(asked') >= Len(asked)
      BY DEF AnswerInv, MgmtTypes
    <3> QED BY <3>1, <3>2, OtherTasks, Zenon
  <2>2. CASE Held(tasks[d]) = 0
    <3>1. tasks[d] \in Task /\ TaskOK(tasks[d])
      BY TaskFacts, Zenon
    <3>2. tasks[d].job = 0 /\ tasks[d].inbox = <<>>
      BY <2>2, <3>1, HeldTyped, CallAssumption DEF Request
    <3>3. Held(tasks[d])' = 0
      BY <2>2, Zenon DEF Held
    <3> QED BY <2>2, <3>1, <3>2, <3>3, Zenon DEF TaskOK
  <2> QED BY <2>1, <2>2, Zenon
<1>7. TaskInv'
  BY <1>1, <1>6, Zenon DEF TaskInv
<1>8. HeldOnce'
  <2>1. \A d \in Conn : tasks'[d] # None =>
            tasks[d] # None /\ Held(tasks[d])' = Held(tasks[d])
    BY <1>1, <1>6, Zenon
  <2> QED BY Zenon, <2>1 DEF AnswerInv, HeldOnce
<1>9. CallInv'
  <2>1. Current' = client'
    BY Zenon DEF Current
  <2>2. \A d \in Conn : tasks'[d] # None /\ ~tasks'[d].hung_up => d = client'
    BY <1>1, <1>4, Zenon
  <2> QED BY <1>1, <2>1, <2>2, Zenon DEF CallInv
<1>10. Unmade'
  BY <1>1, <1>2, <1>3, CallAssumption
  DEF AnswerInv, Unmade, Untouched, effects, Request
<1>11. AnswerIsTrue'
  <2> SUFFICES ASSUME NEW q \in 1 .. Len(asked), NEW b, b = told'[q]
               PROVE  IsTrue(q, b)'
    BY DEF AnswerIsTrue, IsTrue
  <2>1. Same(q) /\ asked'[q] = asked[q]
    BY Zenon DEF Same, effects
  <2>2. q \in Request /\ IsTrue(q, told[q])
    BY <1>1, <1>2, CallAssumption DEF AnswerInv, AnswerIsTrue, Request
  <2>3. IsTrue(q, b)
    BY <1>3, <2>2, Zenon
  <2> QED BY <2>1, <2>3, SameKeeps, Zenon
<1>12. MgmtTypes'
  BY <1>1, <1>2, Zenon DEF AnswerInv, MgmtTypes
<1> QED BY <1>7, <1>8, <1>9, <1>10, <1>11, <1>12, Zenon DEF AnswerInv

\* run drops the connection of an exchange that failed.
LEMMA HangUpStep ==
  ASSUME AnswerInv, call # None, NEW a \in Answer \cup {"failed"},
         a # "ok", Finished(a), IsTrue(call.request, a),
         Held(tasks[call.on]) # 0 => a = "failed",
         UNCHANGED <<clock, good, lastGood, commands, effects>>
  PROVE  AnswerInv'
<1>1. SUFFICES ASSUME NEW r, r = call.request, NEW c, c = call.on
                          PROVE AnswerInv'
  BY Zenon
<1>2. /\ told' = [told EXCEPT ![r] = a] /\ call' = None /\ asked' = asked
      /\ client' = None
      /\ tasks' = [tasks EXCEPT ![c] =
            IF tasks[c].closed THEN None
                ELSE [tasks[c] EXCEPT !.hung_up = TRUE]]
  BY Zenon, <1>1 DEF Finished, HangUp
<1>3. /\ c \in Conn /\ tasks[c] \in Task /\ tasks[c] # None /\ r \in Request
      /\ TaskOK(tasks[c]) /\ tasks \in [Conn -> Task \cup {None}]
      /\ c # None /\ told \in [Request -> Answer \cup {"failed", None}]
  <2>1. c \in Conn /\ r \in Request /\ c = Current
    BY <1>1, CurrentTask, Zenon
  <2>2. c # None
    BY <2>1, CallAssumption, Zenon
  <2>3. tasks[c] \in Task /\ tasks[c] # None
    BY <2>1, <2>2, CurrentTask, Zenon
  <2> QED BY <2>1, <2>2, <2>3, TaskFacts, Zenon DEF AnswerInv, MgmtTypes
<1>4. SUFFICES ASSUME NEW u, u = IF tasks[c].closed THEN None
                                 ELSE [tasks[c] EXCEPT !.hung_up = TRUE],
                      tasks' = [tasks EXCEPT ![c] = u]
               PROVE  AnswerInv'
  BY Zenon, <1>2
<1>5. u = None \/ /\ ~tasks[c].closed /\ u \in Task /\ u # None
                  /\ u = [tasks[c] EXCEPT !.hung_up = TRUE]
  <2>1. CASE tasks[c].closed
    BY Zenon, <1>4, <2>1
  <2>2. CASE ~tasks[c].closed
    <3>1. u = [tasks[c] EXCEPT !.hung_up = TRUE]
      BY Zenon, <1>4, <2>2
    <3>2. u \in Task
      BY Zenon, <1>3, <3>1, TaskUpdates
    <3> QED BY <2>2, <3>1, <3>2, CallAssumption, Zenon
  <2> QED BY <2>1, <2>2
<1>6. /\ tasks'[c] = u /\ \A d \in Conn \ {c} : tasks'[d] = tasks[d]
      /\ tasks' \in [Conn -> Task \cup {None}]
  BY <1>3, <1>4, <1>5, Zenon
<1>7. ASSUME u # None
      PROVE  /\ u.job = tasks[c].job /\ u.inbox = tasks[c].inbox
             /\ u.outbox = tasks[c].outbox /\ u.phase = tasks[c].phase
             /\ u.closed = tasks[c].closed /\ u.hung_up = TRUE
  <2>1. u = [tasks[c] EXCEPT !.hung_up = TRUE]
    BY <1>5, <1>7, Zenon
  <2> QED BY <1>3, <2>1, Zenon DEF Task
<1>8. ASSUME u # None
      PROVE  TaskOK(tasks[c])' /\ Held(tasks[c])' = Held(tasks[c])
  <2>1. Held(tasks[c])' = Held(tasks[c])
    BY <1>6, <1>7, <1>8, Zenon DEF Held
  <2>2. Held(tasks[c]) # 0 => told'[Held(tasks[c])] = "failed"
    <3> SUFFICES ASSUME Held(tasks[c]) # 0
                            PROVE told'[Held(tasks[c])] = "failed"
      BY Zenon
    <3>1. ~tasks[c].hung_up
      BY <1>1, <1>3, CurrentTask, Zenon
    <3>2. Held(tasks[c]) = r
      BY <1>1, <1>3, <3>1, HeldPending, Zenon
    <3>3. a = "failed"
      BY <1>1, Zenon
    <3> QED BY <1>2, <1>3, <3>2, <3>3, Zenon
  <2>3. /\ \A q, p : Stage(q, p) => Stage(q, p)'
        /\ \A q : Untouched(q) => Untouched(q)'
    BY <1>2 DEF Stage, Untouched, effects
  <2>4. /\ tasks'[c].job = tasks[c].job /\ tasks'[c].inbox = tasks[c].inbox
        /\ tasks'[c].outbox = tasks[c].outbox
             /\ tasks'[c].phase = tasks[c].phase
        /\ tasks'[c].closed = tasks[c].closed
    BY <1>6, <1>7, <1>8, Zenon
  <2> QED BY Zenon, <1>2, <1>3, <2>1, <2>2, <2>3, <2>4 DEF TaskOK
<1>9. client' \in {None, c} /\ client' # c
  BY <1>2, <1>3, Zenon
<1>10. client' = None => tasks'[c] = None \/ tasks'[c].hung_up
  BY Zenon, <1>6, <1>7
<1>11. tasks'[c] # None =>
           TaskOK(tasks[c])' /\ Held(tasks[c])' = Held(tasks[c])
  BY <1>6, <1>8, Zenon
<1>12. IsTrue(r, a)
  BY <1>1, Zenon
<1>13. Over(c, r, a)
  BY Zenon, <1>2, <1>6, <1>9, <1>10, <1>11 DEF Over
<1> QED BY <1>1, <1>12, <1>13, OverStep, Zenon

\* The caller receives the answer.
LEMMA RequestStep ==
  ASSUME AnswerInv, request
  PROVE  AnswerInv'
<1>1. SUFFICES ASSUME NEW r, r = call.request, NEW c, c = call.on,
                      NEW a, a = Head(tasks[c].outbox)
               PROVE AnswerInv'
  BY Zenon
<1>2. /\ call # None /\ tasks[c].outbox # <<>> /\ a # "granted" /\ Finished(a)
      /\ UNCHANGED <<clock, good, lastGood, commands, effects>>
  BY <1>1, Zenon DEF request
<1>3. /\ c \in Conn /\ tasks[c] \in Task /\ tasks[c] # None /\ r \in Request
      /\ TaskOK(tasks[c]) /\ tasks \in [Conn -> Task \cup {None}]
      /\ ~tasks[c].hung_up
  <2>1. c \in Conn /\ r \in Request /\ c = Current
    BY <1>1, <1>2, CurrentTask, Zenon
  <2>2. c # None
    BY <2>1, CallAssumption, Zenon
  <2>3. tasks[c] \in Task /\ tasks[c] # None /\ ~tasks[c].hung_up
    BY <2>1, <2>2, CurrentTask, Zenon
  <2> QED BY <2>1, <2>2, <2>3, TaskFacts, Zenon DEF AnswerInv, MgmtTypes
<1>4. /\ a \in Answer /\ tasks[c].outbox = <<a>> /\ Held(tasks[c]) = 0
      /\ IsTrue(r, a) /\ (a = "ok" => call.since # None)
  <2>1. CASE call.since = None
    <3>1. Opening(tasks[c], r)
      BY <1>1, <1>2, <2>1, Zenon DEF AnswerInv, CallInv
    <3>2. tasks[c].outbox = <<"denied">> /\ a = "denied"
      BY <1>1, <1>2, <3>1 DEF Opening
    <3> QED BY <3>1, <3>2, Zenon DEF Opening, Answer, IsTrue, Untouched
  <2>2. CASE call.since # None
    <3>1. Exchanging(tasks[c], r)
      BY <1>1, <1>2, <2>2, Zenon DEF AnswerInv, CallInv
    <3>2. PICK b \in Answer : /\ tasks[c].outbox = <<b>> /\ IsTrue(r, b)
                              /\ Held(tasks[c]) = 0
      BY <1>2, <3>1, Zenon DEF Exchanging
    <3>3. a = b
      BY <1>1, <3>2
    <3> QED BY <2>2, <3>2, <3>3, Zenon
  <2> QED BY <2>1, <2>2, Zenon
<1>5. CASE a # "ok"
  BY <1>1, <1>2, <1>4, <1>5, HangUpStep, Zenon
<1>6. CASE a = "ok"
  <2>1. /\ told' = [told EXCEPT ![r] = a] /\ call' = None /\ asked' = asked
        /\ client' = client
        /\ tasks' = [tasks EXCEPT ![c] =
                        [tasks[c] EXCEPT !.outbox = Tail(tasks[c].outbox)]]
    BY Zenon, <1>1, <1>2, <1>6 DEF Finished
  <2>2. client = c /\ c # None
    BY <1>1, <1>2, <1>3, <1>4, <1>6, CallAssumption, Zenon
       DEF AnswerInv, CallInv
  <2>3. SUFFICES ASSUME NEW u, u = [tasks[c] EXCEPT !.outbox = <<>>],
                        tasks' = [tasks EXCEPT ![c] = u]
                 PROVE  AnswerInv'
    <3>1. Tail(tasks[c].outbox) = <<>>
      BY <1>4
    <3> QED BY Zenon, <2>1, <3>1
  <2>4. u \in Task /\ u # None
    <3>1. u \in Task
      BY <1>3, <2>3, TaskUpdates DEF Slot
    <3> QED BY <3>1, CallAssumption, Zenon
  <2>5. /\ tasks'[c] = u /\ \A d \in Conn \ {c} : tasks'[d] = tasks[d]
        /\ tasks' \in [Conn -> Task \cup {None}]
    BY <1>3, <2>3, <2>4, Zenon
  <2>6. /\ u.job = tasks[c].job /\ u.inbox = tasks[c].inbox
        /\ u.outbox = <<>> /\ u.phase = tasks[c].phase
        /\ u.closed = tasks[c].closed /\ u.hung_up = tasks[c].hung_up
    BY <1>3, <2>3, Zenon DEF Task
  <2>7. Held(tasks[c])' = 0 /\ Held(tasks[c]) = 0 /\ Held(u) = 0
    BY <1>4, <2>5, <2>6, Zenon DEF Held
  <2>8. tasks[c].job = 0 /\ tasks[c].inbox = <<>>
    BY <1>3, <2>7, HeldTyped, CallAssumption DEF Request
  <2>9. TaskOK(tasks[c])'
    <3>1. Len(asked) \in Nat /\ asked' = asked
      BY <2>1 DEF AnswerInv, MgmtTypes
    <3> QED BY <1>3, <2>5, <2>6, <2>7, <2>8, <3>1, Zenon DEF TaskOK
  <2>10. Quiet(tasks[c])'
    <3>1. tasks[c].closed \/ tasks[c].phase = "idle"
      BY <1>3, <1>4, <2>8 DEF TaskOK, Waiting
    <3> QED BY <2>5, <2>6, <2>7, <3>1, Zenon DEF Quiet
  <2>11. client' \in {None, c} /\ client' = c /\ client' # None
    BY <2>1, <2>2, Zenon
  <2>12. tasks'[c] # None /\ ~tasks'[c].hung_up
    BY <1>3, <2>4, <2>5, <2>6, Zenon
  <2>13. Over(c, r, a)
    BY Zenon, <2>1, <2>5, <2>7, <2>9, <2>10, <2>11, <2>12 DEF Over
  <2> QED BY <1>1, <1>2, <1>4, <2>13, OverStep, Zenon
<1> QED BY <1>5, <1>6, Zenon

\* The caller gives up, or its connection fails.
LEMMA FailsStep ==
  ASSUME AnswerInv, Fails
  PROVE  AnswerInv'
<1>1. call # None /\ Finished("failed")
      /\ UNCHANGED <<clock, good, lastGood, commands, effects>>
  BY Zenon DEF Fails
<1>2. IsTrue(call.request, "failed")
  BY Zenon DEF IsTrue
<1> QED BY <1>1, <1>2, HangUpStep, Zenon

----------------------------------------------------------------------------
(* The authority's queue.                                                  *)

\* The task of d is where it was, as far as the authority is concerned.
SamePlace(d) ==
    /\ tasks[d] # None /\ tasks[d].phase \in {"authority", "flood"} =>
          tasks'[d] # None /\ tasks'[d].phase = tasks[d].phase
    /\ tasks'[d] # None /\ tasks'[d].phase = "flood" =>
          tasks[d] # None /\ tasks[d].phase = "flood"

\* Tasks that keep their phase keep their place in the queue.
LEMMA QueueKept ==
  ASSUME MgmtTypes, QueueInv, UNCHANGED commands, \A d \in Conn : SamePlace(d)
  PROVE  QueueInv'
<1>1. commands \in Seq(Conn)
  BY Zenon DEF MgmtTypes
<1>2. \A i \in 1 .. Len(commands) : commands[i] \in Conn
  BY <1>1
<1> QED BY <1>2 DEF QueueInv, SamePlace

\* A command joins the queue.
LEMMA QueueGrows ==
  ASSUME MgmtTypes, QueueInv, NEW c \in Conn, tasks[c] # None,
         tasks[c].phase = "ask", commands' = Append(commands, c),
         \A d \in Conn \ {c} : tasks'[d] = tasks[d],
         tasks'[c] # None, tasks'[c].phase = "authority"
  PROVE  QueueInv'
<1>1. commands \in Seq(Conn) /\ Len(commands) \in Nat
  BY DEF MgmtTypes
<1>2. /\ Len(commands') = Len(commands) + 1 /\ commands'[Len(commands) + 1] = c
      /\ \A i \in 1 .. Len(commands) : commands'[i] = commands[i]
           /\ commands[i] \in Conn
  BY <1>1
<1>3. \A i \in 1 .. Len(commands) : commands[i] # c
  BY <1>2, Zenon DEF QueueInv
<1>4. \A i \in 1 .. Len(commands') :
         i \in 1 .. Len(commands) \/ i = Len(commands) + 1
  BY <1>1, <1>2
<1>5. \A i \in 1 .. Len(commands') :
         /\ tasks'[commands'[i]] # None
         /\ \/ tasks'[commands'[i]].phase = "authority"
            \/ i = 1 /\ tasks'[commands'[i]].phase = "flood"
  BY <1>2, <1>3, <1>4 DEF QueueInv
<1>6. \A i, j \in 1 .. Len(commands') : commands'[i] = commands'[j] => i = j
  BY <1>2, <1>3, <1>4 DEF QueueInv
<1>7. \A d \in Conn : tasks'[d] # None /\ tasks'[d].phase = "flood" =>
          commands' # <<>> /\ commands'[1] = d
  <2> SUFFICES ASSUME NEW d \in Conn, tasks'[d] # None,
                          tasks'[d].phase = "flood"
               PROVE  commands' # <<>> /\ commands'[1] = d
    OBVIOUS
  <2>1. d # c /\ tasks[d] # None /\ tasks[d].phase = "flood"
    BY Zenon
  <2>2. commands # <<>> /\ commands[1] = d
    BY <2>1, Zenon DEF QueueInv
  <2> QED BY <1>1, <1>2, <2>2
<1> QED BY <1>5, <1>6, <1>7, Zenon DEF QueueInv

\* The command at the head has been served.
LEMMA QueueServed ==
  ASSUME MgmtTypes, QueueInv, NEW c \in Conn, commands # <<>>, commands[1] = c,
         commands' = Tail(commands),
         \A d \in Conn \ {c} : tasks'[d] = tasks[d],
         tasks'[c] # None => tasks'[c].phase # "flood"
  PROVE  QueueInv'
<1>1. commands \in Seq(Conn) /\ Len(commands) \in Nat /\ Len(commands) > 0
  BY DEF MgmtTypes
<1>2. /\ Len(commands') = Len(commands) - 1
      /\ \A i \in 1 .. Len(commands') : commands'[i] = commands[i + 1]
  BY <1>1
<1>3. \A i \in 1 .. Len(commands') :
         /\ i + 1 \in 1 .. Len(commands) /\ i + 1 # 1
         /\ commands[i + 1] \in Conn /\ commands[i + 1] # c
  BY <1>1, <1>2 DEF QueueInv
<1>4. \A i \in 1 .. Len(commands') :
         /\ tasks'[commands'[i]] = tasks[commands[i + 1]]
         /\ tasks[commands[i + 1]] # None
         /\ tasks[commands[i + 1]].phase = "authority"
  BY <1>2, <1>3 DEF QueueInv
<1>5. \A i, j \in 1 .. Len(commands') : commands'[i] = commands'[j] => i = j
  BY <1>1, <1>2, <1>3 DEF QueueInv
<1>6. \A d \in Conn : tasks'[d] # None => tasks'[d].phase # "flood"
  BY DEF QueueInv
<1> QED BY <1>2, <1>4, <1>5, <1>6 DEF QueueInv

\* The phase of a task that answered.
LEMMA RespondsPhase ==
  ASSUME MgmtTypes, NEW c \in Conn, tasks[c] # None, NEW a, Responds(c, a)
  PROVE  /\ \A d \in Conn \ {c} : tasks'[d] = tasks[d]
         /\ tasks'[c] # None =>
              tasks'[c].phase = "idle"
                  /\ tasks'[c].decided_at = tasks[c].decided_at
<1>1. tasks \in [Conn -> Task \cup {None}]
  BY DEF MgmtTypes
<1>2. /\ \A d \in Conn \ {c} : tasks'[d] = tasks[d]
      /\ tasks'[c] = IF tasks[c].hung_up THEN None
                     ELSE [tasks[c] EXCEPT !.phase = "idle", !.job = 0,
                                           !.outbox = Append(tasks[c].outbox,
                                               a)]
  BY <1>1 DEF Responds
<1>3. tasks[c] \in Task
  BY <1>1, Zenon
<1> QED BY <1>2, <1>3 DEF Task

\* The phase of a task that goes on.
LEMMA AdvancesPhase ==
  ASSUME MgmtTypes, NEW c \in Conn, tasks[c] # None, NEW p \in Phase,
         Advances(c, p)
  PROVE  /\ \A d \in Conn \ {c} : tasks'[d] = tasks[d]
         /\ tasks'[c] # None /\ tasks'[c].phase = p
         /\ tasks'[c].decided_at = tasks[c].decided_at
<1>1. tasks \in [Conn -> Task \cup {None}] /\ tasks[c] \in Task
  BY DEF MgmtTypes
<1>2. /\ \A d \in Conn \ {c} : tasks'[d] = tasks[d]
      /\ tasks'[c] = [tasks[c] EXCEPT !.phase = p]
  BY <1>1 DEF Advances
<1>3. tasks'[c] \in Task
  BY Zenon, <1>1, <1>2, TaskUpdates
<1>4. tasks'[c].phase = p /\ tasks'[c].decided_at = tasks[c].decided_at
  BY <1>1, <1>2 DEF Task
<1> QED BY <1>2, <1>3, <1>4, CallAssumption, Zenon

\* The phase of a task that took a request up.
LEMMA DispatchedPhase ==
  ASSUME NEW v \in Task, NEW r, Dispatched(v, r) # None
  PROVE  /\ Dispatched(v, r).phase \in {"idle", "ask", "router"}
         /\ Dispatched(v, r).decided_at = v.decided_at
<1>1. CASE asked[r] = "barred"
  <2>1. Dispatched(v, r) = [v EXCEPT !.phase = "idle", !.job = 0,
                                     !.outbox = Append(v.outbox, "refused")]
    BY Zenon, <1>1 DEF Dispatched
  <2> QED BY <2>1 DEF Task
<1>2. CASE asked[r] # "barred"
  <2> SUFFICES ASSUME NEW p \in {"ask", "router"},
                      Dispatched(v, r) = [v EXCEPT !.phase = p, !.job = r]
               PROVE  /\ Dispatched(v, r).phase \in {"idle", "ask", "router"}
                      /\ Dispatched(v, r).decided_at = v.decided_at
    BY <1>2, Zenon DEF Dispatched
  <2> QED BY DEF Task
<1> QED BY <1>1, <1>2

\* A task outside the queue may do as it likes.
LEMMA QueueAlone ==
  ASSUME MgmtTypes, QueueInv, NEW c \in Conn, UNCHANGED commands,
         \A d \in Conn \ {c} : tasks'[d] = tasks[d],
         tasks[c] # None => tasks[c].phase \notin {"authority", "flood"},
         tasks'[c] # None => tasks'[c].phase # "flood"
  PROVE  QueueInv'
<1>1. \A d \in Conn : SamePlace(d)
  BY Zenon DEF SamePlace
<1> QED BY <1>1, QueueKept, Zenon

\* Every step keeps the queue in order.
LEMMA QueueStep ==
  ASSUME AnswerInv, QueueInv, [CallNext]_callVars
  PROVE  QueueInv'
<1> USE DEF AnswerInv
<1>t. tasks \in [Conn -> Task \cup {None}]
  BY DEF MgmtTypes
<1>1. ASSUME NEW k \in Kind, run(k) PROVE QueueInv'
  <2>1. CASE client # None
    <3>1. SUFFICES ASSUME NEW c, c = client PROVE QueueInv'
      OBVIOUS
    <3>2. /\ call = None /\ UNCHANGED commands
          /\ tasks' = [tasks EXCEPT ![c].inbox = Append(@, Len(asked) + 1)]
      BY Zenon, <1>1, <2>1, <3>1 DEF run
    <3>3. c \in Conn /\ tasks[c] \in Task /\ tasks[c] # None
      BY <2>1, <3>1, <3>2, CurrentTask
    <3>4. /\ \A d \in Conn \ {c} : tasks'[d] = tasks[d]
          /\ tasks'[c] = [tasks[c] EXCEPT !.inbox = Append(@, Len(asked) + 1)]
      BY <1>t, <3>2, <3>3, Zenon
    <3>5. tasks'[c].phase = tasks[c].phase
      BY <3>3, <3>4, Zenon DEF Task
    <3>6. tasks[c].phase \in {"authenticate", "idle"}
      BY <2>1, <3>1, <3>2, <3>3, TaskFacts, Zenon DEF CallInv, Quiet, TaskOK
    <3> QED BY <3>2, <3>3, <3>4, <3>5, <3>6, QueueAlone
  <2>2. CASE client = None
    <3>1. PICK c \in Conn : tasks[c] = None
              /\ tasks' = [tasks EXCEPT ![c] = Opened]
      BY Zenon, <1>1, <2>2 DEF run
    <3>2. UNCHANGED commands
      BY <1>1, Zenon DEF run
    <3>3. /\ \A d \in Conn \ {c} : tasks'[d] = tasks[d]
          /\ tasks'[c].phase = "authenticate"
      BY <1>t, <3>1, Zenon DEF Opened
    <3> QED BY <3>1, <3>2, <3>3, QueueAlone
  <2> QED BY <2>1, <2>2, Zenon
<1>2. ASSUME Connected PROVE QueueInv'
  <2>1. SUFFICES ASSUME NEW c, c = call.on PROVE QueueInv'
    OBVIOUS
  <2>2. /\ call # None /\ call.since = None /\ UNCHANGED commands
        /\ tasks' = [tasks EXCEPT ![c] =
              [tasks[c] EXCEPT !.outbox = Tail(tasks[c].outbox),
                               !.inbox = Append(tasks[c].inbox, call.request)]]
    BY Zenon, <1>2, <2>1 DEF Connected
  <2>3. c \in Conn /\ tasks[c] \in Task /\ tasks[c] # None
    BY <2>1, <2>2, CurrentTask, CallAssumption
  <2>4. /\ \A d \in Conn \ {c} : tasks'[d] = tasks[d]
        /\ tasks'[c] = [tasks[c] EXCEPT !.outbox = Tail(tasks[c].outbox),
                               !.inbox = Append(tasks[c].inbox, call.request)]
    BY <1>t, <2>2, <2>3
  <2>5. tasks'[c].phase = tasks[c].phase
    BY <2>3, <2>4 DEF Task
  <2>6. tasks[c].phase \in Waiting
    <3>1. Held(tasks[c]) = 0
      BY <2>1, <2>2, Zenon DEF CallInv, Opening
    <3> QED BY <2>3, <3>1, TaskFacts, HeldTyped, Zenon DEF TaskOK
  <2> QED BY <2>2, <2>3, <2>4, <2>5, <2>6, QueueAlone DEF Waiting
<1>3. ASSUME NEW a, call # None, Finished(a), UNCHANGED commands,
             a = "ok" => tasks[call.on].outbox # <<>>
      PROVE  QueueInv'
  <2>1. SUFFICES ASSUME NEW c, c = call.on PROVE QueueInv'
    BY Zenon
  <2>2. c \in Conn /\ tasks[c] \in Task /\ tasks[c] # None /\ TaskOK(tasks[c])
    BY <1>3, <2>1, CurrentTask, TaskFacts, CallAssumption, Zenon
  <2>3. \/ a = "ok" /\ tasks' = [tasks EXCEPT ![c] =
                           [tasks[c] EXCEPT !.outbox = Tail(tasks[c].outbox)]]
        \/ HangUp(c)
    BY Zenon, <1>3, <2>1 DEF Finished
  <2>4. CASE a = "ok" /\ tasks' = [tasks EXCEPT ![c] =
                           [tasks[c] EXCEPT !.outbox = Tail(tasks[c].outbox)]]
    <3>1. /\ \A d \in Conn \ {c} : tasks'[d] = tasks[d]
          /\ tasks'[c] = [tasks[c] EXCEPT !.outbox = Tail(tasks[c].outbox)]
      BY <1>t, <2>2, <2>4, Zenon
    <3>2. tasks'[c].phase = tasks[c].phase
      BY <2>2, <3>1, Zenon DEF Task
    <3>3. tasks'[c] # None
      <4>1. PICK b \in Answer : tasks[c].outbox = <<b>>
        BY <1>3, <2>1, <2>2, <2>4, Zenon DEF Task, Slot
      <4>2. Tail(tasks[c].outbox) \in Slot(Answer)
        BY <4>1 DEF Slot
      <4>3. tasks'[c] \in Task
        BY Zenon, <2>2, <3>1, <4>2, TaskUpdates
      <4> QED BY <4>3, CallAssumption, Zenon
    <3>4. \A d \in Conn : SamePlace(d)
      BY Zenon, <2>2, <3>1, <3>2, <3>3 DEF SamePlace
    <3> QED BY <1>3, <3>4, QueueKept, Zenon
  <2>5. CASE HangUp(c)
    <3>1. /\ \A d \in Conn \ {c} : tasks'[d] = tasks[d]
          /\ tasks'[c] = IF tasks[c].closed THEN None
                         ELSE [tasks[c] EXCEPT !.hung_up = TRUE]
      BY <1>t, <2>2, <2>5, Zenon DEF HangUp
    <3>2. tasks[c].closed => tasks[c].phase = "authenticate"
      BY <2>2, Zenon DEF TaskOK
    <3>3. ~tasks[c].closed =>
              tasks'[c] # None /\ tasks'[c].phase = tasks[c].phase
      <4> SUFFICES ASSUME ~tasks[c].closed
                   PROVE  tasks'[c] # None /\ tasks'[c].phase = tasks[c].phase
        BY Zenon
      <4>1. tasks'[c] = [tasks[c] EXCEPT !.hung_up = TRUE]
        BY Zenon, <3>1
      <4>2. tasks'[c] \in Task
        BY Zenon, <2>2, <4>1, TaskUpdates
      <4>3. tasks'[c].phase = tasks[c].phase
        BY <2>2, <4>1, Zenon DEF Task
      <4> QED BY <4>2, <4>3, CallAssumption, Zenon
    <3>4. CASE tasks[c].closed
      <4>1. tasks'[c] = None /\ tasks[c].phase = "authenticate"
        BY Zenon, <3>1, <3>2, <3>4
      <4> QED BY <1>3, <2>2, <3>1, <4>1, QueueAlone, Zenon
    <3>5. CASE ~tasks[c].closed
      <4>1. \A d \in Conn : SamePlace(d)
        BY Zenon, <2>2, <3>1, <3>3, <3>5 DEF SamePlace
      <4> QED BY <1>3, <4>1, QueueKept, Zenon
    <3> QED BY <3>4, <3>5, Zenon
  <2> QED BY <2>3, <2>4, <2>5, Zenon
<1>4. ASSUME request PROVE QueueInv'
  BY <1>3, <1>4, Zenon DEF request
<1>5. ASSUME Fails PROVE QueueInv'
  BY <1>3, <1>5, Zenon DEF Fails
<1>6. ASSUME NEW c \in Conn, context(c) PROVE QueueInv'
  <2>1. /\ tasks[c] # None /\ tasks[c].phase \in {"authenticate", "revalidate"}
        /\ UNCHANGED commands
    BY <1>6, Zenon DEF context
  <2>2. SUFFICES ASSUME NEW p,
                        p = IF tasks[c].phase = "authenticate" THEN "admit"
                            ELSE "decide",
                        tasks' = [tasks EXCEPT ![c] =
                           [tasks[c] EXCEPT !.phase = p, !.snapshot = good,
                               !.lag = 0]]
                 PROVE  QueueInv'
    BY Zenon, <1>6 DEF context
  <2>3. /\ \A d \in Conn \ {c} : tasks'[d] = tasks[d]
        /\ tasks'[c] =
             [tasks[c] EXCEPT !.phase = p, !.snapshot = good, !.lag = 0]
    BY <1>t, <2>2, Zenon
  <2>4. tasks'[c].phase = p
    BY <1>t, <2>1, <2>3 DEF Task
  <2>5. p # "flood" /\ tasks[c].phase \notin {"authority", "flood"}
    BY <2>1, <2>2, Zenon
  <2>6. \A d \in Conn \ {c} : tasks'[d] = tasks[d]
    BY Zenon, <2>3
  <2> QED BY <2>1, <2>4, <2>5, <2>6, QueueAlone, Zenon
<1>7. ASSUME NEW c \in Conn, Denies(c), UNCHANGED commands, tasks[c] # None,
             tasks[c].phase \in {"admit", "decide"}
      PROVE  QueueInv'
  <2>1. /\ \A d \in Conn \ {c} : tasks'[d] = tasks[d]
        /\ tasks'[c] = IF tasks[c].hung_up THEN None
                       ELSE [Opened EXCEPT !.closed = TRUE,
                           !.outbox = <<"denied">>]
    BY <1>t, <1>7, Zenon DEF Denies
  <2>2. tasks'[c] # None => tasks'[c].phase # "flood"
    BY <2>1, Zenon DEF Opened
  <2>3. tasks[c].phase \notin {"authority", "flood"}
    BY <1>7, Zenon
  <2>4. (\A d \in Conn \ {c} : tasks'[d] = tasks[d]) /\ UNCHANGED commands
    BY Zenon, <1>7, <2>1
  <2> QED BY <2>2, <2>3, <2>4, QueueAlone, Zenon
<1>8. ASSUME NEW c \in Conn, Admits(c) PROVE QueueInv'
  <2>1. tasks[c] # None /\ tasks[c].phase = "admit" /\ UNCHANGED commands
    BY <1>8, Zenon DEF Admits
  <2>2. CASE ~tasks[c].snapshot
    <3>1. Denies(c)
      BY <1>8, <2>2, Zenon DEF Admits
    <3> QED BY <1>7, <2>1, <3>1, Zenon
  <2>3. CASE tasks[c].snapshot
    <3>1. tasks' = [tasks EXCEPT ![c] =
             IF tasks[c].hung_up THEN None
             ELSE [tasks[c] EXCEPT !.phase = "idle", !.decided_at = clock,
                                   !.snapshot = FALSE, !.lag = 0,
                                   !.outbox = <<"granted">>]]
      BY Zenon, <1>8, <2>3 DEF Admits
    <3>2. /\ \A d \in Conn \ {c} : tasks'[d] = tasks[d]
          /\ tasks'[c] = IF tasks[c].hung_up THEN None
             ELSE [tasks[c] EXCEPT !.phase = "idle", !.decided_at = clock,
                                   !.snapshot = FALSE, !.lag = 0,
                                   !.outbox = <<"granted">>]
      BY <1>t, <3>1, Zenon
    <3>3. tasks'[c] # None => tasks'[c].phase = "idle"
      BY <1>t, <2>1, <3>2, Zenon DEF Task
    <3>4. \A d \in Conn \ {c} : tasks'[d] = tasks[d]
      BY Zenon, <3>2
    <3> QED BY <2>1, <3>3, <3>4, QueueAlone, Zenon
  <2> QED BY <2>2, <2>3, Zenon
<1>9. ASSUME NEW c \in Conn, Reads(c) PROVE QueueInv'
  <2>1. tasks[c] # None /\ tasks[c].phase = "idle" /\ UNCHANGED commands
    BY <1>9, Zenon DEF Reads
  <2>2. SUFFICES ASSUME NEW v, v = [tasks[c] EXCEPT !.inbox =
                            Tail(tasks[c].inbox)],
                        NEW r, r = Head(tasks[c].inbox),
                        tasks' = [tasks EXCEPT ![c] =
                          IF Expired(v)
                              THEN [v EXCEPT !.phase = "revalidate", !.job = r]
                          ELSE Dispatched(v, r)]
                 PROVE  QueueInv'
    BY Zenon, <1>9 DEF Reads
  <2>3. /\ \A d \in Conn \ {c} : tasks'[d] = tasks[d]
        /\ tasks'[c] = IF Expired(v)
             THEN [v EXCEPT !.phase = "revalidate", !.job = r]
                       ELSE Dispatched(v, r)
    BY <1>t, <2>2, Zenon
  <2>4. v \in Task
    <3>1. tasks[c] \in Task /\ tasks[c].inbox # <<>>
      BY <1>9, TaskFacts, Zenon DEF Reads
    <3>2. PICK q \in Request : tasks[c].inbox = <<q>>
      BY <3>1, Zenon DEF Task, Slot
    <3>3. Tail(tasks[c].inbox) \in Slot(Request)
      BY <3>2 DEF Slot
    <3> QED BY Zenon, <2>2, <3>1, <3>3, TaskUpdates
  <2>5. [v EXCEPT !.phase = "revalidate", !.job = r].phase = "revalidate"
    BY <2>4, Zenon DEF Task
  <2>6. tasks'[c] # None => tasks'[c].phase # "flood"
    BY <2>3, <2>4, <2>5, DispatchedPhase, Zenon
  <2>7. \A d \in Conn \ {c} : tasks'[d] = tasks[d]
    BY Zenon, <2>3
  <2> QED BY <2>1, <2>6, <2>7, QueueAlone, Zenon
<1>10. ASSUME NEW c \in Conn, Revalidates(c) PROVE QueueInv'
  <2>1. tasks[c] # None /\ tasks[c].phase = "decide" /\ UNCHANGED commands
    BY <1>10, Zenon DEF Revalidates
  <2>2. CASE ~tasks[c].snapshot
    <3>1. Denies(c)
      BY <1>10, <2>2, Zenon DEF Revalidates
    <3> QED BY <1>7, <2>1, <3>1, Zenon
  <2>3. CASE tasks[c].snapshot
    <3>1. SUFFICES ASSUME NEW v, v = [tasks[c] EXCEPT !.decided_at = clock,
                                                      !.snapshot = FALSE,
                                                          !.lag = 0],
                          NEW r, tasks' =
                              [tasks EXCEPT ![c] = Dispatched(v, r)]
                   PROVE  QueueInv'
      BY Zenon, <1>10, <2>3 DEF Revalidates
    <3>2. /\ \A d \in Conn \ {c} : tasks'[d] = tasks[d]
          /\ tasks'[c] = Dispatched(v, r)
      BY <1>t, <3>1, Zenon
    <3>3. v \in Task
      <4>1. clock \in Nat /\ 0 \in 0 .. MaxLag /\ tasks[c] \in Task
        BY <2>1, TaskFacts, CallAssumption DEF MgmtTypes
      <4> QED BY Zenon, <3>1, <4>1, TaskUpdates
    <3>4. tasks'[c] # None => tasks'[c].phase # "flood"
      BY <3>2, <3>3, DispatchedPhase, Zenon
    <3> QED BY <2>1, <3>2, <3>4, QueueAlone, Zenon
  <2> QED BY <2>2, <2>3, Zenon
<1>11. ASSUME NEW c \in Conn, Ends(c) PROVE QueueInv'
  <2>1. /\ tasks[c] # None /\ tasks[c].phase = "idle" /\ UNCHANGED commands
        /\ \A d \in Conn \ {c} : tasks'[d] = tasks[d]
        /\ tasks'[c] = None
    BY <1>t, <1>11, Zenon DEF Ends
  <2> QED BY <2>1, QueueAlone, Zenon
<1>12. ASSUME NEW c \in Conn, forward_to_router(c) PROVE QueueInv'
  <2>1. /\ tasks[c] # None /\ tasks[c].phase = "router" /\ UNCHANGED commands
    BY <1>12, Zenon DEF forward_to_router
  <2>2. (\E a : Responds(c, a)) \/ Advances(c, "ask")
    BY <1>12, Zenon DEF forward_to_router, Advances
  <2>3. /\ \A d \in Conn \ {c} : tasks'[d] = tasks[d]
        /\ tasks'[c] # None => tasks'[c].phase # "flood"
    BY <2>1, <2>2, RespondsPhase, AdvancesPhase, Zenon DEF Phase
  <2> QED BY <2>1, <2>3, QueueAlone, Zenon
<1>13. ASSUME NEW c \in Conn, forward_to_authority(c) PROVE QueueInv'
  <2>1. /\ tasks[c] # None /\ tasks[c].phase = "ask"
    BY <1>13, Zenon DEF forward_to_authority
  <2>2. CASE UNCHANGED commands /\ \E a : Responds(c, a)
    <3>1. /\ \A d \in Conn \ {c} : tasks'[d] = tasks[d]
          /\ tasks'[c] # None => tasks'[c].phase # "flood"
      BY <2>1, <2>2, RespondsPhase, Zenon
    <3> QED BY <2>1, <2>2, <3>1, QueueAlone, Zenon
  <2>3. CASE Advances(c, "authority") /\ commands' = Append(commands, c)
    <3>1. /\ \A d \in Conn \ {c} : tasks'[d] = tasks[d]
          /\ tasks'[c] # None /\ tasks'[c].phase = "authority"
      BY <2>1, <2>3, AdvancesPhase DEF Phase
    <3> QED BY <2>1, <2>3, <3>1, QueueGrows, Zenon
  <2> QED BY <1>13, <2>2, <2>3, Zenon DEF forward_to_authority, Advances
<1>14. ASSUME NEW c \in Conn, commands # <<>>, c = Head(commands),
                  tasks[c] # None,
              commands' = Tail(commands), NEW a, Responds(c, a)
       PROVE  QueueInv'
  <2>1. commands[1] = c
    BY <1>14 DEF MgmtTypes
  <2>2. /\ \A d \in Conn \ {c} : tasks'[d] = tasks[d]
        /\ tasks'[c] # None => tasks'[c].phase # "flood"
    BY <1>14, RespondsPhase
  <2> QED BY <1>14, <2>1, <2>2, QueueServed
<1>15. ASSUME NEW c \in Conn, AtHead(c)
       PROVE  /\ tasks[c] # None /\ commands # <<>> /\ c = Head(commands)
              /\ commands[1] = c /\ tasks[c].phase = "authority"
  <2>1. /\ commands # <<>> /\ c = Head(commands)
             /\ tasks[c].phase = "authority"
        /\ commands \in Seq(Conn)
    BY <1>15 DEF AtHead, MgmtTypes
  <2>2. commands[1] = c /\ 1 \in 1 .. Len(commands)
    BY <2>1
  <2> QED BY <2>1, <2>2 DEF QueueInv
<1>16. ASSUME NEW c \in Conn, AppliesPolicy(c) PROVE QueueInv'
  BY <1>14, <1>15, <1>16 DEF AppliesPolicy
<1>17. ASSUME NEW c \in Conn, serve_one_request(c) PROVE QueueInv'
  <2>1. AtHead(c) /\ tasks[c] # None /\ commands[1] = c /\ commands # <<>>
        /\ tasks[c].phase = "authority"
    BY <1>15, <1>17 DEF serve_one_request
  <2>2. CASE Responds(c, "refused") /\ commands' = Tail(commands)
    BY <1>14, <1>15, <2>1, <2>2
  <2>3. CASE Advances(c, "flood") /\ UNCHANGED commands
    <3>1. /\ \A d \in Conn \ {c} : tasks'[d] = tasks[d]
          /\ tasks'[c] # None /\ tasks'[c].phase = "flood"
      BY <2>1, <2>3, AdvancesPhase DEF Phase
    <3>2. \A d \in Conn \ {c} : tasks[d] # None => tasks[d].phase # "flood"
      BY <2>1 DEF QueueInv
    <3>3. \A i \in 1 .. Len(commands) : commands[i] \in Conn
              /\ (commands[i] = c => i = 1)
      <4>1. commands \in Seq(Conn) /\ 1 \in 1 .. Len(commands)
        BY <2>1 DEF MgmtTypes
      <4> QED BY <2>1, <4>1 DEF QueueInv
    <3>4. \A i \in 1 .. Len(commands) :
             /\ tasks'[commands[i]] # None
             /\ \/ tasks'[commands[i]].phase = "authority"
                \/ i = 1 /\ tasks'[commands[i]].phase = "flood"
      BY <3>1, <3>3 DEF QueueInv
    <3> QED BY <2>1, <2>3, <3>1, <3>2, <3>4 DEF QueueInv
  <2> QED BY <1>17, <2>2, <2>3 DEF serve_one_request, Advances
<1>18. ASSUME NEW c \in Conn, FloodsRevocation(c) PROVE QueueInv'
  <2>1. tasks[c] # None /\ tasks[c].phase = "flood"
            /\ commands' = Tail(commands)
    BY <1>18 DEF FloodsRevocation
  <2>2. commands # <<>> /\ commands[1] = c
    BY <2>1 DEF QueueInv
  <2>3. Responds(c, "unflooded") \/ Advances(c, "vpn")
    BY <1>18 DEF FloodsRevocation, Advances
  <2>4. /\ \A d \in Conn \ {c} : tasks'[d] = tasks[d]
        /\ tasks'[c] # None => tasks'[c].phase # "flood"
    BY <2>1, <2>3, RespondsPhase, AdvancesPhase DEF Phase
  <2> QED BY <2>1, <2>2, <2>4, QueueServed
<1>19. ASSUME NEW c \in Conn, revoke_vpn_alongside_mesh(c) PROVE QueueInv'
  <2>1. /\ tasks[c] # None /\ tasks[c].phase = "vpn" /\ UNCHANGED commands
    BY <1>19 DEF revoke_vpn_alongside_mesh
  <2>2. PICK a : Responds(c, a)
    BY <1>19 DEF revoke_vpn_alongside_mesh
  <2>3. /\ \A d \in Conn \ {c} : tasks'[d] = tasks[d]
        /\ tasks'[c] # None => tasks'[c].phase # "flood"
    BY <2>1, <2>2, RespondsPhase
  <2> QED BY <2>1, <2>3, QueueAlone
<1>20. ASSUME AuthorityDies PROVE QueueInv'
  <2>1. /\ commands' = <<>>
             /\ \A d \in Range(commands) : tasks[d].phase = "authority"
    BY Zenon, <1>20 DEF AuthorityDies
  <2>2. \A d \in Conn : tasks[d] # None => tasks[d].phase # "flood"
    <3> SUFFICES ASSUME NEW d \in Conn, tasks[d] # None,
                            tasks[d].phase = "flood"
                 PROVE  FALSE
      OBVIOUS
    <3>1. commands # <<>> /\ commands[1] = d /\ commands \in Seq(Conn)
      BY DEF QueueInv, MgmtTypes
    <3>2. d \in Range(commands)
      BY <3>1 DEF Range
    <3> QED BY <2>1, <3>2
  <2>3. \A d \in Conn : tasks'[d] # None => tasks'[d].phase # "flood"
    <3> SUFFICES ASSUME NEW d \in Conn, tasks'[d] # None
                            PROVE tasks'[d].phase # "flood"
      OBVIOUS
    <3>1. CASE tasks'[d] = tasks[d]
      BY <2>2, <3>1
    <3>2. CASE tasks'[d] # tasks[d]
      <4>1. PICK q : tasks'[d] =
                [tasks[d] EXCEPT !.phase = "idle", !.job = 0, !.outbox = q]
        BY Zenon, <1>20, <3>2 DEF AuthorityDies
      <4>2. d \in Range(commands)
        BY Zenon, <1>20, <3>2 DEF AuthorityDies
      <4>3. tasks[d] \in Task
        BY <1>t, <4>2 DEF QueueInv, Range
      <4> QED BY <4>1, <4>3 DEF Task
    <3> QED BY <3>1, <3>2
  <2> QED BY <2>1, <2>3 DEF QueueInv
<1>21. ASSUME Restart PROVE QueueInv'
  <2>1. commands' = <<>>
    BY Zenon, <1>21 DEF Restart
  <2>2. \A d \in Conn : tasks'[d] # None => tasks'[d].phase # "flood"
    <3> SUFFICES ASSUME NEW d \in Conn, tasks'[d] # None
                            PROVE tasks'[d].phase # "flood"
      OBVIOUS
    <3>1. tasks'[d] =
              [Opened EXCEPT !.closed = TRUE, !.outbox = tasks[d].outbox]
      BY Zenon, <1>21 DEF Restart
    <3> QED BY <3>1 DEF Opened
  <2> QED BY <2>1, <2>2 DEF QueueInv
<1>22. ASSUME ClockTicks PROVE QueueInv'
  <2>1. UNCHANGED commands
    BY <1>22 DEF ClockTicks
  <2>2. ASSUME NEW d \in Conn PROVE SamePlace(d)
    <3>1. CASE tasks'[d] = tasks[d]
      BY <3>1 DEF SamePlace
    <3>2. CASE tasks'[d] # tasks[d]
      <4>1. /\ tasks[d] # None /\ tasks[d].phase \in {"admit", "decide"}
            /\ tasks'[d] = [tasks[d] EXCEPT !.lag = tasks[d].lag + 1]
        BY <1>22, <3>2 DEF ClockTicks
      <4>2. tasks'[d].phase = tasks[d].phase
        BY <1>t, <4>1 DEF Task
      <4> QED BY <4>1, <4>2 DEF SamePlace
    <3> QED BY <3>1, <3>2
  <2> QED BY <2>1, <2>2, QueueKept
<1>23. CASE UNCHANGED <<tasks, commands>>
  BY <1>23 DEF QueueInv
<1> QED BY <1>1, <1>2, <1>4, <1>5, <1>6, <1>8, <1>9, <1>10, <1>11, <1>12,
           <1>13,
           <1>16, <1>17, <1>18, <1>19, <1>20, <1>21, <1>22, <1>23, Zenon
        DEF CallNext, callVars, Withdrawn

\* Before the first call the invariant holds.
LEMMA AnswerInit == CallInit => AnswerInv /\ QueueInv
<1> SUFFICES ASSUME CallInit PROVE AnswerInv /\ QueueInv
  OBVIOUS
<1> USE DEF CallInit
<1>1. /\ asked = <<>> /\ Len(asked) = 0 /\ commands = <<>> /\ Len(commands) = 0
      /\ call = None /\ client = None /\ Current = None
      /\ \A c \in Conn : tasks[c] = None
      /\ \A r \in Request : Untouched(r) /\ told[r] = None
  BY DEF Current, Untouched
<1>2. MgmtTypes
  BY <1>1, CallAssumption DEF MgmtTypes
<1>3. TaskInv /\ HeldOnce /\ Unmade /\ CallInv /\ AnswerIsTrue
  BY <1>1 DEF TaskInv, HeldOnce, Unmade, CallInv, AnswerIsTrue
<1>4. QueueInv
  BY <1>1 DEF QueueInv
<1> QED BY <1>2, <1>3, <1>4 DEF AnswerInv

\* Steps of the session store.
LEMMA AnswerUntouched ==
  ASSUME AnswerInv, UNCHANGED <<caller, tasks, commands, effects, clock>>,
         good' \in BOOLEAN, lastGood' \in Nat
  PROVE  AnswerInv'
<1>1. UNCHANGED caller /\ UNCHANGED <<tasks, commands>> /\ MgmtTypes'
  BY DEF AnswerInv, MgmtTypes, caller
<1>2. Touches
  BY DEF Touches, Same, effects
<1>3. \A c \in Conn : Move(c)
  BY DEF Move
<1> QED BY <1>1, <1>2, <1>3, ServerStep

\* Every step keeps the invariant.
LEMMA AnswerNext ==
  ASSUME AnswerInv, QueueInv, [CallNext]_callVars
  PROVE  AnswerInv'
<1>1. ASSUME NEW c \in Conn, AtHead(c) PROVE tasks[c] # None
  <2>1. commands # <<>> /\ c = Head(commands) /\ commands \in Seq(Conn)
    BY <1>1 DEF AtHead, AnswerInv, MgmtTypes
  <2>2. commands[1] = c /\ 1 \in 1 .. Len(commands)
    BY <2>1
  <2> QED BY <2>2 DEF QueueInv
<1>2. ASSUME NEW c \in Conn, AppliesPolicy(c) PROVE AnswerInv'
  BY <1>1, <1>2, PolicyStep DEF AppliesPolicy
<1>3. ASSUME NEW c \in Conn, serve_one_request(c) PROVE AnswerInv'
  BY <1>1, <1>3, RevokeStep DEF serve_one_request
<1>4. ASSUME NEW c \in Conn, FloodsRevocation(c) PROVE AnswerInv'
  <2>1. commands # <<>>
    BY <1>4 DEF FloodsRevocation, QueueInv
  <2> QED BY <1>4, <2>1, FloodStep
<1>5. ASSUME Withdrawn PROVE AnswerInv'
  <2>1. UNCHANGED <<caller, tasks, commands, effects, clock>>
    BY <1>5 DEF Withdrawn
  <2>2. good' \in BOOLEAN
    BY Zenon, <1>5 DEF Withdrawn
  <2>3. lastGood' \in Nat
    BY <1>5 DEF Withdrawn, AnswerInv, MgmtTypes
  <2> QED BY <2>1, <2>2, <2>3, AnswerUntouched
<1>6. CASE UNCHANGED callVars
  <2>1. good \in BOOLEAN /\ lastGood \in Nat
    BY DEF AnswerInv, MgmtTypes
  <2> QED BY <1>6, <2>1, AnswerUntouched DEF callVars
<1> QED BY <1>2, <1>3, <1>4, <1>5, <1>6, RunStep, ConnectedStep, RequestStep,
           FailsStep, ContextStep, AdmitsStep, ReadsStep, RevalidatesStep,
           EndsStep, RouterStep, AskStep, VpnStep, DiesStep, RestartStep,
           TickStep
        DEF CallNext

\* For any number of connections and requests: what a caller is told is true
\* of its own request. All the effects of one reported done are there, and
\* none of one reported refused, busy or denied, whatever was given up
\* before, is still under way or was answered late (`NodeConnection::run`,
\* `request`, `serve_one_request`, `forward_to_authority`).
THEOREM AnswersTrue == CallSpec => []AnswerIsTrue
<1>1. AnswerInv /\ QueueInv /\ [CallNext]_callVars => (AnswerInv /\ QueueInv)'
  BY AnswerNext, QueueStep
<1>2. AnswerInv => AnswerIsTrue
  BY DEF AnswerInv
<1> QED BY AnswerInit, <1>1, <1>2, PTL DEF CallSpec

----------------------------------------------------------------------------
(* How old the decision is that a request is served under.                 *)

\* The snapshot in hand is as old as its lag, and a decision was made on one
\* that was.
FreshTask(t) ==
    /\ t.decided_at <= clock
    /\ t.phase \in {"admit", "decide"} /\ t.snapshot = TRUE =>
          good \/ clock <= lastGood + t.lag
    /\ t.phase \notin {"authenticate", "admit"} =>
          good \/ t.decided_at <= lastGood + MaxLag

\* The inductive invariant of the second theorem: a decision is no older than
\* its time stamp says.
FreshInv ==
    /\ lastGood <= clock
    /\ \A c \in Conn : tasks[c] # None => FreshTask(tasks[c])

\* The turns a serve task's decision takes while the clock stands still.
Turn(t, u) ==
    \/ u.phase = "authenticate" /\ u.decided_at = 0
    \/ /\ t # None
       /\ \/ /\ u.phase = t.phase /\ u.snapshot = t.snapshot /\ u.lag = t.lag
             /\ u.decided_at = t.decided_at
          \/ /\ t.phase = "authenticate" /\ u.phase = "admit"
             /\ u.snapshot = good /\ u.decided_at = t.decided_at
          \/ /\ t.phase = "revalidate" /\ u.phase = "decide"
             /\ u.snapshot = good /\ u.decided_at = t.decided_at
          \/ /\ t.phase \in {"admit", "decide"} /\ t.snapshot = TRUE
             /\ u.phase \in {"idle", "router", "ask"} /\ u.decided_at = clock
          \/ /\ t.phase = "idle" /\ u.phase \in {"idle", "revalidate"}
             /\ u.decided_at = t.decided_at
          \/ /\ t.phase = "idle" /\ u.phase \in {"router", "ask"}
             /\ clock - t.decided_at < Revalidate
                  /\ u.decided_at = t.decided_at
          \/ /\ t.phase \in {"router", "ask", "authority", "flood", "vpn"}
             /\ u.phase \in {"idle", "ask", "authority", "flood", "vpn"}
             /\ u.decided_at = t.decided_at

\* Each task stays or takes a turn.
Turns == \A d \in Conn : tasks'[d] # None =>
    tasks'[d] = tasks[d] \/ Turn(tasks[d], tasks'[d])

\* A step of one task.
LEMMA OneTurn ==
  ASSUME NEW c \in Conn, \A d \in Conn \ {c} : tasks'[d] = tasks[d],
         tasks'[c] # None => Turn(tasks[c], tasks'[c])
  PROVE  Turns
BY DEF Turns

\* A turn keeps the age of the decision.
LEMMA TurnKeeps ==
  ASSUME NEW t, NEW u \in Task, t # None => t \in Task /\ FreshTask(t),
         MgmtTypes, Turn(t, u), lastGood <= clock
  PROVE  FreshTask(u)
<1>1. /\ u.lag \in 0 .. MaxLag /\ clock \in Nat /\ lastGood \in Nat
           /\ MaxLag \in Nat
      /\ good \in BOOLEAN
  BY CallAssumption DEF Task, MgmtTypes
<1>2. CASE u.phase = "authenticate" /\ u.decided_at = 0
  BY <1>1, <1>2 DEF FreshTask
<1>3. CASE ~(u.phase = "authenticate" /\ u.decided_at = 0)
  <2>1. t # None /\ t \in Task /\ FreshTask(t)
    BY <1>3 DEF Turn
  <2>2. t.decided_at \in Nat /\ t.lag \in 0 .. MaxLag
    BY <2>1 DEF Task
  <2>3. CASE good = TRUE
    <3>1. u.decided_at <= clock
      BY <1>1, <1>3, <2>1, <2>2 DEF Turn, FreshTask
    <3> QED BY <2>3, <3>1 DEF FreshTask
  <2>4. CASE good = FALSE
    BY <1>1, <1>3, <2>1, <2>2, <2>4 DEF Turn, FreshTask
  <2> QED BY Zenon, <1>1, <2>3, <2>4
<1> QED BY <1>2, <1>3

\* Turns keep the invariant.
LEMMA FreshTurns ==
  ASSUME MgmtTypes, MgmtTypes', FreshInv, Turns,
             UNCHANGED <<clock, good, lastGood>>
  PROVE  FreshInv'
<1> SUFFICES ASSUME NEW c \in Conn, tasks'[c] # None PROVE FreshTask(tasks'[c])
  BY Zenon DEF FreshInv, FreshTask
<1>1. /\ tasks'[c] \in Task
      /\ tasks[c] # None => tasks[c] \in Task /\ FreshTask(tasks[c])
  BY DEF FreshInv, MgmtTypes
<1> QED BY <1>1, TurnKeeps DEF Turns, FreshInv

\* A task that starts on a request is covered by a decision of late.
LEMMA TurnServes ==
  ASSUME MgmtTypes, FreshInv, Turns, NEW c \in Conn, tasks[c] # None,
         tasks'[c] # None, tasks[c].phase \in {"idle", "decide"},
         tasks'[c].phase \in {"router", "ask"}
  PROVE  good \/ clock - lastGood < Revalidate + MaxLag
<1>1. /\ tasks[c] \in Task /\ FreshTask(tasks[c]) /\ lastGood <= clock
      /\ clock \in Nat /\ lastGood \in Nat /\ MaxLag \in Nat
           /\ Revalidate \in Nat \ {0}
  BY CallAssumption DEF FreshInv, MgmtTypes
<1>2. tasks[c].decided_at \in Nat /\ tasks[c].lag \in 0 .. MaxLag
  BY <1>1 DEF Task
<1>3. Turn(tasks[c], tasks'[c]) /\ tasks'[c].phase # tasks[c].phase
  BY DEF Turns
<1>4. \/ tasks[c].phase = "decide" /\ tasks[c].snapshot = TRUE
      \/ tasks[c].phase = "idle" /\ clock - tasks[c].decided_at < Revalidate
  BY <1>3 DEF Turn
<1> QED BY <1>1, <1>2, <1>4 DEF FreshTask

\* Frames written, read or lost, and a peer that hangs up, leave the decision.
Kept(t, u) ==
    /\ u.phase = t.phase /\ u.snapshot = t.snapshot /\ u.lag = t.lag
    /\ u.decided_at = t.decided_at

\* Task c becomes u.
SetTo(c, u) == tasks' = [tasks EXCEPT ![c] = u]

\* A step that sets one task.
LEMMA SetTurn ==
  ASSUME MgmtTypes, NEW c \in Conn, NEW u, SetTo(c, u),
         u # None => Turn(tasks[c], u)
  PROVE  Turns
<1>1. tasks'[c] = u /\ \A d \in Conn \ {c} : tasks'[d] = tasks[d]
  BY DEF MgmtTypes, SetTo
<1> QED BY <1>1, OneTurn

\* A step that leaves the decision of a task.
LEMMA KeptTurn ==
  ASSUME MgmtTypes, NEW c \in Conn, tasks[c] # None, NEW u, SetTo(c, u),
         u # None => Kept(tasks[c], u)
  PROVE  Turns
<1>1. u # None => Turn(tasks[c], u)
  BY Zenon DEF Turn, Kept
<1> QED BY <1>1, SetTurn

\* The caller's own steps.
LEMMA CallerTurns ==
  ASSUME AnswerInv,
         (\E k \in Kind : run(k)) \/ Connected \/ request \/ Fails
  PROVE  Turns
<1> USE DEF AnswerInv
<1>t. tasks \in [Conn -> Task \cup {None}]
  BY DEF MgmtTypes
<1>1. ASSUME NEW k \in Kind, run(k) PROVE Turns
  <2>1. CASE client # None
    <3>1. SUFFICES ASSUME NEW c, c = client PROVE Turns
      OBVIOUS
    <3>2. call = None
              /\ tasks' = [tasks EXCEPT ![c].inbox = Append(@, Len(asked) + 1)]
      BY Zenon, <1>1, <2>1, <3>1 DEF run
    <3>3. c \in Conn /\ tasks[c] \in Task /\ tasks[c] # None
      BY <2>1, <3>1, <3>2, CurrentTask
    <3>4. Kept(tasks[c], tasks'[c])
      BY <1>t, <3>2, <3>3 DEF Task, Kept
    <3>5. \A d \in Conn \ {c} : tasks'[d] = tasks[d]
      BY <1>t, <3>2
    <3>6. Turn(tasks[c], tasks'[c])
      BY Zenon, <3>3, <3>4 DEF Turn, Kept
    <3> QED BY <3>3, <3>5, <3>6, OneTurn
  <2>2. CASE client = None
    <3>1. PICK c \in Conn : tasks[c] = None
              /\ tasks' = [tasks EXCEPT ![c] = Opened]
      BY Zenon, <1>1, <2>2 DEF run
    <3>2. tasks'[c] = Opened /\ \A d \in Conn \ {c} : tasks'[d] = tasks[d]
      BY <1>t, <3>1
    <3>3. Turn(tasks[c], Opened)
      BY DEF Opened, Turn
    <3> QED BY <3>2, <3>3, OneTurn
  <2> QED BY <2>1, <2>2
<1>2. ASSUME call # None
                 PROVE call.on \in Conn /\ tasks[call.on] # None
                           /\ tasks[call.on] \in Task
  BY <1>2, CurrentTask, CallAssumption
<1>3. ASSUME Connected PROVE Turns
  <2>1. SUFFICES ASSUME NEW c, c = call.on PROVE Turns
    OBVIOUS
  <2>2. c \in Conn /\ tasks[c] # None /\ tasks[c] \in Task
    BY <1>2, <1>3, <2>1 DEF Connected
  <2>3. SUFFICES ASSUME NEW u, NEW p, NEW q, SetTo(c, u),
                        u = [tasks[c] EXCEPT !.outbox = p, !.inbox = q]
                 PROVE  Turns
    BY Zenon, <1>3, <2>1 DEF Connected, SetTo
  <2>4. Kept(tasks[c], u)
    BY <2>2, <2>3 DEF Task, Kept
  <2> QED BY <2>2, <2>3, <2>4, KeptTurn
<1>4. ASSUME NEW a, call # None, Finished(a) PROVE Turns
  <2>1. SUFFICES ASSUME NEW c, c = call.on PROVE Turns
    OBVIOUS
  <2>2. c \in Conn /\ tasks[c] # None /\ tasks[c] \in Task
    BY <1>2, <1>4, <2>1
  <2>3. CASE a = "ok"
    <3>1. SUFFICES ASSUME NEW u, NEW p, SetTo(c, u),
                              u = [tasks[c] EXCEPT !.outbox = p]
                   PROVE  Turns
      BY Zenon, <1>4, <2>1, <2>3 DEF Finished, SetTo
    <3>2. Kept(tasks[c], u)
      BY <2>2, <3>1 DEF Task, Kept
    <3> QED BY <2>2, <3>1, <3>2, KeptTurn
  <2>4. CASE a # "ok"
    <3>1. SUFFICES ASSUME NEW u, u = None
                              \/ u = [tasks[c] EXCEPT !.hung_up = TRUE],
                          SetTo(c, u)
                   PROVE  Turns
      BY Zenon, <1>4, <2>1, <2>4 DEF Finished, HangUp, SetTo
    <3>2. u # None => Kept(tasks[c], u)
      BY <2>2, <3>1 DEF Task, Kept
    <3> QED BY <2>2, <3>1, <3>2, KeptTurn
  <2> QED BY <2>3, <2>4
<1>5. ASSUME request PROVE Turns
  BY <1>4, <1>5 DEF request
<1>6. ASSUME Fails PROVE Turns
  BY <1>4, <1>6 DEF Fails
<1> QED BY <1>1, <1>3, <1>5, <1>6

\* A client that is refused.
LEMMA DeniedTurn ==
  ASSUME MgmtTypes, NEW c \in Conn, Denies(c)
  PROVE  Turns
<1>1. /\ \A d \in Conn \ {c} : tasks'[d] = tasks[d]
      /\ tasks'[c] = IF tasks[c].hung_up THEN None
                     ELSE [Opened EXCEPT !.closed = TRUE,
                         !.outbox = <<"denied">>]
  BY DEF Denies, MgmtTypes
<1>2. Turn(tasks[c], [Opened EXCEPT !.closed = TRUE, !.outbox = <<"denied">>])
  BY DEF Opened, Turn
<1>3. tasks'[c] # None => Turn(tasks[c], tasks'[c])
  BY Zenon, <1>1, <1>2
<1>4. \A d \in Conn \ {c} : tasks'[d] = tasks[d]
  BY Zenon, <1>1
<1> QED BY <1>3, <1>4, OneTurn

\* The gate's steps: the snapshot is fetched, the decision made on it, or a
\* frame read under the one there is.
LEMMA GateTurns ==
  ASSUME AnswerInv, NEW c \in Conn,
         context(c) \/ Admits(c) \/ Reads(c) \/ Revalidates(c) \/ Ends(c)
  PROVE  Turns
<1> USE DEF AnswerInv
<1>t. tasks \in [Conn -> Task \cup {None}] /\ tasks[c] # None
    /\ tasks[c] \in Task
  BY DEF MgmtTypes, context, Admits, Reads, Revalidates, Ends
<1>1. ASSUME NEW u, SetTo(c, u), u # None => Turn(tasks[c], u)
      PROVE  Turns
  BY <1>1, SetTurn
<1>2. ASSUME context(c) PROVE Turns
  <2>1. tasks[c].phase \in {"authenticate", "revalidate"}
    BY <1>2 DEF context
  <2>2. SUFFICES ASSUME NEW p,
                        p = IF tasks[c].phase = "authenticate" THEN "admit"
                            ELSE "decide",
                        tasks' = [tasks EXCEPT ![c] =
                           [tasks[c] EXCEPT !.phase = p, !.snapshot = good,
                               !.lag = 0]]
                 PROVE  Turns
    BY Zenon, <1>2 DEF context
  <2>3. SUFFICES ASSUME NEW u, SetTo(c, u),
                        u = [tasks[c] EXCEPT !.phase = p, !.snapshot = good,
                            !.lag = 0]
                 PROVE  Turns
    BY Zenon, <2>2 DEF SetTo
  <2>4. /\ u.phase = p /\ u.snapshot = good
        /\ u.decided_at = tasks[c].decided_at
    BY <1>t, <2>3 DEF Task
  <2>5. Turn(tasks[c], u)
    <3>1. CASE tasks[c].phase = "authenticate"
      <4>1. p = "admit"
        BY Zenon, <2>2, <3>1
      <4> QED BY Zenon, <1>t, <2>4, <3>1, <4>1 DEF Turn
    <3>2. CASE tasks[c].phase = "revalidate"
      <4>1. p = "decide"
        BY <2>2, <3>2
      <4> QED BY Zenon, <1>t, <2>4, <3>2, <4>1 DEF Turn
    <3> QED BY <2>1, <3>1, <3>2
  <2> QED BY <1>1, <2>3, <2>5
<1>3. ASSUME Admits(c) PROVE Turns
  <2>1. tasks[c].phase = "admit"
    BY <1>3 DEF Admits
  <2>2. CASE ~tasks[c].snapshot
    BY <1>3, <2>2, DeniedTurn DEF Admits
  <2>3. CASE tasks[c].snapshot
    <3>1. SUFFICES ASSUME NEW u, SetTo(c, u),
                          u # None =>
                            u = [tasks[c] EXCEPT !.phase = "idle",
                                !.decided_at = clock,
                                                 !.snapshot = FALSE, !.lag = 0,
                                                 !.outbox = <<"granted">>]
                   PROVE  Turns
      BY Zenon, <1>3, <2>3 DEF Admits, SetTo
    <3>2. ASSUME u # None PROVE u.phase = "idle" /\ u.decided_at = clock
      <4>1. u = [tasks[c] EXCEPT !.phase = "idle", !.decided_at = clock,
                                 !.snapshot = FALSE, !.lag = 0,
                                 !.outbox = <<"granted">>]
        BY Zenon, <3>1, <3>2
      <4> QED BY <1>t, <4>1 DEF Task
    <3>3. u # None => Turn(tasks[c], u)
      <4>1. tasks[c].snapshot = TRUE
        BY <1>t, <2>3 DEF Task
      <4> QED BY <1>t, <2>1, <3>2, <4>1 DEF Turn
    <3> QED BY <1>1, <3>1, <3>3
  <2> QED BY <2>2, <2>3
<1>4. ASSUME Reads(c) PROVE Turns
  <2>1. tasks[c].phase = "idle" /\ tasks[c].inbox # <<>>
    BY <1>4 DEF Reads
  <2>2. SUFFICES ASSUME NEW v, v = [tasks[c] EXCEPT !.inbox =
                            Tail(tasks[c].inbox)],
                        NEW r, NEW u, SetTo(c, u),
                        u = IF Expired(v)
                            THEN [v EXCEPT !.phase = "revalidate", !.job = r]
                            ELSE Dispatched(v, r)
                 PROVE  Turns
    BY Zenon, <1>4 DEF Reads, SetTo
  <2>3. v \in Task /\ v.decided_at = tasks[c].decided_at
    <3>1. PICK q \in Request : tasks[c].inbox = <<q>>
      BY <1>t, <2>1 DEF Task, Slot
    <3>2. Tail(tasks[c].inbox) \in Slot(Request)
      BY <3>1 DEF Slot
    <3>3. v \in Task
      BY Zenon, <2>2, <1>t, <3>2, TaskUpdates
    <3> QED BY <1>t, <2>2, <3>3 DEF Task
  <2>4. CASE Expired(v)
    <3>1. u = [v EXCEPT !.phase = "revalidate", !.job = r]
      BY Zenon, <2>2, <2>4
    <3>2. u.phase = "revalidate" /\ u.decided_at = v.decided_at
      BY <2>3, <3>1 DEF Task
    <3>3. Turn(tasks[c], u)
      BY <1>t, <2>1, <2>3, <3>2 DEF Turn
    <3> QED BY <1>1, <2>2, <3>3
  <2>5. CASE ~Expired(v)
    <3>1. u = Dispatched(v, r)
      BY Zenon, <2>2, <2>5
    <3>2. u # None => u.phase \in {"idle", "ask", "router"}
              /\ u.decided_at = v.decided_at
      BY <2>3, <3>1, DispatchedPhase
    <3>3. clock - tasks[c].decided_at < Revalidate
      <4>1. /\ clock \in Nat /\ tasks[c].decided_at \in Nat
                 /\ Revalidate \in Nat
            /\ ~(clock - tasks[c].decided_at >= Revalidate)
        BY <1>t, <2>3, <2>5, CallAssumption DEF Expired, Task, MgmtTypes
      <4> QED BY <4>1
    <3>4. u # None => Turn(tasks[c], u)
      BY <1>t, <2>1, <2>3, <3>2, <3>3 DEF Turn
    <3> QED BY <1>1, <2>2, <3>4
  <2> QED BY <2>4, <2>5
<1>5. ASSUME Revalidates(c) PROVE Turns
  <2>1. tasks[c].phase = "decide"
    BY <1>5 DEF Revalidates
  <2>2. CASE ~tasks[c].snapshot
    BY <1>5, <2>2, DeniedTurn DEF Revalidates
  <2>3. CASE tasks[c].snapshot
    <3>1. SUFFICES ASSUME NEW v, v = [tasks[c] EXCEPT !.decided_at = clock,
                                                      !.snapshot = FALSE,
                                                          !.lag = 0],
                          NEW r, SetTo(c, Dispatched(v, r))
                   PROVE  Turns
      BY Zenon, <1>5, <2>3 DEF Revalidates, SetTo
    <3>2. v \in Task /\ v.decided_at = clock
      <4>1. clock \in Nat /\ 0 \in 0 .. MaxLag
        BY CallAssumption DEF MgmtTypes
      <4>2. v \in Task
        BY Zenon, <1>t, <3>1, <4>1, TaskUpdates
      <4> QED BY <1>t, <3>1, <4>2 DEF Task
    <3>3. Dispatched(v, r) # None => Turn(tasks[c], Dispatched(v, r))
      <4>1. tasks[c].snapshot = TRUE
        BY <1>t, <2>3 DEF Task
      <4> QED BY <1>t, <2>1, <3>2, <4>1, DispatchedPhase DEF Turn
    <3> QED BY <1>1, <3>1, <3>3
  <2> QED BY <2>2, <2>3
<1>6. ASSUME Ends(c) PROVE Turns
  <2>1. SetTo(c, None)
    BY <1>6 DEF Ends, SetTo
  <2> QED BY <1>1, <2>1
<1> QED BY <1>2, <1>3, <1>4, <1>5, <1>6

\* An owner's answer does not touch the decision.
LEMMA OwnerTurn ==
  ASSUME NEW t, NEW u, t # None,
         t.phase \in {"router", "ask", "authority", "flood", "vpn"},
         u.phase \in {"idle", "ask", "authority", "flood", "vpn"},
         u.decided_at = t.decided_at
  PROVE  Turn(t, u)
  BY Zenon DEF Turn

\* The owners' answers: the request goes on, or the task is back at its loop.
LEMMA OwnerTurns ==
  ASSUME AnswerInv, QueueInv, NEW c \in Conn,
         \/ forward_to_router(c) \/ forward_to_authority(c)
         \/ AppliesPolicy(c) \/ serve_one_request(c)
         \/ FloodsRevocation(c) \/ revoke_vpn_alongside_mesh(c)
  PROVE  Turns
<1> USE DEF AnswerInv
<1>1. tasks[c] # None
  <2>1. ASSUME AtHead(c) PROVE tasks[c] # None
    <3>1. commands # <<>> /\ c = Head(commands) /\ commands \in Seq(Conn)
      BY <2>1 DEF AtHead, MgmtTypes
    <3>2. commands[1] = c /\ 1 \in 1 .. Len(commands)
      BY <3>1
    <3> QED BY <3>2 DEF QueueInv
  <2> QED BY <2>1 DEF forward_to_router, forward_to_authority, AppliesPolicy,
                      serve_one_request, FloodsRevocation,
                          revoke_vpn_alongside_mesh
<1>2. tasks[c].phase \in {"router", "ask", "authority", "flood", "vpn"}
  BY DEF forward_to_router, forward_to_authority, AppliesPolicy, AtHead,
         serve_one_request, FloodsRevocation, revoke_vpn_alongside_mesh
<1>3. \/ \E a : Responds(c, a)
      \/ \E p \in {"ask", "authority", "flood", "vpn"} : Advances(c, p)
  BY Zenon
  DEF forward_to_router, forward_to_authority, AppliesPolicy, Advances,
         serve_one_request, FloodsRevocation, revoke_vpn_alongside_mesh
<1>4. /\ \A d \in Conn \ {c} : tasks'[d] = tasks[d]
      /\ tasks'[c] # None =>
            /\ tasks'[c].phase \in {"idle", "ask", "authority", "flood", "vpn"}
            /\ tasks'[c].decided_at = tasks[c].decided_at
  BY <1>1, <1>3, RespondsPhase, AdvancesPhase DEF Phase
<1>5. tasks'[c] # None => Turn(tasks[c], tasks'[c])
  BY <1>1, <1>2, <1>4, OwnerTurn, Zenon
<1> QED BY <1>4, <1>5, OneTurn

\* The authority's end and the node's restart.
LEMMA CrashTurns ==
  ASSUME AnswerInv, QueueInv, AuthorityDies \/ Restart
  PROVE  Turns
<1> SUFFICES ASSUME NEW d \in Conn, tasks'[d] # None, tasks'[d] # tasks[d]
             PROVE  Turn(tasks[d], tasks'[d])
  BY DEF Turns
<1>1. CASE AuthorityDies
  <2>1. PICK q : tasks'[d] =
            [tasks[d] EXCEPT !.phase = "idle", !.job = 0, !.outbox = q]
    BY Zenon, <1>1 DEF AuthorityDies
  <2>2. d \in Range(commands) /\ d \in Range(commands)
    <3>1. d \in Range(commands)
      BY Zenon, <1>1 DEF AuthorityDies
    <3>2. commands \in Seq(Conn)
      BY DEF AnswerInv, MgmtTypes
    <3> QED BY <3>1, <3>2 DEF Range
  <2>3. tasks[d] # None /\ tasks[d] \in Task
    BY <2>2 DEF QueueInv, Range, AnswerInv, MgmtTypes
  <2>4. tasks[d].phase = "authority"
    BY Zenon, <1>1, <2>2 DEF AuthorityDies
  <2>5. tasks'[d].phase = "idle" /\ tasks'[d].decided_at = tasks[d].decided_at
    BY <2>1, <2>3 DEF Task
  <2> QED BY <2>3, <2>4, <2>5 DEF Turn
<1>2. CASE Restart
  <2>1. tasks'[d] = [Opened EXCEPT !.closed = TRUE, !.outbox = tasks[d].outbox]
    BY Zenon, <1>2 DEF Restart
  <2> QED BY <2>1 DEF Opened, Turn
<1> QED BY <1>1, <1>2

\* Every step but the clock is a turn.
LEMMA NextTurns ==
  ASSUME AnswerInv, QueueInv, CallNext, ~ClockTicks
  PROVE  Turns
<1>1. CASE Withdrawn
  BY <1>1 DEF Withdrawn, Turns
<1> QED BY <1>1, CallerTurns, GateTurns, OwnerTurns, CrashTurns DEF CallNext

\* Time passes.
LEMMA FreshTick ==
  ASSUME MgmtTypes, FreshInv, ClockTicks
  PROVE  /\ FreshInv'
         /\ \A c \in Conn : tasks[c] # None /\ tasks'[c] # None =>
                               tasks'[c].phase = tasks[c].phase
<1>1. /\ clock \in Nat /\ lastGood \in Nat /\ MaxLag \in Nat
           /\ lastGood <= clock
      /\ tasks \in [Conn -> Task \cup {None}]
  BY CallAssumption DEF MgmtTypes, FreshInv
<1>2. clock' = clock + 1 /\ UNCHANGED <<good, lastGood>>
  BY DEF ClockTicks
<1>3. ASSUME NEW c \in Conn, tasks'[c] # None
      PROVE  /\ FreshTask(tasks[c])'
             /\ tasks[c] # None => tasks'[c].phase = tasks[c].phase
  <2>1. CASE tasks[c] # None /\ tasks[c].phase \in {"admit", "decide"}
    <3>1. tasks'[c] = [tasks[c] EXCEPT !.lag = tasks[c].lag + 1]
      BY <2>1 DEF ClockTicks
    <3>2. tasks[c] \in Task /\ FreshTask(tasks[c])
      BY <1>1, <2>1 DEF FreshInv
    <3>3. /\ tasks'[c].phase = tasks[c].phase
               /\ tasks'[c].snapshot = tasks[c].snapshot
          /\ tasks'[c].decided_at = tasks[c].decided_at
          /\ tasks'[c].lag = tasks[c].lag + 1
          /\ tasks[c].lag \in Nat /\ tasks[c].decided_at \in Nat
      BY <3>1, <3>2, CallAssumption DEF Task
    <3>4. FreshTask(tasks[c])'
      BY <1>1, <1>2, <3>2, <3>3 DEF FreshTask
    <3> QED BY <3>3, <3>4
  <2>2. CASE ~(tasks[c] # None /\ tasks[c].phase \in {"admit", "decide"})
    <3>1. tasks'[c] = tasks[c]
      BY <2>2 DEF ClockTicks
    <3>2. tasks[c] \in Task /\ FreshTask(tasks[c])
      BY <1>1, <1>3, <3>1 DEF FreshInv
    <3>3. tasks[c].decided_at \in Nat
              /\ tasks[c].phase \notin {"admit", "decide"}
      BY <1>3, <2>2, <3>1, <3>2 DEF Task
    <3>4. FreshTask(tasks[c])'
      BY <1>1, <1>2, <3>1, <3>2, <3>3 DEF FreshTask
    <3> QED BY <3>1, <3>4
  <2> QED BY <2>1, <2>2
<1>4. lastGood' <= clock'
  BY <1>1, <1>2
<1> QED BY <1>3, <1>4 DEF FreshInv

\* The session behind a connection is withdrawn.
LEMMA FreshWithdrawn ==
  ASSUME MgmtTypes, FreshInv, Withdrawn
  PROVE  FreshInv'
<1>1. /\ lastGood' = clock /\ clock' = clock /\ tasks' = tasks /\ clock \in Nat
      /\ MaxLag \in Nat /\ tasks \in [Conn -> Task \cup {None}]
  BY CallAssumption DEF MgmtTypes, Withdrawn
<1>2. ASSUME NEW c \in Conn, tasks[c] # None PROVE FreshTask(tasks[c])'
  <2>1. tasks[c].decided_at \in Nat /\ tasks[c].lag \in Nat
            /\ tasks[c].decided_at <= clock
    BY <1>1, <1>2 DEF Task, FreshInv, FreshTask
  <2> QED BY <1>1, <2>1 DEF FreshTask
<1> QED BY <1>1, <1>2 DEF FreshInv

\* Every step keeps the invariant.
LEMMA FreshNext ==
  ASSUME AnswerInv, QueueInv, AnswerInv', FreshInv, [CallNext]_callVars
  PROVE  FreshInv'
<1>1. MgmtTypes /\ MgmtTypes'
  BY DEF AnswerInv
<1>2. CASE ClockTicks
  BY <1>1, <1>2, FreshTick
<1>3. CASE Withdrawn
  BY <1>1, <1>3, FreshWithdrawn
<1>4. CASE CallNext /\ ~ClockTicks /\ ~Withdrawn
  <2>1. UNCHANGED <<clock, good, lastGood>>
    BY Zenon, <1>4
    DEF CallNext, run, Connected, request, Fails, context, Admits, Reads,
       Revalidates, Ends, forward_to_router, forward_to_authority,
       AppliesPolicy, serve_one_request, FloodsRevocation,
       revoke_vpn_alongside_mesh, AuthorityDies, Restart
  <2> QED BY <1>1, <1>4, <2>1, NextTurns, FreshTurns
<1>5. CASE UNCHANGED callVars
  BY <1>5 DEF callVars, FreshInv, FreshTask
<1> QED BY <1>2, <1>3, <1>4, <1>5

\* For any number of connections and any clock: a request is handed on only
\* if the credential behind the connection was good within REVALIDATE_AFTER
\* and the time a task takes to be resumed (`Revalidates`, `Reads`).
THEOREM Fresh == CallSpec => ServedFresh
<1>1. CallInit => FreshInv
  BY DEF CallInit, FreshInv
<1>2. AnswerInv /\ QueueInv /\ FreshInv /\ [CallNext]_callVars =>
          (AnswerInv /\ QueueInv /\ FreshInv)'
  BY AnswerNext, QueueStep, FreshNext
<1>3. AnswerInv /\ QueueInv /\ FreshInv /\ [CallNext]_callVars =>
        [\A c \in Conn :
           tasks[c] # None /\ tasks'[c] # None
               /\ tasks[c].phase \in {"idle", "decide"}
               /\ tasks'[c].phase \in {"router", "ask"}
             => good \/ clock - lastGood < Revalidate + MaxLag]_callVars
  <2> SUFFICES ASSUME AnswerInv, QueueInv, FreshInv, CallNext, NEW c \in Conn,
                      tasks[c] # None, tasks'[c] # None,
                      tasks[c].phase \in {"idle", "decide"},
                      tasks'[c].phase \in {"router", "ask"}
               PROVE  good \/ clock - lastGood < Revalidate + MaxLag
    OBVIOUS
  <2>1. MgmtTypes
    BY DEF AnswerInv
  <2>2. ~ClockTicks
    BY <2>1, FreshTick
  <2> QED BY <2>1, <2>2, NextTurns, TurnServes
<1> QED BY AnswerInit, <1>1, <1>2, <1>3, PTL DEF CallSpec, ServedFresh
=============================================================================
