------------------------------ MODULE MgmtApi -------------------------------
(***************************************************************************)
(* The management API between one dashboard session and a provider node:   *)
(* NodeConnection and Client on one side; on the other the serve task of   *)
(* each connection, which decides what the caller may do and hands its     *)
(* requests to the router loop, to the authority task and to the VPN       *)
(* coordination server.                                                    *)
(*                                                                         *)
(* A response carries no name of its request: it answers the oldest one    *)
(* the connection has not answered.  A caller that gives up closes its     *)
(* connection, but the serve task notices only when it next reads or       *)
(* writes, so a request may take effect long after it was given up.        *)
(*                                                                         *)
(* Requests are of four kinds: "plain" for the router loop alone,          *)
(* "config" a SetConfig with settings and an enrolment policy, "revoke" a  *)
(* RevokeNode, "barred" one the caller's tier may not make.                *)
(***************************************************************************)
EXTENDS Option, Naturals, Sequences, Functions

CONSTANTS
    Conn,            \* connections open at once
    Revalidate,      \* REVALIDATE_AFTER
    Deadline,        \* RESPONSE_DEADLINE
    MaxLag,          \* assumption: ticks before a task answered is resumed
    MaxRequests,     \* bound: requests made
    MaxClock         \* bound: the clock stops here

VARIABLES
    clock,
    good,            \* the node would grant the caller's credential now
    lastGood,        \* ghost: when it last would, if it does not
    client,          \* NodeConnection: the connected client
    call,            \* NodeConnection: the exchange under the lock
    asked,           \* kinds of the requests made so far
    told,            \* ghost: the answer each request's caller was given
    tasks,           \* the serve task of each connection
    commands,        \* the authority's queue: connections that wait on it
    running,         \* the authority task is alive
    applied,         \* requests the router has carried out
    policy,          \* requests whose policy the authority has applied
    recorded,        \* requests whose revocation is signed and on file
    flooded,         \* requests whose revocation was flooded
    removed          \* requests whose node is off the VPN

effects == <<applied, policy, recorded, flooded, removed>>

caller == <<client, call, asked, told>>

callVars ==
    <<clock, good, lastGood, caller, tasks, commands, running, effects>>

Request == 1 .. MaxRequests

Kind == {"plain", "config", "revoke", "barred"}

\* What a request can be answered with.  All but "ok" are error responses.
Answer ==
    {"ok", "granted", "denied", "refused", "busy", "died", "partial",
     "unflooded", "half"}

\* A serve task: waiting for the router's snapshot (at connect, or before a
\* request), for a frame, or for an owner's answer.
Phase ==
    {"authenticate", "admit", "idle", "revalidate", "decide", "router",
     "ask", "authority", "flood", "vpn"}

\* At most one frame waits on a stream in either direction.
Slot(S) == {<<>>} \cup {<<s>> : s \in S}

Task ==
    [phase : Phase, job : Request \cup {0}, snapshot : BOOLEAN,
     lag : 0 .. MaxLag, decided_at : Nat, inbox : Slot(Request),
     outbox : Slot(Answer), hung_up : BOOLEAN, closed : BOOLEAN]

\* A call that holds the lock: its request, its connection, and when the
\* request went out.
Exchange == [request : Request, on : Conn, since : Nat \cup {None}]

ASSUME CallAssumption ==
    /\ MaxRequests \in Nat /\ MaxLag \in Nat /\ MaxClock \in Nat
    /\ Revalidate \in Nat \ {0}
    /\ None \notin Conn \cup Task \cup Exchange \cup Nat \cup Answer \cup {"failed"}

Opened ==
    [phase |-> "authenticate", job |-> 0, snapshot |-> FALSE, lag |-> 0,
     decided_at |-> 0, inbox |-> <<>>, outbox |-> <<>>, hung_up |-> FALSE,
     closed |-> FALSE]

----------------------------------------------------------------------------
(* The caller: NodeConnection::run around Client::request.                 *)

HangUp(c) ==
    tasks' = [tasks EXCEPT ![c] =
        IF tasks[c].closed THEN None ELSE [tasks[c] EXCEPT !.hung_up = TRUE]]

\* Mutant: the client survives a failed exchange.
FinishedKept(answer) ==
    /\ told' = [told EXCEPT ![call.request] = answer]
    /\ call' = None
    /\ tasks' = [tasks EXCEPT ![call.on].outbox =
                     IF @ = <<>> THEN @ ELSE Tail(@)]
    /\ UNCHANGED <<client, asked>>

\* run drops its client, and so the stream, on any failure, the node's
\* considered "no" included.
Finished(answer) ==
    /\ told' = [told EXCEPT ![call.request] = answer]
    /\ call' = None
    /\ \/ /\ answer = "ok"
          /\ LET t == tasks[call.on]
             IN  tasks' = [tasks EXCEPT ![call.on] =
                              [t EXCEPT !.outbox = Tail(t.outbox)]]
          /\ UNCHANGED client
       \/ answer # "ok" /\ client' = None /\ HangUp(call.on)
    /\ UNCHANGED asked

\* A call that takes the lock: over the connection it finds, or dialling.
run(k) ==
    /\ call = None /\ Len(asked) < MaxRequests
    /\ asked' = Append(asked, k)
    /\ LET r == Len(asked) + 1
       IN  IF client # None
           THEN /\ call' = [request |-> r, on |-> client, since |-> clock]
                /\ tasks' = [tasks EXCEPT ![client].inbox = Append(@, r)]
           ELSE \E c \in Conn :
                /\ tasks[c] = None
                /\ call' = [request |-> r, on |-> c, since |-> None]
                /\ tasks' = [tasks EXCEPT ![c] = Opened]
    /\ UNCHANGED <<clock, good, lastGood, client, told, commands, running,
                   effects>>

\* connect_tls: authenticated, so the request goes out.
Connected ==
    /\ call # None /\ call.since = None
    /\ LET t == tasks[call.on]
       IN  /\ t.outbox # <<>> /\ Head(t.outbox) = "granted"
           /\ tasks' = [tasks EXCEPT ![call.on] =
                  [t EXCEPT !.outbox = Tail(t.outbox),
                            !.inbox = Append(t.inbox, call.request)]]
    /\ client' = call.on
    /\ call' = [call EXCEPT !.since = clock]
    /\ UNCHANGED <<clock, good, lastGood, asked, told, commands, running,
                   effects>>

\* The next frame on the stream is taken for the answer.
request ==
    /\ call # None
    /\ LET t == tasks[call.on]
       IN  /\ t.outbox # <<>> /\ Head(t.outbox) # "granted"
           /\ Finished(Head(t.outbox))
    /\ UNCHANGED <<clock, good, lastGood, commands, running, effects>>

\* The node closed the stream, or does not answer in time.
Fails ==
    /\ call # None
    /\ LET t == tasks[call.on]
       IN  \/ t.closed /\ t.outbox = <<>>
           \/ call.since # None /\ clock - call.since >= Deadline
    /\ Finished("failed")
    /\ UNCHANGED <<clock, good, lastGood, commands, running, effects>>

----------------------------------------------------------------------------
(* The serve task of connection c.                                         *)

KindOf(c) == asked[tasks[c].job]

\* send_response and back to the loop.  Writing to a peer that hung up ends
\* the task.
Responds(c, answer) ==
    LET t == tasks[c]
    IN  tasks' = [tasks EXCEPT ![c] =
            IF t.hung_up THEN None
            ELSE [t EXCEPT !.phase = "idle", !.job = 0,
                           !.outbox = Append(t.outbox, answer)]]

Denies(c) ==
    tasks' = [tasks EXCEPT ![c] =
                 IF tasks[c].hung_up THEN None
                 ELSE [Opened EXCEPT !.closed = TRUE,
                                     !.outbox = <<"denied">>]]

\* Mutant: serving a request renews the decision.
DispatchedRenewed(t, r) ==
    IF asked[r] = "revoke"
    THEN [t EXCEPT !.phase = "ask", !.job = r, !.decided_at = clock]
    ELSE [t EXCEPT !.phase = "router", !.job = r, !.decided_at = clock]

\* permits and serve_by_facet, for a request the connection may now make.
Dispatched(t, r) ==
    IF asked[r] = "barred"
    THEN IF t.hung_up THEN None
         ELSE [t EXCEPT !.phase = "idle", !.job = 0,
                        !.outbox = Append(t.outbox, "refused")]
    ELSE [t EXCEPT !.phase = IF asked[r] = "revoke" THEN "ask" ELSE "router",
                   !.job = r]

\* AuthGate::context: the router loop answers with its present state.
context(c) ==
    /\ tasks[c] # None /\ ~tasks[c].closed
    /\ tasks[c].phase \in {"authenticate", "revalidate"}
    /\ LET t == tasks[c]
       IN  tasks' = [tasks EXCEPT ![c] =
              [t EXCEPT
                 !.phase = IF t.phase = "authenticate" THEN "admit" ELSE "decide",
                 !.snapshot = good, !.lag = 0]]
    /\ UNCHANGED <<clock, good, lastGood, caller, commands, running, effects>>

\* The first frame's certificate is authorized, the answer sent.
Admits(c) ==
    /\ tasks[c] # None /\ tasks[c].phase = "admit" /\ ~tasks[c].closed
    /\ LET t == tasks[c]
       IN  IF ~t.snapshot THEN Denies(c)
           ELSE tasks' = [tasks EXCEPT ![c] =
                   IF t.hung_up THEN None
                   ELSE [t EXCEPT !.phase = "idle", !.decided_at = clock,
                                  !.snapshot = FALSE, !.lag = 0,
                                  !.outbox = <<"granted">>]]
    /\ UNCHANGED <<clock, good, lastGood, caller, commands, running, effects>>

Expired(t) == clock - t.decided_at >= Revalidate

\* A frame is read: the decision is made again, or the request served.
Reads(c) ==
    /\ tasks[c] # None /\ tasks[c].phase = "idle" /\ ~tasks[c].closed
    /\ tasks[c].inbox # <<>>
    /\ LET t == [tasks[c] EXCEPT !.inbox = Tail(tasks[c].inbox)]
           r == Head(tasks[c].inbox)
       IN  tasks' = [tasks EXCEPT ![c] =
               IF Expired(t) THEN [t EXCEPT !.phase = "revalidate", !.job = r]
               ELSE Dispatched(t, r)]
    /\ UNCHANGED <<clock, good, lastGood, caller, commands, running, effects>>

\* What authorize says is no longer what it said: the connection is closed.
Revalidates(c) ==
    /\ tasks[c] # None /\ tasks[c].phase = "decide" /\ ~tasks[c].closed
    /\ LET t == tasks[c]
       IN  IF ~t.snapshot THEN Denies(c)
           ELSE tasks' = [tasks EXCEPT ![c] =
                   Dispatched([t EXCEPT !.decided_at = clock,
                                        !.snapshot = FALSE, !.lag = 0], t.job)]
    /\ UNCHANGED <<clock, good, lastGood, caller, commands, running, effects>>

\* The stream has ended and every frame on it was read.
Ends(c) ==
    /\ tasks[c] # None /\ tasks[c].hung_up
    /\ tasks[c].phase = "idle" /\ tasks[c].inbox = <<>>
    /\ tasks' = [tasks EXCEPT ![c] = None]
    /\ UNCHANGED <<clock, good, lastGood, caller, commands, running, effects>>

\* forward_to_router: the loop carries the request out, or refuses it (some
\* of the settings may be in force all the same).
forward_to_router(c) ==
    /\ tasks[c] # None /\ tasks[c].phase = "router"
    /\ \/ Responds(c, "refused") /\ UNCHANGED applied
       \/ /\ applied' = applied \cup {tasks[c].job}
          /\ IF KindOf(c) = "config"
             THEN tasks' = [tasks EXCEPT ![c].phase = "ask"]
             ELSE Responds(c, "ok")
    /\ UNCHANGED <<clock, good, lastGood, caller, commands, running, policy,
                   recorded, flooded, removed>>

\* partial_set_config: an error of the authority's, for the half that was
\* not applied.
Worded(c, answer) == IF KindOf(c) = "config" THEN "partial" ELSE answer

\* forward_to_authority, set_enrollment_policy: try_send, then wait.
forward_to_authority(c) ==
    /\ tasks[c] # None /\ tasks[c].phase = "ask"
    /\ \/ /\ ~running
          /\ Responds(c, Worded(c, "died"))
          /\ UNCHANGED commands
       \/ /\ running
          /\ Responds(c, Worded(c, "busy"))
          /\ UNCHANGED commands
       \/ /\ running
          /\ tasks' = [tasks EXCEPT ![c].phase = "authority"]
          /\ commands' = Append(commands, c)
    /\ UNCHANGED <<clock, good, lastGood, caller, running, effects>>

\* serve_authority takes the oldest command.
AtHead(c) ==
    /\ commands # <<>> /\ c = Head(commands)
    /\ tasks[c].phase = "authority"

AppliesPolicy(c) ==
    /\ AtHead(c) /\ KindOf(c) = "config"
    /\ commands' = Tail(commands)
    /\ \/ /\ policy' = policy \cup {tasks[c].job}
          /\ Responds(c, "ok")
       \/ /\ UNCHANGED policy
          /\ Responds(c, "partial")
    /\ UNCHANGED <<clock, good, lastGood, caller, running, applied, recorded,
                   flooded, removed>>

\* A revocation refused, or signed and recorded.  The authority then waits
\* for the router to flood it.
serve_one_request(c) ==
    /\ AtHead(c) /\ KindOf(c) = "revoke"
    /\ \/ /\ Responds(c, "refused")
          /\ commands' = Tail(commands)
          /\ UNCHANGED recorded
       \/ /\ recorded' = recorded \cup {tasks[c].job}
          /\ tasks' = [tasks EXCEPT ![c].phase = "flood"]
          /\ UNCHANGED commands
    /\ UNCHANGED <<clock, good, lastGood, caller, running, applied, policy,
                   flooded, removed>>

\* The router's answer may be lost with the record flooded all the same.
FloodsRevocation(c) ==
    /\ tasks[c] # None /\ tasks[c].phase = "flood"
    /\ commands' = Tail(commands)
    /\ \/ /\ flooded' \in {flooded, flooded \cup {tasks[c].job}}
          /\ Responds(c, "unflooded")
       \/ /\ flooded' = flooded \cup {tasks[c].job}
          /\ tasks' = [tasks EXCEPT ![c].phase = "vpn"]
    /\ UNCHANGED <<clock, good, lastGood, caller, running, applied, policy,
                   recorded, removed>>

\* A request, this caller's or another's, panics and takes the authority's
\* state with it; what it had recorded stays.  Everyone waiting finds the
\* reply dropped.
AuthorityDies ==
    /\ running
    /\ \A c \in Range(commands) : tasks[c].phase = "authority"
    /\ recorded' \in {recorded} \cup
           {recorded \cup {tasks[c].job} :
               c \in {d \in Conn : AtHead(d) /\ KindOf(d) = "revoke"}}
    /\ running' = FALSE
    /\ commands' = <<>>
    /\ tasks' = [c \in Conn |->
           IF c \notin Range(commands) THEN tasks[c]
           ELSE IF tasks[c].hung_up THEN None
           ELSE [tasks[c] EXCEPT
                    !.phase = "idle", !.job = 0,
                    !.outbox = Append(tasks[c].outbox, Worded(c, "died"))]]
    /\ UNCHANGED <<clock, good, lastGood, caller, applied, policy, flooded,
                   removed>>

\* revoke_vpn_alongside_mesh: HeadscaleCoordinator::revoke deletes the
\* node's machines one by one and its user last; a failure leaves the rest.
revoke_vpn_alongside_mesh(c) ==
    /\ tasks[c] # None /\ tasks[c].phase = "vpn"
    /\ \/ removed' = removed \cup {tasks[c].job} /\ Responds(c, "ok")
       \/ UNCHANGED removed /\ Responds(c, "half")
    /\ UNCHANGED <<clock, good, lastGood, caller, commands, running, applied,
                   policy, recorded, flooded>>

----------------------------------------------------------------------------
(* The world around them.                                                  *)

\* The credential is revoked or expires, or the trust anchor or the node's
\* own key it rested on is replaced.
Withdrawn ==
    /\ good
    /\ good' = FALSE
    /\ lastGood' = clock
    /\ UNCHANGED <<clock, caller, tasks, commands, running, effects>>

\* The node's process is restarted: every connection is cut.
Restart ==
    /\ tasks' = [c \in Conn |->
           IF tasks[c] = None \/ tasks[c].hung_up THEN None
           ELSE [Opened EXCEPT !.closed = TRUE,
                               !.outbox = tasks[c].outbox]]
    /\ commands' = <<>>
    /\ running' = TRUE
    /\ tasks' # tasks \/ ~running
    /\ UNCHANGED <<clock, good, lastGood, caller, effects>>

ClockTicks ==
    /\ clock < MaxClock
    /\ \A c \in Conn :
          tasks[c] # None /\ tasks[c].phase \in {"admit", "decide"} =>
              tasks[c].lag < MaxLag
    /\ clock' = clock + 1
    /\ tasks' = [c \in Conn |->
           IF tasks[c] # None /\ tasks[c].phase \in {"admit", "decide"}
           THEN [tasks[c] EXCEPT !.lag = @ + 1] ELSE tasks[c]]
    /\ UNCHANGED <<good, lastGood, caller, commands, running, effects>>

CallInit ==
    /\ clock = 0 /\ good = TRUE /\ lastGood = 0
    /\ client = None /\ call = None
    /\ asked = <<>> /\ told = [r \in Request |-> None]
    /\ tasks = [c \in Conn |-> None] /\ commands = <<>> /\ running = TRUE
    /\ applied = {} /\ policy = {} /\ recorded = {} /\ flooded = {}
    /\ removed = {}

CallNext ==
    \/ \E k \in Kind : run(k)
    \/ Connected \/ request \/ Fails
    \/ \E c \in Conn :
          \/ context(c) \/ Admits(c) \/ Reads(c) \/ Revalidates(c) \/ Ends(c)
          \/ forward_to_router(c) \/ forward_to_authority(c)
          \/ AppliesPolicy(c) \/ serve_one_request(c)
          \/ FloodsRevocation(c) \/ revoke_vpn_alongside_mesh(c)
    \/ AuthorityDies \/ Withdrawn \/ Restart \/ ClockTicks

CallSpec == CallInit /\ [][CallNext]_callVars

----------------------------------------------------------------------------
(* Properties.                                                             *)

CallTypeOK ==
    /\ clock \in 0 .. MaxClock /\ good \in BOOLEAN
    /\ lastGood \in 0 .. MaxClock
    /\ client \in Conn \cup {None} /\ call \in Exchange \cup {None}
    /\ asked \in Seq(Kind) /\ Len(asked) <= MaxRequests
    /\ told \in [Request -> Answer \cup {"failed", None}]
    /\ tasks \in [Conn -> Task \cup {None}]
    /\ commands \in Seq(Conn) /\ running \in BOOLEAN
    /\ \A s \in {applied, policy, recorded, flooded, removed} :
          s \subseteq Request

\* An answer to request r is true: Ok means that all of it was done, an error
\* that names the half that was done is right about that half, and one that
\* refuses is right that it was not carried out.
IsTrue(r, answer) ==
    LET mesh == r \in recorded \cap flooded
        done == r \in applied \cup policy \cup recorded
    IN  /\ answer = "ok" =>
             \/ asked[r] = "plain" /\ r \in applied
             \/ asked[r] = "config" /\ r \in applied \cap policy
             \/ asked[r] = "revoke" /\ mesh /\ r \in removed
        /\ answer = "partial" => r \in applied /\ r \notin policy
        /\ answer = "half" => mesh
        /\ answer = "unflooded" => r \in recorded
        /\ answer \in {"refused", "busy", "denied"} => ~done

\* What a caller is told is true of its own request, whatever was given up
\* before, is still under way on a connection given up, or was answered late
\* (NodeConnection::run: "a response that arrived late would be read as the
\* answer to the *next* request").
AnswerIsTrue == \A r \in 1 .. Len(asked) : IsTrue(r, told[r])

\* A request is handed on only if the node would have granted the caller's
\* credential within the last REVALIDATE_AFTER, and the time its task took
\* to be resumed: an open connection outlives its credential by no more.
ServedFresh ==
    [][\A c \in Conn :
         tasks[c] # None /\ tasks'[c] # None
             /\ tasks[c].phase \in {"idle", "decide"}
             /\ tasks'[c].phase \in {"router", "ask"}
           => good \/ clock - lastGood < Revalidate + MaxLag]_callVars
=============================================================================
