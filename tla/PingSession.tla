----------------------------- MODULE PingSession -----------------------------
(***************************************************************************)
(* The mesh's ping: the node's one session (wayfinder/src/ping.rs), the    *)
(* router's calls on it (wayfinder/src/lib.rs) and the loop that sleeps    *)
(* until the session's deadline.                                           *)
(*                                                                         *)
(* Instants are kept relative to the true clock.  A probe's stamp is       *)
(* microseconds truncated to a word and read back by a wrapping            *)
(* subtraction, so a row keeps the ticks since, modulo ClockMod.  Replies  *)
(* cross the mesh late, twice or never; one names its sender and a         *)
(* sequence number, but no session.                                        *)
(***************************************************************************)
EXTENDS Option, Integers, Sequences, FiniteSetsExt

CONSTANTS
    Peer,              \* nodes that can be pinged
    Counts,            \* numbers of probes a client asks for
    Interval, Timeout,
    MaxProbes,         \* MAX_PING_PROBES
    SeqMod,            \* range of a sequence number
    ClockMod,          \* range of a stamp
    Overdue,           \* ticks an executor may oversleep
    Idle,              \* the sleep of a loop no session shortens
    MaxIssued          \* bound: probes asked for, over all sessions

\* A session never asks for more probes than there are sequence numbers.
ASSUME PingAssumption ==
    /\ SeqMod \in Nat \ {0} /\ ClockMod \in Nat \ {0}
    /\ Counts \subseteq 1 .. SeqMod
    /\ MaxProbes \in Nat \ {0}
    /\ Interval \in Nat /\ Overdue \in Nat

VARIABLES
    session,           \* the running session, or None
    next_probe_seqno,
    issued,            \* probes asked for so far: a probe's serial number
    host,              \* the timer arm reads the clock again: host, not board
    able,              \* a probe would find a route, and the node is unlocked
    waited, nap,       \* ticks since the turn sampled `now`, and its sleep
    replies,           \* replies under way, with the probe each answers
    credits            \* <<probe credited, probe answered>> in this session

pingVars == <<session, next_probe_seqno, issued, host, able, waited, nap,
              replies, credits>>

-----------------------------------------------------------------------------
(* The session.  `old` says how many ticks ago the caller's `now` was. *)

Outstanding(s) == {k \in 1 .. Len(s.probes) : s.probes[k].state = "Pending"}

active(s) == s.emitted < s.requested \/ Outstanding(s) # {}

IsDue(s, old) == s.emitted < s.requested /\ s.next_due + old <= 0

Elapsed(probe, old) == (probe.ago - old) % ClockMod

next_due_after(s) ==
    Min({Idle}
        \cup {Max({s.next_due, 0}) : k \in s.emitted + 1 .. s.requested}
        \cup {Max({Timeout - Elapsed(s.probes[k], 0), 0}) :
                 k \in Outstanding(s)})

\* A full ring gives up its oldest row; one still pending is lost with it.
push_row(s, row) ==
    LET full == Len(s.probes) = MaxProbes
    IN  [s EXCEPT !.lost = @ + IF full /\ 1 \in Outstanding(s) THEN 1 ELSE 0,
                  !.probes = Append(IF full THEN Tail(@) ELSE @, row)]

\* record_sent and record_no_route.
RecordProbe(s, old, state) ==
    push_row([s EXCEPT !.emitted = @ + 1,
                   !.next_due = Interval - old,
                   !.lost = @ + IF state = "NoRoute" THEN 1 ELSE 0],
         [seqno |-> (s.first_seqno + s.emitted) % SeqMod, state |-> state,
          ago |-> old, probe |-> s.serial + s.emitted])

Resolve(s, rows, state) ==
    [s EXCEPT !.probes =
        [k \in DOMAIN s.probes |->
            IF k \in rows
            THEN [s.probes[k] EXCEPT !.state = state, !.ago = 0]
            ELSE s.probes[k]]]

Lost(s, rows) ==
    [Resolve(s, rows, "TimedOut") EXCEPT !.lost = @ + Cardinality(rows)]

expire(s, old) ==
    Lost(s, {k \in Outstanding(s) : Elapsed(s.probes[k], old) >= Timeout})

cancel(s) == Lost([s EXCEPT !.requested = s.emitted], Outstanding(s))

\* The pending row a reply answers, if there is one.
Matching(s, r) ==
    IF s = None THEN {}
    ELSE {k \in Outstanding(s) :
             r.peer = s.target /\ s.probes[k].seqno = r.seqno}

-----------------------------------------------------------------------------
(* The router and the loop.  Every turn ends by computing the next sleep. *)

NextTurn ==
    /\ waited' = 0
    /\ nap' = IF session' = None THEN Idle ELSE next_due_after(session')

\* A number goes round only when no reply to its last bearer is under way.
Outlived(n) == \A r \in replies : issued + n - r.probe <= SeqMod

\* Mutant: every session numbers its probes from zero.
StartFromZero(peer, n) ==
    /\ issued + n <= MaxIssued /\ issued' = issued + n
    /\ Outlived(n)
    /\ session' = [target |-> peer, requested |-> n, emitted |-> 0,
                   first_seqno |-> 0, serial |-> issued, next_due |-> -waited,
                   received |-> 0, lost |-> 0, probes |-> <<>>]
    /\ credits' = {c \in credits : c[1] # c[2]}
    /\ NextTurn
    /\ UNCHANGED <<next_probe_seqno, able, replies>>

start_ping(peer, n) ==
    /\ issued + n <= MaxIssued /\ issued' = issued + n
    /\ Outlived(n)
    /\ session' = [target |-> peer, requested |-> n, emitted |-> 0,
                   first_seqno |-> next_probe_seqno, serial |-> issued,
                   next_due |-> -waited, received |-> 0, lost |-> 0,
                   probes |-> <<>>]
    /\ next_probe_seqno' = (next_probe_seqno + n) % SeqMod
    /\ credits' = {c \in credits : c[1] # c[2]}
    /\ NextTurn
    /\ UNCHANGED <<able, replies>>

cancel_ping ==
    /\ session # None
    /\ session' = cancel(session)
    /\ NextTurn
    /\ UNCHANGED <<next_probe_seqno, issued, able, replies, credits>>

\* What the target will answer the session's next probe with.
ReplyTo(s) ==
    [peer |-> s.target, seqno |-> (s.first_seqno + s.emitted) % SeqMod,
     probe |-> s.serial + s.emitted]

\* Mutant: a node that cannot send returns before it advances the session.
PollSkips ==
    /\ \/ (session = None \/ ~able) /\ UNCHANGED <<session, replies>>
       \/ /\ session # None /\ able
          /\ LET old == IF host THEN 0 ELSE waited
                 s == expire(session, old)
                 sends == IsDue(s, old)
             IN  /\ session' = IF sends THEN RecordProbe(s, old, "Pending")
                               ELSE s
                 /\ replies' = replies \cup
                                   IF sends THEN {ReplyTo(s)} ELSE {}
    /\ NextTurn
    /\ UNCHANGED <<next_probe_seqno, issued, able, credits>>

\* The timer arm: age out what has stopped waiting, then at most one probe.
poll_ping ==
    /\ \/ session = None /\ UNCHANGED <<session, replies>>
       \/ /\ session # None
          /\ LET old == IF host THEN 0 ELSE waited
                 s == expire(session, old)
                 sends == IsDue(s, old)
             IN  /\ session' = IF ~sends THEN s
                               ELSE RecordProbe(s, old, IF able THEN "Pending"
                                                   ELSE "NoRoute")
                 /\ replies' = replies \cup
                                   IF sends /\ able THEN {ReplyTo(s)} ELSE {}
    /\ NextTurn
    /\ UNCHANGED <<next_probe_seqno, issued, able, credits>>

\* A reply is handled at the instant the turn sampled.  `copies` says that
\* the mesh still carries another.
record_reply(r, copies) ==
    /\ session' = IF Matching(session, r) = {} THEN session
                  ELSE [Resolve(session, Matching(session, r), "Replied")
                           EXCEPT !.received = @ + 1]
    /\ credits' = credits \cup {<<session.probes[k].probe, r.probe>> :
                                    k \in Matching(session, r)}
    /\ replies' = IF copies THEN replies ELSE replies \ {r}
    /\ NextTurn
    /\ UNCHANGED <<next_probe_seqno, issued, able>>

\* A turn of the loop that has nothing to do with pings.
OtherTurn ==
    /\ UNCHANGED <<session, next_probe_seqno, issued, able, replies, credits>>
    /\ NextTurn

-----------------------------------------------------------------------------
(* The world: time, routes and the mesh. *)

\* The select! is fair enough: no deadline passes by more than Overdue.
InTime ==
    session # None =>
        /\ session.emitted < session.requested => session.next_due > -Overdue
        /\ \A k \in Outstanding(session) :
              session.probes[k].ago < Timeout + Overdue

Earlier(t) == Max({t - 1, -Overdue})

Older(probe) == [probe EXCEPT !.ago = (probe.ago + 1) % ClockMod]

PingTick ==
    /\ InTime /\ waited < nap + Overdue /\ waited' = waited + 1
    /\ session' =
          IF session = None THEN None
          ELSE [session EXCEPT
                   !.next_due = Earlier(session.next_due),
                   !.probes = [k \in DOMAIN session.probes |->
                                  IF k \in Outstanding(session)
                                  THEN Older(session.probes[k])
                                  ELSE session.probes[k]]]
    /\ UNCHANGED <<next_probe_seqno, issued, able, nap, replies, credits>>

Reroute ==
    /\ able' = ~able
    /\ UNCHANGED <<session, next_probe_seqno, issued, waited, nap,
                   replies, credits>>

LoseReply(r) ==
    /\ replies' = replies \ {r}
    /\ UNCHANGED <<session, next_probe_seqno, issued, able, waited, nap,
                   credits>>

PingInit ==
    /\ session = None /\ next_probe_seqno = 0
    /\ issued = 0
    /\ host \in BOOLEAN /\ able = TRUE
    /\ waited = 0 /\ nap = Idle
    /\ replies = {} /\ credits = {}

PingNext ==
    /\ \/ \E peer \in Peer, n \in Counts : start_ping(peer, n)
       \/ cancel_ping \/ poll_ping \/ OtherTurn \/ PingTick \/ Reroute
       \/ \E r \in replies : \/ LoseReply(r)
                             \/ \E copies \in BOOLEAN : record_reply(r, copies)
    /\ UNCHANGED host

PingSpec == PingInit /\ [][PingNext]_pingVars

\* The sleep is over and the timer arm is taken.
PingWake == waited >= nap /\ poll_ping

-----------------------------------------------------------------------------

ProbeRow ==
    [seqno : 0 .. SeqMod - 1, ago : 0 .. ClockMod - 1,
     state : {"Pending", "Replied", "TimedOut", "NoRoute"},
     probe : 0 .. issued - 1]

PingTypeOK ==
    /\ session # None =>
          /\ session.target \in Peer
          /\ session.requested \in 0 .. Max(Counts)
          /\ session.emitted \in 0 .. session.requested
          /\ session.first_seqno \in 0 .. SeqMod - 1
          /\ session.next_due \in -(Idle + Overdue) .. Interval
          /\ \A k \in DOMAIN session.probes : session.probes[k] \in ProbeRow
          /\ Len(session.probes) <= MaxProbes
    /\ next_probe_seqno \in 0 .. SeqMod - 1
    /\ issued \in 0 .. MaxIssued
    /\ host \in BOOLEAN /\ able \in BOOLEAN
    /\ waited \in 0 .. Idle + Overdue /\ nap \in 0 .. Idle
    /\ \A r \in replies : r.peer \in Peer /\ r.seqno \in 0 .. SeqMod - 1

\* Every probe a session has emitted is answered, lost or still outstanding,
\* and counted once: rows pushed out of the ring, stragglers, duplicates and
\* a cancel included (the `assert_invariants` of ping.rs's tests).  A reply
\* is credited to the probe it answers and to no other, once: a late reply
\* to a displaced session's probe is not taken for an answer to the one that
\* replaced it (`start_ping` hands out blocks of numbers).
CreditedRight ==
    /\ \A c \in credits : c[1] = c[2]
    /\ session # None =>
          /\ session.received = Cardinality(credits)
          /\ session.emitted = session.received + session.lost
                                    + Cardinality(Outstanding(session))

\* No session stays active for ever: lost replies, lost routes, a locked node
\* and a loop that polls with an old `now` leave no row nothing can resolve
\* (`poll_ping`, `cancel`).
SessionEnds == []<>(session = None \/ ~active(session))
==============================================================================
