----------------------------- MODULE OgmSchedule -----------------------------
(***************************************************************************)
(* When a node speaks: the Trickle timer of every interface                *)
(* (batman/src/trickle.rs), the timers' uses in the engine                 *)
(* (batman/src/engine.rs), the polls of wayfinder-driver-core and the turn *)
(* of a driver's loop, which sleeps until the soonest deadline.            *)
(*                                                                         *)
(* Instants are kept relative to the true clock, so that time has no       *)
(* bound.  A turn samples `now`, then waits for a frame, a request or the  *)
(* end of its sleep; all but the host's timer arm use the sampled value,   *)
(* however long the wait was.                                              *)
(***************************************************************************)
EXTENDS Integers, FiniteSetsExt

CONSTANTS
    Iface,           \* interfaces, by index, 0 .. n - 1
    Bounds,          \* <<i_min, i_max>> pairs an interface may be given
    Cadence,         \* keep-alive interval of every interface, 0 for none
    Late,            \* ticks an executor may oversleep
    MaxConfigs       \* bound: runtime changes of an interface's bounds

\* The shortest wait is half of i_min, and a unit is small enough for that to
\* be something (i_min of 1 ns, what bounds of zero become, leaves no wait).
ASSUME TimerAssumption ==
    /\ Iface \subseteq Nat /\ Late \in Nat
    /\ \A b \in Bounds : /\ b[1] \in Nat /\ b[2] \in Nat
                         /\ 2 <= b[1] /\ b[1] <= b[2]
    /\ \E b \in Bounds : \A c \in Bounds : c[2] <= b[2]

VARIABLES
    rereads,           \* the timer arm reads the clock again: host, not board
    timers,            \* the OGM timer of every interface
    keepalives,        \* instant of every interface's next keep-alive
    topology_changed,  \* the engine's latch
    tx_ogm,            \* interfaces that may send OGMs: gate open, not locked
    stage,             \* where the loop is
    age,               \* ticks since the turn sampled `now`
    sleep,             \* how long the turn sleeps
    configs,           \* changes of bounds so far
    due, fired,        \* of this poll: due at its start, emissions since
    latest             \* the instant by which every interface is to speak

timerVars == <<rereads, timers, keepalives, topology_changed, tx_ogm, stage,
               age, sleep, configs, due, fired, latest>>

-----------------------------------------------------------------------------
(* The timer. *)

\* Mutant: the whole span is drawn from, so that a wait may be nothing.
FromZero(span) == 0 .. Max({span, 1}) - 1

\* A jittered span: [span/2, span), a window of at least one unit.
Jittered(span) ==
    LET half == span \div 2
    IN  half .. half + Max({span - half, 1}) - 1

Timer(t, interval, fires) ==
    {[i_min |-> t.i_min, i_max |-> t.i_max, interval |-> interval,
      next_fire |-> at] : at \in fires}

After(now, span) == {now + wait : wait \in Jittered(span)}

NewTimer(b, now) ==
    Timer([i_min |-> b[1], i_max |-> b[2]], b[1], After(now, b[1]))

on_emit(t, now) ==
    Timer(t, Min({2 * t.interval, t.i_max}), After(now, t.interval))

\* A fire already due within i_min is kept.
reset(t, now) ==
    Timer(t, t.i_min, IF t.next_fire > now + t.i_min
                      THEN After(now, t.i_min) ELSE {t.next_fire})

FireDue(fire, now) == now >= fire

reset_ogm_timers(ts, now) ==
    {f \in [Iface -> UNION {reset(ts[i], now) : i \in Iface}] :
        \A i \in Iface : f[i] \in reset(ts[i], now)}

-----------------------------------------------------------------------------
(* The loop. *)

\* No sleep is longer than the longest interval, so an instant further back
\* than this is as good as this.
MaxAge == Max({b[2] : b \in Bounds}) + Late

Sooner(fire) == Max({fire - 1, -MaxAge})

\* The instant a handler is given: the turn's, or the clock's.
Sampled == -age
PollNow == IF rereads THEN 0 ELSE Sampled

Beating == {i \in Iface : Cadence[i] # 0}

\* next_broadcast_after and next_keepalive_after, at the turn's instant.
NextDue ==
    Min({Max({fire, 0}) :
             fire \in {timers[i].next_fire : i \in Iface}
                          \cup {keepalives[i] : i \in Beating}})

Turn ==
    /\ stage = "turn"
    /\ stage' = "wait" /\ age' = 0 /\ sleep' = NextDue
    /\ UNCHANGED <<timers, keepalives, topology_changed, tx_ogm, configs,
                   due, fired, latest>>

TimerTick ==
    /\ stage = "wait" /\ age < sleep + Late
    /\ age' = age + 1
    /\ timers' = [i \in Iface |->
                     [timers[i] EXCEPT !.next_fire = Sooner(@)]]
    /\ keepalives' = [i \in Iface |-> Sooner(keepalives[i])]
    /\ latest' = [i \in Iface |-> Sooner(latest[i])]
    /\ UNCHANGED <<topology_changed, tx_ogm, stage, sleep, configs, due, fired>>

\* What a reset owes: every interface speaks within i_min.
Owed == [i \in Iface |-> Min({latest[i], timers[i].i_min})]

\* A frame or a request that resets the timers, or a latch it finds set.
Resets ==
    /\ timers' \in reset_ogm_timers(timers, Sampled)
    /\ latest' = Owed

Handled ==
    /\ stage = "wait" /\ stage' = "turn"
    /\ age' = 0 /\ sleep' = 0
    /\ UNCHANGED <<keepalives, due, fired>>

\* An accepted OGM ends with apply_topology_change; a new originator has
\* just set the latch.
handle_ogm(is_new_orig) ==
    /\ Handled
    /\ topology_changed' = FALSE
    /\ IF is_new_orig \/ topology_changed THEN Resets
       ELSE UNCHANGED <<timers, latest>>
    /\ UNCHANGED <<tx_ogm, configs>>

\* The host joins or leaves a group: reset at once, not through the latch.
set_local_mcast_groups ==
    /\ Handled /\ Resets
    /\ UNCHANGED <<topology_changed, tx_ogm, configs>>

\* A new revocation resets the timers; the routes it drops set the latch.
ingest_revocation(dropped) ==
    /\ Handled /\ Resets
    /\ topology_changed' = (topology_changed \/ dropped)
    /\ UNCHANGED <<tx_ogm, configs>>

\* set_config: new bounds start a new timer, a gate opens or closes.
configure_interface_ogm(i, b) ==
    /\ Handled
    /\ configs < MaxConfigs /\ configs' = configs + 1
    /\ \E t \in NewTimer(b, Sampled) : timers' = [timers EXCEPT ![i] = t]
    /\ latest' = [latest EXCEPT ![i] = b[1]]
    /\ UNCHANGED <<topology_changed, tx_ogm>>

set_link_features(i) ==
    /\ Handled
    /\ configs < MaxConfigs /\ configs' = configs + 1
    /\ tx_ogm' = IF i \in tx_ogm THEN tx_ogm \ {i} ELSE tx_ogm \cup {i}
    /\ UNCHANGED <<timers, topology_changed, latest>>

\* The sleep is over: the timer arm polls.
DueNow == {i \in Iface : FireDue(timers[i].next_fire, PollNow)}

TimerWake ==
    /\ stage = "wait" /\ age >= sleep
    /\ stage' = "ogms"
    /\ due' = DueNow /\ fired' = [i \in Iface |-> 0]
    /\ UNCHANGED <<timers, keepalives, topology_changed, tx_ogm, age, sleep,
                   configs, latest>>

\* One round of poll_due_ogms.  An open gate produces an OGM, which purges
\* the table: a route found stale sets the latch, and the latch resets
\* every timer before this interface's is advanced.
EmitOgm(stale) ==
    /\ stage = "ogms" /\ DueNow # {}
    /\ LET i == Min(DueNow)
           resets == i \in tx_ogm /\ (stale \/ topology_changed)
           owed == IF resets THEN Owed ELSE latest
       IN  /\ stale => i \in tx_ogm
           /\ \E ts \in IF resets THEN reset_ogm_timers(timers, PollNow)
                        ELSE {timers} :
                 \E t \in on_emit(ts[i], PollNow) :
                     timers' = [ts EXCEPT ![i] = t]
           /\ topology_changed' = (topology_changed /\ i \notin tx_ogm)
           /\ latest' = [owed EXCEPT ![i] = timers[i].i_max]
           /\ fired' = [fired EXCEPT ![i] = Min({@ + 1, 2})]
    /\ UNCHANGED <<keepalives, tx_ogm, stage, age, sleep, configs, due>>

OgmsDone ==
    /\ stage = "ogms" /\ DueNow = {}
    /\ stage' = "keepalives"
    /\ UNCHANGED <<timers, keepalives, topology_changed, tx_ogm, age, sleep,
                   configs, due, fired, latest>>

\* poll_due_keepalives: a timer whose bounds are equal.
BeatNow == {i \in Beating : FireDue(keepalives[i], PollNow)}

EmitKeepalive ==
    /\ stage = "keepalives" /\ BeatNow # {}
    /\ LET i == Min(BeatNow)
       IN  \E at \in After(PollNow, Cadence[i]) :
               keepalives' = [keepalives EXCEPT ![i] = at]
    /\ UNCHANGED <<timers, topology_changed, tx_ogm, stage, age, sleep, configs,
                   due, fired, latest>>

PollDone ==
    /\ stage = "keepalives" /\ BeatNow = {}
    /\ stage' = "turn" /\ age' = 0 /\ sleep' = 0
    /\ due' = {} /\ fired' = [i \in Iface |-> 0]
    /\ UNCHANGED <<timers, keepalives, topology_changed, tx_ogm, configs,
                   latest>>
-----------------------------------------------------------------------------

TimerInit ==
    \E b \in [Iface -> Bounds] :
        /\ timers \in {f \in [Iface -> UNION {NewTimer(b[i], 0) :
                                                   i \in Iface}] :
                          \A i \in Iface : f[i] \in NewTimer(b[i], 0)}
        /\ keepalives \in [Iface -> 0 .. MaxAge]
        /\ \A i \in Iface : keepalives[i] \in After(0, Cadence[i])
        /\ latest = [i \in Iface |-> b[i][1]]
        /\ rereads \in BOOLEAN
        /\ topology_changed = FALSE /\ tx_ogm = Iface
        /\ stage = "turn" /\ age = 0 /\ sleep = 0 /\ configs = 0
        /\ due = {} /\ fired = [i \in Iface |-> 0]

Receive ==
    \/ \E flag \in BOOLEAN : handle_ogm(flag) \/ ingest_revocation(flag)
    \/ set_local_mcast_groups
    \/ \E i \in Iface : set_link_features(i)
                             \/ \E b \in Bounds : configure_interface_ogm(i, b)

Poll == (\E stale \in BOOLEAN : EmitOgm(stale)) \/ OgmsDone
            \/ EmitKeepalive \/ PollDone

TimerNext ==
    (Turn \/ TimerTick \/ Receive \/ TimerWake \/ Poll) /\ UNCHANGED rereads

TimerSpec == TimerInit /\ [][TimerNext]_timerVars

-----------------------------------------------------------------------------

TimerTypeOK ==
    /\ \A i \in Iface :
          /\ timers[i] \in [i_min : Nat, i_max : Nat, interval : Nat,
                            next_fire : -MaxAge .. MaxAge]
          /\ timers[i].i_min <= timers[i].interval
          /\ timers[i].interval <= timers[i].i_max
    /\ keepalives \in [Iface -> -MaxAge .. MaxAge]
    /\ rereads \in BOOLEAN
    /\ topology_changed \in BOOLEAN /\ tx_ogm \subseteq Iface
    /\ stage \in {"turn", "wait", "ogms", "keepalives"}
    /\ age \in 0 .. MaxAge /\ sleep \in 0 .. MaxAge
    /\ configs \in 0 .. MaxConfigs
    /\ due \subseteq Iface /\ fired \in [Iface -> 0 .. 2]
    /\ latest \in [Iface -> -MaxAge .. MaxAge]

\* An interface is scheduled within i_max of its last OGM and within i_min
\* of every inconsistency since: resets bring its next OGM forward and none
\* of them, however fast they come and however old the `now` they are given,
\* puts it off (`TrickleTimer::reset`).
NeverPutOff ==
    \A i \in Iface : timers[i].next_fire <= latest[i]

\* A poll emits once on every interface that was due when it began and on
\* no other, and so ends, although the first OGM it produces may reset every
\* timer (`poll_due_ogms`, `apply_topology_change`).
DueOnce ==
    /\ \A i \in Iface : fired[i] <= IF i \in due THEN 1 ELSE 0
    /\ stage = "keepalives" => \A i \in due : fired[i] = 1

\* An OGM goes out when it is due, once, and nothing puts it off: what the
\* timers (`TrickleTimer`) and the poll loop (`poll_due_ogms`) promise
\* together.
OnSchedule == NeverPutOff /\ DueOnce
==============================================================================
