----------------------------- MODULE AlarmBoard -----------------------------
(***************************************************************************)
(* The board of conditions a node reports (wayfinder-alarm/src/board.rs),  *)
(* shared by tasks that read the clock before they take its lock           *)
(* (global.rs), so that raises may come with stamps out of order.          *)
(*                                                                         *)
(* A condition is a kind and a subject.  Its count, its detail and the     *)
(* log record of a new one are left out.                                   *)
(***************************************************************************)
EXTENDS Integers, FiniteSets, Functions

CONSTANTS
    Condition, ALARM_CAPACITY,
    Severity,           \* numbers from 1, the worst last
    Stale,              \* how old a stamp may be when the lock is taken
    MaxNow, MaxDropped  \* bounds

ASSUME AlarmAssumption ==
    ALARM_CAPACITY \in Nat \ {0} /\ Severity \subseteq Nat \ {0}

VARIABLES
    alarms,             \* condition -> its row, for the ones on the board
    dropped,
    now,
    worst,              \* ghost: worst severity raised since a row was cleared
    open                \* ghost: conditions raised and not cleared since

alarmVars == <<alarms, dropped, now, worst, open>>

AlarmRow == [severity : Severity, last_ms : 0..MaxNow]

Shown == DOMAIN alarms

Full == Cardinality(Shown) = ALARM_CAPACITY

\* Mutant: the stalest row gives way first.
Staler(r, s) ==
    \/ r.last_ms < s.last_ms
    \/ r.last_ms = s.last_ms /\ r.severity < s.severity

Milder(r, s) ==
    \/ r.severity < s.severity
    \/ r.severity = s.severity /\ r.last_ms < s.last_ms

\* The rows evict_for may pick: the least severe, of these the stalest.  Of
\* equals the code takes the first in the table, the model any.
Victims == {c \in Shown : \A o \in Shown : ~Milder(alarms[o], alarms[c])}

Coalesced(c, severity, stamp) ==
    /\ c \in Shown
    /\ alarms' = [alarms EXCEPT ![c] =
                    [severity |-> IF severity > @.severity THEN severity
                                  ELSE @.severity,
                     last_ms |-> stamp]]
    /\ UNCHANGED dropped

Placed(c, severity, stamp, kept) ==
    alarms' = [x \in kept \cup {c} |->
                 IF x = c THEN [severity |-> severity, last_ms |-> stamp]
                 ELSE alarms[x]]

Added(c, severity, stamp) ==
    /\ c \notin Shown /\ ~Full
    /\ Placed(c, severity, stamp, Shown)
    /\ UNCHANGED dropped

evict_for(c, severity, stamp) ==
    /\ c \notin Shown /\ Full
    /\ dropped' = dropped + 1
    /\ \E victim \in Victims :
        IF alarms[victim].severity >= severity
        THEN UNCHANGED alarms
        ELSE Placed(c, severity, stamp, Shown \ {victim})

raise(c, severity, stamp) ==
    /\ dropped < MaxDropped
    /\ \/ Coalesced(c, severity, stamp)
       \/ Added(c, severity, stamp)
       \/ evict_for(c, severity, stamp)
    /\ worst' = [worst EXCEPT ![c] = IF severity > @ THEN severity ELSE @]
    /\ open' = open \cup {c}
    /\ UNCHANGED now

\* A row that is cleared leaves room, and the comparison starts again from
\* what the board then shows.
clear(c) ==
    /\ alarms' = Restrict(alarms, Shown \ {c})
    /\ worst' = [x \in Condition |->
                   IF x = c \/ (c \in Shown /\ x \notin Shown) THEN 0
                   ELSE IF c \in Shown THEN alarms[x].severity ELSE worst[x]]
    /\ open' = open \ {c}
    /\ UNCHANGED <<dropped, now>>

AlarmTick ==
    /\ now < MaxNow
    /\ now' = now + 1
    /\ UNCHANGED <<alarms, dropped, worst, open>>

AlarmInit ==
    /\ alarms = <<>>
    /\ dropped = 0
    /\ now = 0
    /\ worst = [c \in Condition |-> 0]
    /\ open = {}

AlarmNext ==
    \/ \E c \in Condition, severity \in Severity, age \in 0..Stale :
        age <= now /\ raise(c, severity, now - age)
    \/ \E c \in Condition : clear(c)
    \/ AlarmTick

AlarmSpec == AlarmInit /\ [][AlarmNext]_alarmVars

-----------------------------------------------------------------------------

AlarmTypeOK ==
    /\ Shown \subseteq Condition /\ Cardinality(Shown) <= ALARM_CAPACITY
    /\ \A c \in Shown : alarms[c] \in AlarmRow
    /\ dropped \in 0..MaxDropped
    /\ now \in 0..MaxNow
    /\ worst \in [Condition -> Severity \cup {0}]
    /\ open \subseteq Condition

\* As long as no row is cleared the board shows the worst of what was raised:
\* every condition stands on it at the worst severity it was raised with, or
\* the board is full of rows that are no milder (`evict_for`: "nothing
\* already held is displaced by more of the same").  And none leaves it
\* unseen: the ones raised, not over and not shown are no more than `dropped`
\* says ("a row that silently vanished would be indistinguishable from a
\* condition that never happened").
WorstShown ==
    /\ \A c \in Condition :
        worst[c] > 0 =>
            \/ c \in Shown /\ alarms[c].severity = worst[c]
            \/ c \notin Shown /\ Full
               /\ \A o \in Shown : alarms[o].severity >= worst[c]
    /\ Cardinality(open \ Shown) <= dropped
=============================================================================
