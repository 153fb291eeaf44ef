---------------------------- MODULE SeqnoRecovery ----------------------------
(***************************************************************************)
(* One receiver's high-water for one originator, over an unbounded run:    *)
(* the originator keeps sending, may reboot (its counter is volatile and   *)
(* restarts at zero), its frames may be lost, and stray copies -- delayed  *)
(* from an earlier life, or out of step with the counter -- may reach the  *)
(* receiver first.  The receiver folds every frame with admit_seqno.       *)
(*                                                                         *)
(* The entry is the broadcast dedup entry of handle_broadcast, which is    *)
(* never aged out; the same machine judges an originator's OGMs.           *)
(*                                                                         *)
(* Rate and MaxGap describe the environment: how many frames the           *)
(* originator sends per clock tick, and for how many ticks the receiver    *)
(* may hear nothing from it.                                               *)
(***************************************************************************)
EXTENDS SeqnoBands

CONSTANTS
    Rate,        \* most frames the originator sends in one tick
    MaxGap,      \* longest silence, in ticks
    MaxReboots,  \* bound on originator reboots
    MaxStrays    \* bound on stray copies

VARIABLES
    clock,    \* the receiver's now, in milliseconds modulo 2^32
    counter,  \* the originator's broadcast_seqno: the last number it used
    entry,    \* the receiver's BroadcastSeqnoEntry for the originator
    adm,      \* how the originator's latest frame was judged
    quota,    \* frames sent in this tick
    gap,      \* ticks since the originator was last heard
    reboots, strays,
    refused   \* history: frames refused in a row since the last upset

vars == <<clock, counter, entry, adm, quota, gap, reboots, strays, refused>>

\* Saturation of the history counter.
RefusedCap == ReorderTolerance + 2 * Rate * (ResetProtection + 1) + 2

TypeOK ==
    /\ clock \in Stamp /\ counter \in Seqno
    /\ entry \in SeqnoEntry
    /\ adm \in Admission
    /\ quota \in 0 .. Rate /\ gap \in 0 .. MaxGap
    /\ reboots \in 0 .. MaxReboots /\ strays \in 0 .. MaxStrays
    /\ refused \in 0 .. RefusedCap

CapAt(cap, n) == IF n > cap THEN cap ELSE n

\* The receiver already follows the originator: the entry was seeded by its
\* first frame.  The counter starts anywhere, the node having been up a
\* while.
Init ==
    /\ clock = 0
    /\ counter \in Seqno
    /\ entry = Seeded(counter) /\ adm = "Advanced"
    /\ quota = 0 /\ gap = 0 /\ reboots = 0 /\ strays = 0
    /\ refused = 0

\* The receiver folds a frame carrying seqno; `own` tells the originator's
\* frames from strays in the history.
Fold(seqno, own) ==
    LET result == Admit(entry, seqno, clock)
    IN  /\ entry' = result.entry
        /\ IF ~own
           THEN adm' = adm /\ refused' = 0
           ELSE /\ adm' = result.adm
                /\ refused' = IF Advanced(result.adm) THEN 0
                              ELSE CapAt(RefusedCap, refused + 1)

\* next_broadcast_seqno, and the frame is heard
Hear ==
    LET seqno == WrappingAdd(counter, 1, HalfSeq)
    IN  /\ quota < Rate
        /\ counter' = seqno /\ quota' = quota + 1 /\ gap' = 0
        /\ Fold(seqno, TRUE)
        /\ UNCHANGED <<clock, reboots, strays>>

\* next_broadcast_seqno, and the frame is lost; a loss is part of a silence
Lose ==
    /\ quota < Rate /\ gap < MaxGap
    /\ counter' = WrappingAdd(counter, 1, HalfSeq) /\ quota' = quota + 1
    /\ UNCHANGED <<clock, entry, adm, gap, reboots, strays, refused>>

\* A delayed copy of some earlier number overtakes the originator's own.
Stray(seqno) ==
    /\ strays < MaxStrays /\ strays' = strays + 1
    /\ Fold(seqno, FALSE)
    /\ UNCHANGED <<clock, counter, quota, gap, reboots>>

\* The counter is never persisted.
Reboot ==
    /\ reboots < MaxReboots /\ reboots' = reboots + 1
    /\ counter' = 0 /\ refused' = 0
    /\ UNCHANGED <<clock, entry, adm, quota, gap, strays>>

Tick ==
    /\ gap < MaxGap
    /\ clock' = WrappingAdd(clock, 1, HalfClock)
    /\ quota' = 0 /\ gap' = gap + 1
    /\ UNCHANGED <<counter, entry, adm, reboots, strays, refused>>

Next == Hear \/ Lose \/ Tick \/ Reboot \/ \E s \in Seqno : Stray(s)

\* The clock runs, and an originator that keeps sending is heard again and
\* again.
Fairness == WF_vars(Tick) /\ SF_vars(Hear)

Spec == Init /\ [][Next]_vars /\ Fairness

-----------------------------------------------------------------------------
\* Whatever the high-water holds -- after a reboot, a stray, or both -- the
\* originator's own traffic is admitted again, for ever
\* (BROADCAST_SEQNO_WINDOW: "the originator's own traffic corrects it").
Readmitted == []<>Advanced(adm)

\* The refusals an upset can cost are bounded: a reboot inside the reorder
\* tolerance costs at most the tolerance, any other upset the frames of one
\* reset-protection interval.
RefusalsBounded == refused < RefusedCap
=============================================================================
