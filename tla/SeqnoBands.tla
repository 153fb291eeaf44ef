----------------------------- MODULE SeqnoBands -----------------------------
(***************************************************************************)
(* How a sequence number is judged against an originator's high-water      *)
(* (libs/batman/src/lib.rs, SeqnoBands::classify and admit_seqno).  One    *)
(* implementation serves two spaces, flooded broadcasts and OGMs, which    *)
(* differ only in the constants below.                                     *)
(*                                                                         *)
(* The state folded is an entry [seqno |-> high-water, watch |-> NoWatch   *)
(* or an open run [since, seqno]].  Admit returns the new entry together   *)
(* with the SeqnoAdmission the caller acts on.                             *)
(***************************************************************************)
EXTENDS Wrapping

CONSTANTS
    HalfSeq,           \* 2^31 for the code's u32 sequence numbers
    HalfClock,         \* 2^31 for the code's u32 milliseconds
    Window,            \* SEQNO_WINDOW: accepted leap ahead
    ReorderTolerance,  \* SEQNO_REORDER_TOLERANCE: duplicates behind
    ResetProtection,   \* SEQNO_RESET_PROTECTION: how long a run persists
    NoWatch            \* resync_watch = None

Seqno == Counter(HalfSeq)
Stamp == Counter(HalfClock)
Watch == [since : Stamp, seqno : Seqno]
SeqnoEntry == [seqno : Seqno, watch : Watch \cup {NoWatch}]

\* SeqnoBands::new asserts the first two; the third keeps a persisted run
\* readable on the signed clock.
ASSUME BandsAssumption ==
    /\ HalfSeq \in Nat \ {0} /\ HalfClock \in Nat \ {0}
    /\ Window \in Nat /\ Window < HalfSeq
    /\ ReorderTolerance \in Nat /\ ReorderTolerance < HalfSeq
    /\ ResetProtection \in Nat /\ ResetProtection < HalfClock
    /\ NoWatch \notin Watch

Elapsed(now, earlier) == ElapsedSince(now, earlier, HalfClock)
AheadBy(highWater, seqno) == SignedDiff(seqno, highWater, HalfSeq)

\* Mutant: an exact repeat passes for an advance.
ClassifyRepeats(highWater, seqno) ==
    LET ahead == AheadBy(highWater, seqno)
    IN  IF ahead >= 0 /\ ahead <= Window THEN "Advance"
        ELSE IF ahead <= 0 /\ ahead >= -ReorderTolerance THEN "Duplicate"
        ELSE "Implausible"

Classify(highWater, seqno) ==
    LET ahead == AheadBy(highWater, seqno)
    IN  IF ahead > 0 /\ ahead <= Window THEN "Advance"
        ELSE IF ahead <= 0 /\ ahead >= -ReorderTolerance THEN "Duplicate"
        ELSE "Implausible"

Verdict == {"Advance", "Duplicate", "Implausible"}

\* Resync(v) is SeqnoAdmission::Resynchronised { verdict: v }.
Resync(v) == CASE v = "Advance" -> "ResyncAdvance"
               [] v = "Duplicate" -> "ResyncDuplicate"
               [] v = "Implausible" -> "ResyncImplausible"

Resynchronised == {"ResyncAdvance", "ResyncDuplicate", "ResyncImplausible"}
Admission == {"Advanced", "DuplicateExact", "DuplicateBehind", "Watching"}
                 \cup Resynchronised

\* SeqnoAdmission::advanced, high_water_written, contents_are_current and
\* is_stale_copy.
Advanced(adm) == adm \in {"Advanced", "ResyncAdvance"}
HighWaterWritten(adm) == adm \in Resynchronised \cup {"Advanced"}
ContentsAreCurrent(adm) == Advanced(adm) \/ adm = "DuplicateExact"
IsStaleCopy(adm) == adm = "DuplicateBehind"

\* BroadcastSeqnoEntry::seeded, and the first sighting in handle_ogm
Seeded(seqno) == [seqno |-> seqno, watch |-> NoWatch]

Admitted(entry, adm) == [entry |-> entry, adm |-> adm]

OpenRun(entry, seqno, now) ==
    IF entry.watch = NoWatch THEN [since |-> now, seqno |-> seqno]
    ELSE entry.watch

\* Mutant: the frame that completes a run is dropped, not judged afresh.
AdmitDropsTrip(entry, seqno, now) ==
    LET run == OpenRun(entry, seqno, now)
    IN  IF Elapsed(now, run.since) < ResetProtection
        THEN Admitted([entry EXCEPT !.watch = run], "Watching")
        ELSE Admitted(Seeded(run.seqno), "ResyncDuplicate")

\* The Implausible arm of admit_seqno: continue the open run or open one
\* with this frame, and once it has persisted rewind the high-water to the
\* number that opened it and judge the frame afresh.
AdmitImplausible(entry, seqno, now) ==
    LET run == OpenRun(entry, seqno, now)
        verdict == Classify(run.seqno, seqno)
    IN  IF Elapsed(now, run.since) < ResetProtection
        THEN Admitted([entry EXCEPT !.watch = run], "Watching")
        ELSE Admitted(Seeded(IF verdict = "Advance" THEN seqno ELSE run.seqno),
                      Resync(verdict))

\* admit_seqno
Admit(entry, seqno, now) ==
    LET verdict == Classify(entry.seqno, seqno)
    IN  CASE verdict = "Advance" ->
               Admitted(Seeded(seqno), "Advanced")
          [] verdict = "Duplicate" ->
               Admitted(entry, IF seqno = entry.seqno
                               THEN "DuplicateExact" ELSE "DuplicateBehind")
          [] OTHER -> AdmitImplausible(entry, seqno, now)
=============================================================================
