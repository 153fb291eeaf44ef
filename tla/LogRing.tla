------------------------------- MODULE LogRing ------------------------------
(***************************************************************************)
(* The ring of log records a node serves GetLogs from                      *)
(* (wayfinder-log/src/ring.rs) and the clients that poll it: `logs         *)
(* --follow` of wayfinder-ctl, which waits for an answer before it asks    *)
(* again, and the web dashboard, whose timer asks whether or not the       *)
(* earlier poll was answered.                                              *)
(*                                                                         *)
(* A record is its sequence number and its size; the 64-bit sequence       *)
(* number never wraps.  A poll may fail.                                   *)
(***************************************************************************)
EXTENDS Integers, Sequences, FiniteSetsExt

CONSTANTS
    RING_CAPACITY,
    Sizes,              \* record_size of a record
    BATCH_BYTE_BUDGET,
    Batches,            \* max_records of the polls
    MaxRecords          \* bound: records logged

ASSUME LogAssumption ==
    RING_CAPACITY \in Nat \ {0} /\ Batches \subseteq Nat /\ MaxRecords \in Nat

VARIABLES
    buf, next_seq,      \* the ring
    overlap,            \* polls the client may have out at a time
    cursor,             \* where the client resumes
    polls, answers,     \* polls not yet served, and not yet folded in
    told                \* ghost: times a record was shown or said missed

logVars == <<buf, next_seq, overlap, cursor, polls, answers, told>>

LogRecord == [seq : 0..MaxRecords - 1, size : Sizes]

Snapshot ==
    [records : SUBSET (0..MaxRecords - 1), missed : SUBSET (0..MaxRecords - 1),
     next_seq : 0..MaxRecords]

push(size) ==
    /\ next_seq < MaxRecords
    /\ buf' = Append(IF Len(buf) = RING_CAPACITY THEN Tail(buf) ELSE buf,
                     [seq |-> next_seq, size |-> size])
    /\ next_seq' = next_seq + 1
    /\ UNCHANGED <<overlap, cursor, polls, answers, told>>

\* The rows a poll may be answered with, those of them up to row k, and
\* their bytes.
Fresh(since) == {i \in DOMAIN buf : buf[i].seq >= since}

FreshTo(since, k) == {i \in Fresh(since) : i <= k}

Bytes(taken) == MapThenSumSet(LAMBDA i : buf[i].size, taken)

\* One record goes out however large it is.
Fits(taken, max_records) ==
    /\ Cardinality(taken) <=
          IF max_records = 0 THEN RING_CAPACITY ELSE max_records
    /\ Cardinality(taken) <= 1 \/ Bytes(taken) <= BATCH_BYTE_BUDGET

\* The rows it is answered with: the oldest, to the number and the bytes
\* that fit.
Taken(since, max_records) ==
    FreshTo(since,
            Max({k \in 0..Len(buf) : Fits(FreshTo(since, k), max_records)}))

Oldest == IF buf = <<>> THEN next_seq ELSE Head(buf).seq

\* Mutant: every poll resumes at the end of the ring.
ResumeAtEnd(taken) == next_seq

Resume(taken) == IF taken = {} THEN next_seq ELSE buf[Max(taken)].seq + 1

\* `dropped` is a number; the records it counts are the ones from `since` to
\* the oldest retained.
since_within(since, max_records) ==
    LET taken == Taken(since, max_records)
    IN [records |-> {buf[i].seq : i \in taken},
        missed |-> since..Oldest - 1,
        next_seq |-> Resume(taken)]

-----------------------------------------------------------------------------
(* The clients. *)

\* One of the requests, or of the answers, under way is there no more.
Without(s, i) == [j \in 1..Len(s) - 1 |-> IF j < i THEN s[j] ELSE s[j + 1]]

\* poll_once reads the cursor and sends the request.
poll_once ==
    /\ Len(polls) + Len(answers) < overlap
    /\ polls' = Append(polls, cursor)
    /\ UNCHANGED <<buf, next_seq, overlap, cursor, answers, told>>

\* The node answers one of the requests it has.
logs_since ==
    \E i \in DOMAIN polls, max_records \in Batches :
        /\ answers' = Append(answers, since_within(polls[i], max_records))
        /\ polls' = Without(polls, i)
        /\ UNCHANGED <<buf, next_seq, overlap, cursor, told>>

Tell(n) == IF n < 2 THEN n + 1 ELSE n

\* A first poll's gap is history from before the session and not shown; the
\* records of it count as told.
ingest_logs(i) ==
    LET batch == answers[i]
    IN /\ told' = [q \in DOMAIN told |->
                     IF q \in batch.records \cup batch.missed
                     THEN Tell(told[q]) ELSE told[q]]
       /\ cursor' = batch.next_seq
       /\ answers' = Without(answers, i)
       /\ UNCHANGED <<buf, next_seq, overlap, polls>>

\* A poll that fails leaves the cursor where it is.
PollFails ==
    /\ \/ \E i \in DOMAIN polls :
            polls' = Without(polls, i) /\ UNCHANGED answers
       \/ \E i \in DOMAIN answers :
            answers' = Without(answers, i) /\ UNCHANGED polls
    /\ UNCHANGED <<buf, next_seq, overlap, cursor, told>>

-----------------------------------------------------------------------------

LogInit ==
    /\ buf = <<>> /\ next_seq = 0
    /\ overlap \in {1, 2}
    /\ cursor = 0
    /\ polls = <<>> /\ answers = <<>>
    /\ told = [q \in 0..MaxRecords - 1 |-> 0]

LogNext ==
    \/ \E size \in Sizes : push(size)
    \/ poll_once
    \/ logs_since
    \/ \E i \in DOMAIN answers : ingest_logs(i)
    \/ PollFails

LogSpec == LogInit /\ [][LogNext]_logVars

-----------------------------------------------------------------------------

LogTypeOK ==
    /\ buf \in Seq(LogRecord) /\ Len(buf) <= RING_CAPACITY
    /\ next_seq \in 0..MaxRecords
    /\ overlap \in {1, 2}
    /\ cursor \in 0..next_seq
    /\ polls \in Seq(0..next_seq)
    /\ Len(answers) + Len(polls) <= overlap
    /\ \A i \in DOMAIN answers : answers[i] \in Snapshot
    /\ told \in [0..MaxRecords - 1 -> 0..2]

\* A client never passes over a record: every record below its cursor was
\* shown to it or counted in a gap, however many records the ring evicted
\* between its polls, however short the batches are and in whatever order
\* overlapping polls are answered (LogSnapshot::dropped: "a gap is visible as
\* a gap rather than as the stream quietly closing over it").  One with a
\* single poll out at a time is told of every record once (`follow_logs`: "a
\* record is neither shown twice nor skipped").
NothingSkipped ==
    /\ \A q \in 0..cursor - 1 : told[q] > 0
    /\ overlap = 1 =>
          \A q \in DOMAIN told : told[q] = IF q < cursor THEN 1 ELSE 0
=============================================================================
