---------------------------- MODULE FramesProofs ----------------------------
(***************************************************************************)
(* Frames that must come out once.  A broadcast is delivered at most once, *)
(* for any mesh, any number of originators and reboots, and any loss,      *)
(* repetition, delay and reordering of frames, as long as the counter does *)
(* not come round (BroadcastFlood).  A copy of a multicast frame is in one *)
(* place (McastTree), and a LoRa module's packets are handed up in order   *)
(* (Rylr998Link).                                                          *)
(*                                                                         *)
(* A wrapped number says nothing about which of two broadcasts is later.   *)
(* The argument counts from the two numbers below the wrap, the lowest a   *)
(* counter of the model starts at: along that count, high-waters advance   *)
(* and everything delivered lies at or below the high-water.               *)
(***************************************************************************)
EXTENDS BroadcastFlood, McastTree, Rylr998Link, SequenceTheorems, TLAPS

-----------------------------------------------------------------------------
(* Broadcasts.                                                             *)

\* How far a number is from the lowest start of a counter.
Rank(seqno) ==
    IF seqno + 2 >= 2 * HalfSeq THEN seqno + 2 - 2 * HalfSeq ELSE seqno + 2

\* The counter does not come round, nor within reach of the window.
NoWrap ==
    /\ MaxSends + 2 < 2 * HalfSeq
    /\ MaxSends + 2 + Window <= 2 * HalfSeq

\* A number some broadcast may carry.
Used(seqno) ==
    /\ seqno \in Seqno
    /\ 1 <= Rank(seqno) /\ Rank(seqno) <= MaxSends + 2

\* A high-water some broadcast set, and a run some broadcast opened.
UsedEntry(hw) ==
    /\ hw \in SeqnoEntry
    /\ Used(hw.seqno)
    /\ hw.watch # NoWatch => Used(hw.watch.seqno)

Table(table) ==
    /\ table = [o \in DOMAIN table |-> table[o]]
    /\ \A o \in DOMAIN table : UsedEntry(table[o].hw)

\* What was delivered has an entry, and lies at or below its high-water.
Below(table, history) ==
    \A id \in history :
        /\ id.orig \in DOMAIN table
        /\ id.seqno \in Seqno
        /\ Rank(id.seqno) <= Rank(table[id.orig].hw.seqno)

Counters ==
    /\ clock \in 0 .. MaxClock
    /\ counter \in [Node -> Seqno] /\ sends \in [Node -> 0 .. MaxSends]
    /\ \A n \in Node : Rank(counter[n]) <= sends[n] + 2

Named(f) ==
    /\ f.to \in Node /\ f.id.orig = f.orig /\ f.id.seqno = f.seqno
    /\ Used(f.seqno)

Frames == \A f \in net : Named(f)

Tables ==
    /\ dedup = [n \in Node |-> dedup[n]]
    /\ delivered = [n \in Node |-> delivered[n]]
    /\ \A n \in Node : Table(dedup[n]) /\ Below(dedup[n], delivered[n])

IInv == Counters /\ Frames /\ Tables /\ AtMostOnce

----------------------------------------------------------------------------
(* Numbers.                                                                *)

LEMMA RankType == ASSUME NEW seqno \in Seqno PROVE Rank(seqno) \in Int
BY BandsAssumption DEF Rank, Seqno, Counter

\* The number a node allocates next is one further on.
LEMMA RankNext ==
    ASSUME NoWrap, NEW seqno \in Seqno, NEW k \in 0 .. MaxSends, k < MaxSends,
           Rank(seqno) <= k + 2
    PROVE  LET next == WrappingAdd(seqno, 1, HalfSeq)
           IN  Used(next) /\ Rank(next) <= (k + 1) + 2
BY BandsAssumption, FloodAssumption
   DEF NoWrap, Rank, Used, Seqno, Counter, WrappingAdd

\* A number classed ahead of the high-water is further on than it.
LEMMA RankAdvance ==
    ASSUME NoWrap, NEW hw, NEW seqno, Used(hw), Used(seqno),
           Classify(hw, seqno) = "Advance"
    PROVE  Rank(hw) < Rank(seqno)
BY BandsAssumption, FloodAssumption
   DEF NoWrap, Rank, Used, Seqno, Counter, Classify, AheadBy, SignedDiff

LEMMA SeededUsed ==
    ASSUME NEW seqno, Used(seqno)
    PROVE  UsedEntry(Seeded(seqno)) /\ Seeded(seqno).seqno = seqno
BY Zenon DEF UsedEntry, Used, Seeded, SeqnoEntry

\* A run that is open or opened by this frame carries a used number.
LEMMA OpenRunUsed ==
    ASSUME NEW entry, UsedEntry(entry), NEW seqno, Used(seqno),
           NEW now \in Stamp
    PROVE  OpenRun(entry, seqno, now) \in Watch
           /\ Used(OpenRun(entry, seqno, now).seqno)
BY Zenon DEF UsedEntry, OpenRun, Used, SeqnoEntry, Watch

\* What the Implausible arm leaves behind: the high-water as it was under a
\* watch, or that of the run, or that of the frame it lets through.
LEMMA AdmitImplausibleUsed ==
    ASSUME NEW entry, UsedEntry(entry), NEW seqno, Used(seqno),
           NEW now \in Stamp
    PROVE  LET r == AdmitImplausible(entry, seqno, now)
           IN  /\ UsedEntry(r.entry)
               /\ r.adm \in Resynchronised \cup {"Watching"}
               /\ r.adm = "Watching" => r.entry.seqno = entry.seqno
               /\ r.adm = "ResyncAdvance" => r.entry.seqno = seqno
<1> DEFINE run == OpenRun(entry, seqno, now)
           verdict == Classify(run.seqno, seqno)
<1>1. run \in Watch /\ Used(run.seqno)
  BY OpenRunUsed, Zenon
<1>2. verdict \in Verdict
  BY Zenon DEF Classify, Verdict
<1>3. CASE Elapsed(now, run.since) < ResetProtection
  <2>1. AdmitImplausible(entry, seqno, now)
          = [entry |-> [entry EXCEPT !.watch = run], adm |-> "Watching"]
    BY <1>3, Zenon DEF AdmitImplausible, Admitted
  <2> HIDE DEF run
  <2>2. [entry EXCEPT !.watch = run]
          = [seqno |-> entry.seqno, watch |-> run]
    BY DEF UsedEntry, SeqnoEntry
  <2> QED
    BY <1>1, <2>1, <2>2 DEF UsedEntry, SeqnoEntry
<1>4. CASE ~(Elapsed(now, run.since) < ResetProtection)
  <2>1. AdmitImplausible(entry, seqno, now)
          = [entry |-> Seeded(IF verdict = "Advance" THEN seqno
                              ELSE run.seqno),
             adm |-> Resync(verdict)]
    BY <1>4, Zenon DEF AdmitImplausible, Admitted
  <2> HIDE DEF run, verdict
  <2>2. /\ Resync(verdict) \in Resynchronised
        /\ Resync(verdict) # "Watching"
        /\ Resync(verdict) = "ResyncAdvance" => verdict = "Advance"
    BY <1>2, Zenon DEF Verdict, Resync, Resynchronised
  <2> QED
    BY <1>1, <2>1, <2>2, SeededUsed
<1> QED
  BY <1>3, <1>4, Zenon

\* What admit_seqno does to an entry, along the count.
LEMMA AdmitUsed ==
    ASSUME NoWrap, NEW entry, UsedEntry(entry), NEW seqno, Used(seqno),
           NEW now \in Stamp
    PROVE  LET r == Admit(entry, seqno, now)
           IN  /\ UsedEntry(r.entry)
               /\ r.adm \in Admission
               /\ Advanced(r.adm) => r.entry.seqno = seqno
               /\ r.adm = "Advanced" => Rank(entry.seqno) < Rank(seqno)
               /\ ~HighWaterWritten(r.adm) => r.entry.seqno = entry.seqno
<1> DEFINE verdict == Classify(entry.seqno, seqno)
           r == Admit(entry, seqno, now)
<1>1. verdict \in Verdict
  BY Zenon DEF Classify, Verdict
<1>2. CASE verdict = "Advance"
  <2>1. r = [entry |-> Seeded(seqno), adm |-> "Advanced"]
    BY <1>2, Zenon DEF Admit, Admitted
  <2>2. Rank(entry.seqno) < Rank(seqno)
    BY <1>2, RankAdvance, Zenon DEF UsedEntry
  <2> HIDE DEF r
  <2>3. r.entry = Seeded(seqno) /\ r.adm = "Advanced"
    BY <2>1, Zenon
  <2> QED
    BY <2>2, <2>3, SeededUsed, Zenon DEF Admission, HighWaterWritten, r
<1>3. CASE verdict = "Duplicate"
  <2>1. r.entry = entry /\ r.adm \in {"DuplicateExact", "DuplicateBehind"}
    BY <1>3, Zenon DEF Admit, Admitted
  <2> HIDE DEF r
  <2> QED
    BY <2>1, Zenon DEF Admission, Advanced, r
<1>4. CASE verdict = "Implausible"
  <2>1. r = AdmitImplausible(entry, seqno, now)
    BY <1>4, Zenon DEF Admit
  <2> HIDE DEF r
  <2> QED
    BY <2>1, AdmitImplausibleUsed
       DEF Admission, Advanced, HighWaterWritten, Resynchronised, r
<1> QED
  BY <1>1, <1>2, <1>3, <1>4, Zenon DEF Verdict

----------------------------------------------------------------------------
(* Frames.                                                                 *)

\* A transmission carries the name and number it is given.
LEMMA TransmitNamed ==
    ASSUME NEW n \in Node, NEW orig, NEW seqno, NEW ttl, NEW id,
           id.orig = orig, id.seqno = seqno, Used(seqno)
    PROVE  \A f \in Transmit(n, orig, seqno, ttl, id) : Named(f)
BY FloodAssumption DEF Transmit, Named

LEMMA RefloodNamed ==
    ASSUME Frames, NEW f \in net, NEW rest, rest \subseteq net, NEW base,
           DeliverAndReflood(f.to, f, rest, base)
    PROVE  Frames'
<1>1. Named(f)
  BY Zenon DEF Frames
<1>2. \A g \in Transmit(f.to, f.orig, f.seqno, f.ttl - 1, f.id) : Named(g)
  BY <1>1, TransmitNamed, Zenon DEF Named
<1>3. net' \subseteq net \cup Transmit(f.to, f.orig, f.seqno, f.ttl - 1, f.id)
  BY Zenon DEF DeliverAndReflood
<1> QED
  BY <1>2, <1>3, Zenon DEF Frames

LEMMA SendStep ==
    ASSUME NoWrap, IInv, NEW n \in Origin, NEW fits \in BOOLEAN, Send(n, fits)
    PROVE  IInv'
<1> DEFINE seqno == WrappingAdd(counter[n], 1, HalfSeq)
           id == [orig |-> n, boot |-> boot[n], seqno |-> seqno]
<1>1. /\ sends[n] < MaxSends
      /\ counter' = [counter EXCEPT ![n] = seqno]
      /\ sends' = [sends EXCEPT ![n] = @ + 1]
      /\ net' = net \/ net' = net \cup Transmit(n, n, seqno, InitialTtl, id)
      /\ UNCHANGED <<clock, dedup, delivered, again>>
  BY Zenon DEF Send
<1>2. n \in Node /\ counter[n] \in Seqno /\ sends[n] \in 0 .. MaxSends
      /\ Rank(counter[n]) <= sends[n] + 2
  BY FloodAssumption, Zenon DEF IInv, Counters
<1>3. Used(seqno) /\ Rank(seqno) <= (sends[n] + 1) + 2
  BY <1>1, <1>2, RankNext, Zenon
<1>4. id.orig = n /\ id.seqno = seqno
  BY Zenon
<1> HIDE DEF seqno, id
<1>5. \A f \in Transmit(n, n, seqno, InitialTtl, id) : Named(f)
  BY <1>2, <1>3, <1>4, TransmitNamed, Zenon
<1>6. Frames'
  BY <1>1, <1>5, Zenon DEF IInv, Frames
<1>7. Counters'
  <2>1. counter' \in [Node -> Seqno]
    BY <1>1, <1>2, <1>3, Zenon DEF IInv, Counters, Used
  <2>2. sends' \in [Node -> 0 .. MaxSends]
    BY <1>1, <1>2, FloodAssumption DEF IInv, Counters
  <2>3. \A m \in Node : Rank(counter'[m]) <= sends'[m] + 2
    BY <1>1, <1>2, <1>3, Zenon DEF IInv, Counters
  <2> QED
    BY <1>1, <2>1, <2>2, <2>3, Zenon DEF IInv, Counters
<1> QED
  BY <1>1, <1>6, <1>7, Zenon DEF IInv, Tables, AtMostOnce

----------------------------------------------------------------------------
(* Receiving.                                                              *)

\* A node's table and history, replaced together.
LEMMA TablesWritten ==
    ASSUME Tables, NEW n \in Node, NEW table, NEW history,
           Table(table), Below(table, history),
           dedup' = [dedup EXCEPT ![n] = table],
           delivered' = [delivered EXCEPT ![n] = history]
    PROVE  Tables'
BY Zenon DEF Tables

\* Rule 2, a known originator: an advance is further on than everything
\* delivered, and any other way in starts the history afresh.
LEMMA KnownStep ==
    ASSUME NoWrap, IInv, NEW f \in net, NEW rest, rest \subseteq net,
           RxKnown(f.to, f, rest), UNCHANGED <<clock, counter, sends>>
    PROVE  IInv'
<1> DEFINE n == f.to
           old == dedup[n][f.orig]
           result == Admit(old.hw, f.seqno, clock)
           entry == [hw |-> result.entry,
                     lastUpdated |-> IF HighWaterWritten(result.adm) THEN clock
                                     ELSE old.lastUpdated]
           table == [dedup[n] EXCEPT ![f.orig] = entry]
<1>1. /\ f.orig \in DOMAIN dedup[n]
      /\ dedup' = [dedup EXCEPT ![n][f.orig] = entry]
      /\ IF Advanced(result.adm)
         THEN DeliverAndReflood(n, f, rest,
                  IF result.adm = "Advanced" THEN delivered[n]
                  ELSE Forgetting(n, {f.orig}))
         ELSE /\ net' = rest
              /\ delivered' = IF result.adm \in Resynchronised
                              THEN [delivered EXCEPT ![n] =
                                       Forgetting(n, {f.orig})]
                              ELSE delivered
              /\ UNCHANGED <<again, everSeen>>
  BY Zenon DEF RxKnown
<1>2. /\ n \in Node /\ f.id.orig = f.orig /\ f.id.seqno = f.seqno
      /\ Used(f.seqno)
  BY Zenon DEF IInv, Frames, Named
<1>3. /\ dedup = [m \in Node |-> dedup[m]]
      /\ Table(dedup[n]) /\ Below(dedup[n], delivered[n])
      /\ delivered = [m \in Node |-> delivered[m]]
  BY <1>2, Zenon DEF IInv, Tables
<1>4. UsedEntry(old.hw)
  BY <1>1, <1>3, Zenon DEF Table
<1>5. clock \in Stamp
  BY FloodAssumption, BandsAssumption DEF IInv, Counters, Stamp, Counter
<1>6. /\ UsedEntry(result.entry)
      /\ result.adm \in Admission
      /\ Advanced(result.adm) => result.entry.seqno = f.seqno
      /\ result.adm = "Advanced" => Rank(old.hw.seqno) < Rank(f.seqno)
      /\ ~HighWaterWritten(result.adm) => result.entry.seqno = old.hw.seqno
  BY <1>2, <1>4, <1>5, AdmitUsed, Zenon
<1>7. entry.hw = result.entry
  BY Zenon
<1> HIDE DEF n, old, result, entry
<1>8. dedup' = [dedup EXCEPT ![n] = table]
  BY <1>1, <1>2, <1>3, Zenon
<1>9. /\ DOMAIN table = DOMAIN dedup[n] /\ table[f.orig] = entry
      /\ \A o \in DOMAIN table : o # f.orig => table[o] = dedup[n][o]
      /\ table = [o \in DOMAIN table |-> table[o]]
  BY <1>1, <1>3, Zenon DEF Table
<1>10. Table(table)
  BY <1>3, <1>6, <1>7, <1>9, Zenon DEF Table
<1> HIDE DEF table
<1>11. Rank(old.hw.seqno) \in Int /\ Rank(f.seqno) \in Int
       /\ \A id \in delivered[n] : Rank(id.seqno) \in Int
  BY <1>2, <1>3, <1>4, RankType, Zenon DEF UsedEntry, Used, Below
<1>12. \A id \in Forgetting(n, {f.orig}) :
           id \in delivered[n] /\ id.orig # f.orig
  BY Zenon DEF Forgetting
<1>13. Below(table, Forgetting(n, {f.orig}))
  BY <1>3, <1>9, <1>12, Zenon DEF Below
<1>14. \A id \in delivered[n] : id.orig = f.orig =>
           id.seqno \in Seqno /\ Rank(id.seqno) <= Rank(old.hw.seqno)
  BY <1>3, Zenon DEF Below, old
<1>15. ASSUME NEW base, f.id \notin base, Below(table, base),
              Advanced(result.adm), DeliverAndReflood(n, f, rest, base)
       PROVE  IInv'
  <2>1. /\ ~again'
        /\ delivered' = [delivered EXCEPT ![n] = base \cup {f.id}]
    BY <1>15, Zenon DEF DeliverAndReflood, IInv, AtMostOnce
  <2>2. Below(table, base \cup {f.id})
    <3>1. table[f.orig].hw.seqno = f.seqno
      BY <1>6, <1>7, <1>9, <1>15, Zenon
    <3> QED
      BY <1>1, <1>2, <1>9, <1>11, <1>15, <3>1 DEF Below, Used
  <2>3. Tables'
    BY <1>2, <1>8, <1>10, <2>1, <2>2, TablesWritten, Zenon DEF IInv
  <2>4. Frames'
    BY <1>15, RefloodNamed, Zenon DEF IInv, n
  <2> QED
    BY <2>1, <2>3, <2>4, Zenon DEF IInv, Counters, AtMostOnce
<1>16. CASE result.adm = "Advanced"
  <2>1. f.id \notin delivered[n]
    BY <1>2, <1>6, <1>11, <1>14, <1>16
  <2>2. Below(table, delivered[n])
    <3>1. table[f.orig].hw.seqno = f.seqno
      BY <1>6, <1>7, <1>9, <1>16, Zenon DEF Advanced
    <3>2. ASSUME NEW id \in delivered[n]
          PROVE  /\ id.orig \in DOMAIN table /\ id.seqno \in Seqno
                 /\ Rank(id.seqno) <= Rank(table[id.orig].hw.seqno)
      <4>1. CASE id.orig = f.orig
        BY <1>1, <1>6, <1>9, <1>11, <1>14, <1>16, <3>1, <4>1
      <4>2. CASE id.orig # f.orig
        BY <1>3, <1>9, <4>2, Zenon DEF Below
      <4> QED
        BY <4>1, <4>2, Zenon
    <3> QED
      BY <3>2, Zenon DEF Below
  <2> QED
    BY <1>1, <1>15, <1>16, <2>1, <2>2, Zenon DEF Advanced
<1>17. CASE Advanced(result.adm) /\ result.adm # "Advanced"
  BY <1>1, <1>2, <1>12, <1>13, <1>15, <1>17, Zenon
<1>18. CASE ~Advanced(result.adm)
  <2>1. Frames'
    BY <1>1, <1>18, Zenon DEF IInv, Frames
  <2>2. CASE result.adm \in Resynchronised
    <3>1. Tables'
      BY <1>1, <1>2, <1>8, <1>10, <1>13, <1>18, <2>2, TablesWritten, Zenon
         DEF IInv
    <3> QED
      BY <1>1, <1>18, <2>1, <3>1, Zenon DEF IInv, Counters, AtMostOnce
  <2>3. CASE result.adm \notin Resynchronised
    <3>1. ~HighWaterWritten(result.adm)
      BY <1>18, <2>3, Zenon DEF HighWaterWritten, Advanced
    <3>2. table[f.orig].hw.seqno = old.hw.seqno
      BY <1>6, <1>7, <1>9, <3>1, Zenon
    <3>3. Below(table, delivered[n])
      BY <1>3, <1>9, <1>14, <3>2, Zenon DEF Below
    <3>4. delivered' = [delivered EXCEPT ![n] = delivered[n]]
      BY <1>1, <1>3, <1>18, <2>3, Zenon
    <3>5. Tables'
      BY <1>2, <1>8, <1>10, <3>3, <3>4, TablesWritten, Zenon DEF IInv
    <3> QED
      BY <1>1, <1>18, <2>1, <3>5, Zenon DEF IInv, Counters, AtMostOnce
  <2> QED
    BY <2>2, <2>3, Zenon
<1> QED
  BY <1>16, <1>17, <1>18, Zenon

\* Making room takes entries away and changes none.
LEMMA RoomyResult ==
    ASSUME NEW old, Table(old), NEW table \in Roomy(old)
    PROVE  /\ Table(table) /\ DOMAIN table \subseteq DOMAIN old
           /\ \A o \in DOMAIN table : table[o] = old[o]
<1>1. CASE table = old
  BY <1>1, Zenon
<1>2. ASSUME NEW o \in DOMAIN old, table = Without(old, o)
      PROVE  /\ Table(table) /\ DOMAIN table \subseteq DOMAIN old
             /\ \A p \in DOMAIN table : table[p] = old[p]
  BY <1>2, Zenon DEF Without, Table
<1> QED
  BY <1>1, <1>2, Zenon DEF Roomy, Oldest

\* Rule 2, an originator not in the table: its history starts afresh, and
\* so does that of the one evicted for it.
LEMMA UnknownStep ==
    ASSUME IInv, NEW f \in net, NEW rest, rest \subseteq net,
           RxUnknown(f.to, f, rest), UNCHANGED <<clock, counter, sends>>
    PROVE  IInv'
<1> DEFINE n == f.to
<1>1. /\ n \in Node /\ f.id.orig = f.orig /\ f.id.seqno = f.seqno
      /\ Used(f.seqno)
  BY Zenon DEF IInv, Frames, Named
<1>2. Table(dedup[n]) /\ Below(dedup[n], delivered[n])
  BY <1>1, Zenon DEF IInv, Tables
<1> HIDE DEF n
<1>3. PICK table \in Roomy(dedup[n]) :
        /\ dedup' = [dedup EXCEPT ![n] =
                        With(table, f.orig, [hw |-> Seeded(f.seqno),
                                             lastUpdated |-> clock])]
        /\ DeliverAndReflood(n, f, rest,
               Forgetting(n, (DOMAIN dedup[n] \ DOMAIN table) \cup {f.orig}))
  BY Zenon DEF RxUnknown, n
<1> DEFINE entry == [hw |-> Seeded(f.seqno), lastUpdated |-> clock]
           new == With(table, f.orig, entry)
           base == Forgetting(n,
               (DOMAIN dedup[n] \ DOMAIN table) \cup {f.orig})
<1>4. /\ Table(table) /\ DOMAIN table \subseteq DOMAIN dedup[n]
      /\ \A o \in DOMAIN table : table[o] = dedup[n][o]
  BY <1>2, RoomyResult, Zenon
<1>5. entry.hw = Seeded(f.seqno) /\ UsedEntry(entry.hw)
      /\ entry.hw.seqno = f.seqno
  BY <1>1, SeededUsed, Zenon
<1> HIDE DEF entry
<1>6. /\ DOMAIN new = DOMAIN table \cup {f.orig} /\ new[f.orig] = entry
      /\ \A o \in DOMAIN table : o # f.orig => new[o] = dedup[n][o]
      /\ new = [o \in DOMAIN new |-> new[o]]
  BY <1>4, Zenon DEF With
<1> HIDE DEF new
<1>7. Table(new)
  BY <1>4, <1>5, <1>6, Zenon DEF Table
<1>8. \A id \in base : /\ id \in delivered[n] /\ id.orig # f.orig
                       /\ id.orig \in DOMAIN table
  BY <1>2, Zenon DEF Forgetting, Below
<1> HIDE DEF base
<1>9. Below(new, base \cup {f.id})
  <2>1. Rank(f.seqno) \in Int /\ f.seqno \in Seqno
    BY <1>1, RankType, Zenon DEF Used
  <2>2. \A id \in base : /\ new[id.orig] = dedup[n][id.orig]
                         /\ id.orig \in DOMAIN new
    BY <1>6, <1>8, Zenon
  <2>3. Below(new, base)
    BY <1>2, <1>8, <2>2, Zenon DEF Below
  <2> QED
    BY <1>1, <1>5, <1>6, <2>1, <2>3 DEF Below
<1>10. /\ ~again'
       /\ delivered' = [delivered EXCEPT ![n] = base \cup {f.id}]
  BY <1>1, <1>3, <1>8, Zenon DEF DeliverAndReflood, base, IInv, AtMostOnce
<1>11. Tables'
  BY <1>1, <1>3, <1>7, <1>9, <1>10, TablesWritten, Zenon DEF IInv, new, entry
<1>12. Frames'
  BY <1>3, RefloodNamed, Zenon DEF IInv, n
<1> QED
  BY <1>10, <1>11, <1>12, Zenon DEF IInv, Counters, AtMostOnce

LEMMA RebootStep ==
    ASSUME NoWrap, IInv, NEW n \in Node, Reboot(n)
    PROVE  IInv'
<1>1. /\ counter' = [counter EXCEPT ![n] = 0]
      /\ dedup' = [dedup EXCEPT ![n] = <<>>]
      /\ delivered' = [delivered EXCEPT ![n] = {}]
      /\ UNCHANGED <<clock, sends, net, again>>
  BY Zenon DEF Reboot
<1>2. 0 \in Seqno /\ Rank(0) <= 2 /\ Rank(0) \in Int
  BY BandsAssumption DEF Seqno, Counter, Rank
<1>3. Table(<<>>) /\ Below(<<>>, {})
  BY DEF Table, Below
<1>4. Tables'
  BY <1>1, <1>3, TablesWritten, Zenon DEF IInv
<1>5. Counters'
  <2>1. counter' \in [Node -> Seqno]
    BY <1>1, <1>2, Zenon DEF IInv, Counters
  <2>2. \A m \in Node : Rank(counter'[m]) <= sends'[m] + 2
    BY <1>1, <1>2, FloodAssumption DEF IInv, Counters
  <2> QED
    BY <1>1, <2>1, <2>2, Zenon DEF IInv, Counters
<1> QED
  BY <1>1, <1>4, <1>5, Zenon DEF IInv, Frames, AtMostOnce

LEMMA NextStep == ASSUME NoWrap, IInv, [Next]_vars PROVE IInv'
<1>1. ASSUME NEW n \in Origin, NEW fits \in BOOLEAN, Send(n, fits) PROVE IInv'
  BY <1>1, SendStep, Zenon
<1>2. ASSUME NEW f \in net, NEW dup \in BOOLEAN, Rx(f, dup) PROVE IInv'
  <2> DEFINE rest == IF dup THEN net ELSE net \ {f}
  <2>1. rest \subseteq net /\ UNCHANGED <<clock, counter, sends>>
    BY <1>2, Zenon DEF Rx
  <2>2. \/ net' = rest /\ UNCHANGED <<dedup, delivered, again>>
        \/ RxKnown(f.to, f, rest)
        \/ RxUnknown(f.to, f, rest)
    BY <1>2, Zenon DEF Rx
  <2> HIDE DEF rest
  <2>3. CASE net' = rest /\ UNCHANGED <<dedup, delivered, again>>
    BY <2>1, <2>3, Zenon DEF IInv, Counters, Frames, Tables, AtMostOnce
  <2> QED
    BY <2>1, <2>2, <2>3, KnownStep, UnknownStep, Zenon
<1>3. ASSUME NEW f \in net, Lose(f) PROVE IInv'
  BY <1>3, Zenon DEF Lose, IInv, Counters, Frames, Tables, AtMostOnce
<1>4. ASSUME NEW n \in Node, Reboot(n) PROVE IInv'
  BY <1>4, RebootStep, Zenon
<1>5. CASE Tick
  <2>1. clock' \in 0 .. MaxClock
    BY <1>5, FloodAssumption DEF Tick, IInv, Counters
  <2> QED
    BY <1>5, <2>1, Zenon DEF Tick, IInv, Counters, Frames, Tables, AtMostOnce
<1>6. CASE UNCHANGED vars
  BY <1>6, Zenon DEF vars, IInv, Counters, Frames, Tables, AtMostOnce
<1> QED
  BY <1>1, <1>2, <1>3, <1>4, <1>5, <1>6, Zenon DEF Next

\* For any mesh and traffic, and however often nodes reboot and entries are
\* evicted or rewound, no node delivers and re-floods a broadcast twice
\* while its entry for the originator stands, as long as no counter comes
\* round (`handle_broadcast`, `admit_seqno`).
THEOREM DeliveredAtMostOnce == ASSUME NoWrap PROVE Spec => []AtMostOnce
<1>1. Init => IInv
  <2> SUFFICES ASSUME Init PROVE IInv
    BY Zenon
  <2>1. PICK start \in {0, 2 * HalfSeq - 2} : counter = [n \in Node |-> start]
    BY Zenon DEF Init
  <2>2. start \in Seqno /\ Rank(start) <= 2 /\ Rank(start) \in Int
    BY BandsAssumption DEF Seqno, Counter, Rank
  <2>3. Counters
    BY <2>1, <2>2, FloodAssumption DEF Init, Counters
  <2>4. Tables
    BY DEF Init, Tables, Table, Below
  <2> QED
    BY <2>3, <2>4, Zenon DEF Init, IInv, Frames, AtMostOnce
<1>2. IInv /\ [Next]_vars => IInv'
  BY NextStep, Zenon
<1>3. IInv => AtMostOnce
  BY Zenon DEF IInv
<1> QED
  BY <1>1, <1>2, <1>3, PTL DEF Spec

-----------------------------------------------------------------------------
(* Multicast frames.                                                       *)

\* No two frames are a copy for the same listener.
Apart(A) == \A f, g \in A : f # g => Serves(f) \cap Serves(g) = {}

\* The listeners a set of frames holds copies for.
ServedBy(A) == UNION {Serves(f) : f \in A}

\* Every next hop is a neighbour.
NextHops ==
    /\ hop \in [Station -> [Station -> Station \cup {None}]]
    /\ \A n, d \in Station : hop[n][d] \in Neighbor(n) \cup {None}

\* Where the copy for d is: with its host, dropped, or under way.
Located(d, copies, lost, flying) ==
    \/ copies = 1 /\ d \notin lost /\ d \notin flying
    \/ copies = 0 /\ d \in lost /\ d \notin flying
    \/ copies = 0 /\ d \notin lost /\ d \in flying

\* The inductive invariant: beside the property, that the frames under way
\* are copies for listeners of the list only, and that next hops are
\* neighbours, so that a collapsed frame is heard by all it is meant for.
McastInv ==
    /\ NextHops
    /\ wanted \subseteq Station
    /\ wanted = {} => frames = {}
    /\ gone \subseteq wanted
    /\ ServedBy(frames) \subseteq wanted
    /\ \A f \in frames : f.to \in Station
    /\ got \in [Station -> Nat]
    /\ Apart(frames)
    /\ \A d \in wanted : Located(d, got[d], gone, ServedBy(frames))
    /\ \A n \in Station \ wanted : got[n] = 0

\* The invariant contains the property.
LEMMA McastPlaces == McastInv => OnePlace
<1> SUFFICES ASSUME McastInv PROVE OnePlace
  OBVIOUS
<1>1. \A f, g \in frames : f # g => Serves(f) \cap Serves(g) = {}
  BY Zenon DEF McastInv, Apart
<1>2. ASSUME NEW d \in wanted
      PROVE  \/ got[d] = 1 /\ d \notin gone
                  /\ ~(\E f \in frames : d \in Serves(f))
             \/ got[d] = 0 /\ d \in gone
                  /\ ~(\E f \in frames : d \in Serves(f))
             \/ got[d] = 0 /\ d \notin gone
                  /\ (\E f \in frames : d \in Serves(f))
  <2>1. Located(d, got[d], gone, ServedBy(frames))
    BY <1>2, Zenon DEF McastInv
  <2>2. d \in ServedBy(frames) <=> \E f \in frames : d \in Serves(f)
    BY Zenon DEF ServedBy
  <2> QED BY <2>1, <2>2, Zenon DEF Located
<1>3. \A n \in Station \ wanted : got[n] = 0
  BY Zenon DEF McastInv
<1> QED BY <1>1, <1>2, <1>3, Zenon DEF OnePlace

\* Of the frames A, f gives way to those of B, which are copies for some of
\* the listeners it was one for.
GivesWay(A, f, B) ==
    f \in A /\ Apart(A) /\ Apart(B) /\ ServedBy(B) \subseteq Serves(f)

\* The frames that are then under way.
Moved(A, f, B) == (A \ {f}) \cup B

\* The listeners they are copies for.
ServedAfter(A, f, B) == (ServedBy(A) \ Serves(f)) \cup ServedBy(B)

\* Frames that replace one stay apart from the others.
LEMMA ApartMoved ==
    ASSUME NEW A, NEW f \in A, NEW B,
           Apart(A), Apart(B), ServedBy(B) \subseteq Serves(f)
    PROVE  /\ Apart((A \ {f}) \cup B)
           /\ ServedBy((A \ {f}) \cup B) =
                (ServedBy(A) \ Serves(f)) \cup ServedBy(B)
<1>1. ASSUME NEW g \in A \ {f}
      PROVE  Serves(g) \cap Serves(f) = {}
  BY <1>1, Zenon DEF Apart
<1>2. ASSUME NEW g \in B
      PROVE  Serves(g) \subseteq Serves(f)
  BY <1>2, Zenon DEF ServedBy
<1>3. ASSUME NEW g \in (A \ {f}) \cup B, NEW h \in (A \ {f}) \cup B, g # h
      PROVE  Serves(g) \cap Serves(h) = {}
  <2>1. CASE g \in A \ {f} /\ h \in A \ {f}
    BY <1>3, <2>1, Zenon DEF Apart
  <2>2. CASE g \in A \ {f} /\ h \in B
    BY <1>1, <1>2, <2>2, Zenon
  <2>3. CASE g \in B /\ h \in A \ {f}
    BY <1>1, <1>2, <2>3, Zenon
  <2>4. CASE g \in B /\ h \in B
    BY <1>3, <2>4, Zenon DEF Apart
  <2> QED BY <1>3, <2>1, <2>2, <2>3, <2>4, Zenon
<1>4. ASSUME NEW d \in ServedBy((A \ {f}) \cup B)
      PROVE  d \in (ServedBy(A) \ Serves(f)) \cup ServedBy(B)
  BY <1>4, <1>1, Zenon DEF ServedBy
<1>5. ASSUME NEW d \in (ServedBy(A) \ Serves(f)) \cup ServedBy(B)
      PROVE  d \in ServedBy((A \ {f}) \cup B)
  BY <1>5, Zenon DEF ServedBy
<1> QED BY <1>3, <1>4, <1>5, Zenon DEF Apart

\* The same, about the operators above.
LEMMA ApartMove ==
    ASSUME NEW A, NEW f, NEW B, GivesWay(A, f, B)
    PROVE  /\ Apart(Moved(A, f, B))
           /\ ServedBy(Moved(A, f, B)) = ServedAfter(A, f, B)
<1>1. f \in A /\ Apart(A) /\ Apart(B) /\ ServedBy(B) \subseteq Serves(f)
  BY Zenon DEF GivesWay
<1>2. /\ Apart((A \ {f}) \cup B)
      /\ ServedBy((A \ {f}) \cup B) =
           (ServedBy(A) \ Serves(f)) \cup ServedBy(B)
  BY ONLY <1>1, ApartMoved
<1> QED BY <1>2, Zenon DEF Moved, ServedAfter

\* What a directed and a signed frame are copies for.
LEMMA ServesDirected ==
    ASSUME NEW m, NEW ttl, NEW D
    PROVE  /\ Serves(Copy(m, ttl, "Tag", D)) = D
           /\ Serves(Copy(m, ttl, "Signature", D)) = D \cap {m}
           /\ Copy(m, ttl, "Tag", D).to = m
           /\ Copy(m, ttl, "Signature", D).to = m
  BY DEF Serves, Copy

\* One directed frame for each next hop: a copy for each listener behind it.
LEMMA DirectedServes ==
    ASSUME NEW n \in Station, NEW dests, NEW hops, NEW ttl,
           \A m \in hops : Ungated(n, m)
    PROVE  /\ Apart(Directed(n, dests, hops, ttl))
           /\ ServedBy(Directed(n, dests, hops, ttl)) = Union(n, dests, hops)
           /\ \A f \in Directed(n, dests, hops, ttl) : f.to \in hops
<1>1. ASSUME NEW f \in Directed(n, dests, hops, ttl)
      PROVE  \E m \in hops : /\ f = Copy(m, ttl, "Tag", Group(n, dests, m))
                             /\ Serves(f) = Group(n, dests, m) /\ f.to = m
  <2>1. PICK m \in hops : f = Copy(m, ttl, "Tag", Group(n, dests, m))
    BY <1>1, Zenon DEF Directed
  <2>2. Serves(f) = Group(n, dests, m) /\ f.to = m
    BY <2>1, ServesDirected
  <2> QED BY <2>1, <2>2, Zenon
<1>2. ASSUME NEW m \in hops
      PROVE  /\ Copy(m, ttl, "Tag", Group(n, dests, m))
                  \in Directed(n, dests, hops, ttl)
             /\ Serves(Copy(m, ttl, "Tag", Group(n, dests, m))) =
                  Group(n, dests, m)
  <2>1. Copy(m, ttl, "Tag", Group(n, dests, m))
            \in Directed(n, dests, hops, ttl)
    BY <1>2, Zenon DEF Directed
  <2> QED BY <2>1, ServesDirected
<1>3. \A m1, m2 : m1 # m2 => Group(n, dests, m1) \cap Group(n, dests, m2) = {}
  BY Zenon DEF Group
<1>4. Apart(Directed(n, dests, hops, ttl))
  <2> SUFFICES ASSUME NEW f \in Directed(n, dests, hops, ttl),
                      NEW g \in Directed(n, dests, hops, ttl), f # g
               PROVE  Serves(f) \cap Serves(g) = {}
    BY Zenon DEF Apart
  <2>1. PICK m1 \in hops : /\ f = Copy(m1, ttl, "Tag", Group(n, dests, m1))
                           /\ Serves(f) = Group(n, dests, m1)
    BY <1>1, Zenon
  <2>2. PICK m2 \in hops : /\ g = Copy(m2, ttl, "Tag", Group(n, dests, m2))
                           /\ Serves(g) = Group(n, dests, m2)
    BY <1>1, Zenon
  <2>3. m1 # m2
    BY <2>1, <2>2, Zenon
  <2> QED BY <2>1, <2>2, <2>3, <1>3, Zenon
<1>5. ASSUME NEW d
      PROVE  d \in ServedBy(Directed(n, dests, hops, ttl))
                 <=> d \in Union(n, dests, hops)
  <2>1. ASSUME d \in ServedBy(Directed(n, dests, hops, ttl))
        PROVE  d \in Union(n, dests, hops)
    BY <2>1, <1>1, Zenon DEF ServedBy, Union
  <2>2. ASSUME d \in Union(n, dests, hops)
        PROVE  d \in ServedBy(Directed(n, dests, hops, ttl))
    <3>1. PICK m \in hops : d \in Group(n, dests, m)
      BY <2>2, Zenon DEF Union
    <3> QED BY <3>1, <1>2, Zenon DEF ServedBy
  <2> QED BY <2>1, <2>2, Zenon
<1>6. \A f \in Directed(n, dests, hops, ttl) : f.to \in hops
  BY <1>1, Zenon
<1> QED BY <1>4, <1>5, <1>6, Zenon

\* The frames of a relay's broadcasts on the media it collapsed.
Broadcasts(n, dests, taken, ttl) ==
    UNION {Signed(n, dests, M, ttl) : M \in taken}

\* The listeners that get their copy from a collapsed frame.
Merged(n, dests, taken) == UNION {Terminal(n, dests, M) : M \in taken}

\* Frames are sent to neighbours.
LEMMA HopsAreNeighbours ==
    ASSUME NextHops, NEW n \in Station, NEW dests, dests \subseteq Station
    PROVE  Hops(n, dests) \subseteq Neighbor(n)
  BY McastAssumption, Zenon DEF NextHops, Hops, Routed

\* One signed frame for each medium: a copy for each listener merged, though
\* every neighbour on the medium hears it.
LEMMA SignedServes ==
    ASSUME NextHops, NEW n \in Station, NEW dests, dests \subseteq Station,
           NEW taken, NEW ttl
    PROVE  /\ Apart(Broadcasts(n, dests, taken, ttl))
           /\ ServedBy(Broadcasts(n, dests, taken, ttl)) =
                Merged(n, dests, taken)
           /\ \A f \in Broadcasts(n, dests, taken, ttl) : f.to \in Station
<1>1. ASSUME NEW f \in Broadcasts(n, dests, taken, ttl)
      PROVE  \E m \in Neighbor(n) :
                /\ f = Copy(m, ttl, "Signature",
                     Terminal(n, dests, Medium[<<n, m>>]))
                /\ Medium[<<n, m>>] \in taken
                /\ Serves(f) = Terminal(n, dests, Medium[<<n, m>>]) \cap {m}
                /\ f.to = m
  <2>1. PICK M \in taken : f \in Signed(n, dests, M, ttl)
    BY <1>1, Zenon DEF Broadcasts
  <2>2. PICK m \in Neighbor(n) :
            /\ Medium[<<n, m>>] = M
            /\ f = Copy(m, ttl, "Signature", Terminal(n, dests, M))
    BY <2>1, Zenon DEF Signed
  <2>3. Serves(f) = Terminal(n, dests, M) \cap {m} /\ f.to = m
    BY <2>2, ServesDirected
  <2> QED BY <2>1, <2>2, <2>3, Zenon
<1>2. Apart(Broadcasts(n, dests, taken, ttl))
  <2> SUFFICES ASSUME NEW f \in Broadcasts(n, dests, taken, ttl),
                      NEW g \in Broadcasts(n, dests, taken, ttl), f # g
               PROVE  Serves(f) \cap Serves(g) = {}
    BY Zenon DEF Apart
  <2>1. PICK m1 \in Neighbor(n) :
            /\ f = Copy(m1, ttl, "Signature",
                 Terminal(n, dests, Medium[<<n, m1>>]))
            /\ Serves(f) = Terminal(n, dests, Medium[<<n, m1>>]) \cap {m1}
    BY <1>1, Zenon
  <2>2. PICK m2 \in Neighbor(n) :
            /\ g = Copy(m2, ttl, "Signature",
                 Terminal(n, dests, Medium[<<n, m2>>]))
            /\ Serves(g) = Terminal(n, dests, Medium[<<n, m2>>]) \cap {m2}
    BY <1>1, Zenon
  <2>3. m1 # m2
    BY <2>1, <2>2, Zenon
  <2> QED BY <2>1, <2>2, <2>3, Zenon
<1>3. ASSUME NEW d \in ServedBy(Broadcasts(n, dests, taken, ttl))
      PROVE  d \in Merged(n, dests, taken)
  <2>1. PICK f \in Broadcasts(n, dests, taken, ttl) : d \in Serves(f)
    BY <1>3, Zenon DEF ServedBy
  <2>2. PICK m \in Neighbor(n) :
            /\ Medium[<<n, m>>] \in taken
            /\ Serves(f) = Terminal(n, dests, Medium[<<n, m>>]) \cap {m}
    BY <1>1, Zenon
  <2>3. d \in Terminal(n, dests, Medium[<<n, m>>])
    BY <2>1, <2>2, Zenon
  <2> QED BY <2>2, <2>3, Zenon DEF Merged
<1>4. ASSUME NEW d \in Merged(n, dests, taken)
      PROVE  d \in ServedBy(Broadcasts(n, dests, taken, ttl))
  <2>1. PICK M \in taken : d \in Terminal(n, dests, M)
    BY <1>4, Zenon DEF Merged
  <2>2. d \in Neighbor(n) /\ Medium[<<n, d>>] = M
    BY <2>1, HopsAreNeighbours, Zenon DEF Terminal
  <2>3. Copy(d, ttl, "Signature", Terminal(n, dests, M))
            \in Signed(n, dests, M, ttl)
    BY <2>2, Zenon DEF Signed
  <2>4. Copy(d, ttl, "Signature", Terminal(n, dests, M))
            \in Broadcasts(n, dests, taken, ttl)
    BY <2>1, <2>3, Zenon DEF Broadcasts
  <2>5. d \in Serves(Copy(d, ttl, "Signature", Terminal(n, dests, M)))
    BY <2>1, ServesDirected
  <2> QED BY <2>4, <2>5, Zenon DEF ServedBy
<1>5. \A f \in Broadcasts(n, dests, taken, ttl) : f.to \in Station
  BY <1>1, Zenon DEF Neighbor
<1> QED BY <1>2, <1>3, <1>4, <1>5, Zenon

\* A group is sent collapsed or directed, not both.
LEMMA TerminalGroup ==
    ASSUME NEW n, NEW dests, NEW taken, NEW hops,
           hops \subseteq Hops(n, dests) \ Merged(n, dests, taken)
    PROVE  /\ Union(n, dests, hops) \cap Merged(n, dests, taken) = {}
           /\ Union(n, dests, hops) \subseteq dests \ {n}
           /\ Merged(n, dests, taken) \subseteq dests \ {n}
<1>1. ASSUME NEW d \in Merged(n, dests, taken)
      PROVE  d \in Group(n, dests, d)
  <2>1. PICK M \in taken : d \in Terminal(n, dests, M)
    BY <1>1, Zenon DEF Merged
  <2>2. Group(n, dests, d) = {d}
    BY <2>1, Zenon DEF Terminal
  <2> QED BY <2>2, Zenon
<1>2. ASSUME NEW d \in Union(n, dests, hops), d \in Merged(n, dests, taken)
      PROVE  FALSE
  <2>1. PICK m \in hops : d \in Group(n, dests, m)
    BY <1>2, Zenon DEF Union
  <2>2. m = d
    BY <2>1, <1>1, <1>2, Zenon DEF Group
  <2> QED BY <2>1, <2>2, <1>2, Zenon
<1>3. Union(n, dests, hops) \subseteq dests \ {n}
  BY Zenon DEF Union, Group, Routed
<1>4. Merged(n, dests, taken) \subseteq dests \ {n}
  BY <1>1, Zenon DEF Group, Routed
<1> QED BY <1>2, <1>3, <1>4, Zenon

\* Two sets of frames for different listeners.
LEMMA ApartUnion ==
    ASSUME NEW A, NEW B, Apart(A), Apart(B), ServedBy(A) \cap ServedBy(B) = {}
    PROVE  /\ Apart(A \cup B)
           /\ ServedBy(A \cup B) = ServedBy(A) \cup ServedBy(B)
<1>1. ASSUME NEW f \in A \cup B, NEW g \in A \cup B, f # g
      PROVE  Serves(f) \cap Serves(g) = {}
  <2>1. CASE f \in A /\ g \in A
    BY <1>1, <2>1, Zenon DEF Apart
  <2>2. CASE f \in B /\ g \in B
    BY <1>1, <2>2, Zenon DEF Apart
  <2>3. CASE f \in A /\ g \in B
    BY <2>3, Zenon DEF ServedBy
  <2>4. CASE f \in B /\ g \in A
    BY <2>4, Zenon DEF ServedBy
  <2> QED BY <1>1, <2>1, <2>2, <2>3, <2>4, Zenon
<1>2. ServedBy(A \cup B) = ServedBy(A) \cup ServedBy(B)
  BY Zenon DEF ServedBy
<1> QED BY <1>1, <1>2, Zenon DEF Apart

\* The sender splits the list by next hop.
LEMMA LocalStep ==
    ASSUME McastInv, NEW dests \in SUBSET (Station \ {source}),
           handle_local_mcast(dests)
    PROVE  McastInv'
<1>0. source \in Station
  BY McastAssumption, Zenon
<1> DEFINE hops == Hops(source, dests)
           fit == {m \in hops : Fits(source, Group(source, dests, m))}
<1>1. PICK emitted \in SUBSET fit :
        LET left == {m \in emitted : Ungated(source, m)}
        IN  /\ frames' = Directed(source, dests, left, MaxTtl)
            /\ gone' = dests \ Union(source, dests, left)
  BY Zenon DEF handle_local_mcast
<1> DEFINE left == {m \in emitted : Ungated(source, m)}
<1>2. /\ frames' = Directed(source, dests, left, MaxTtl)
      /\ gone' = dests \ Union(source, dests, left)
  BY <1>1, Zenon
<1>3. /\ wanted = {} /\ wanted' = dests /\ hop' = hop /\ got' = got
      /\ dests # {}
  BY Zenon DEF handle_local_mcast
<1>4. left \subseteq Neighbor(source)
  BY <1>0, HopsAreNeighbours, Zenon DEF McastInv
<1> HIDE DEF left, fit, hops
<1>5. \A m \in left : Ungated(source, m)
  BY Zenon DEF left
<1>6. /\ Apart(frames') /\ ServedBy(frames') = Union(source, dests, left)
      /\ \A f \in frames' : f.to \in left
  BY <1>0, <1>2, <1>5, DirectedServes, Zenon
<1>7. Union(source, dests, left) \subseteq dests
  BY Zenon DEF Union, Group, Routed
<1>8. NextHops'
  BY <1>3, Zenon DEF McastInv, NextHops
<1>9. ASSUME NEW d \in wanted'
      PROVE  Located(d, got[d], gone', ServedBy(frames'))
  <2>1. got[d] = 0
    BY <1>3, <1>9, Zenon DEF McastInv
  <2> QED BY <2>1, <1>2, <1>3, <1>6, <1>9, Zenon DEF Located
<1>10. \A n \in Station \ wanted' : got'[n] = 0
  BY <1>3, Zenon DEF McastInv
<1>11. \A f \in frames' : f.to \in Station
  BY <1>4, <1>6, Zenon DEF Neighbor
<1>12. got' \in [Station -> Nat]
  BY <1>3, Zenon DEF McastInv
<1>13. ServedBy(frames)' = ServedBy(frames') /\ Apart(frames)' = Apart(frames')
  BY Zenon DEF ServedBy, Apart
<1> QED
  BY <1>2, <1>3, <1>6, <1>7, <1>8, <1>9, <1>10, <1>11, <1>12, <1>13, Zenon
  DEF McastInv

\* A route changes while a frame is under way.
LEMMA RerouteStep ==
    ASSUME McastInv, NEW n \in Station, NEW d \in Station \ {n}, Reroute(n, d)
    PROVE  McastInv'
<1>1. UNCHANGED <<wanted, frames, got, gone>>
  BY Zenon DEF Reroute
<1>2. PICK m \in Neighbor(n) \cup {None} : hop' = [hop EXCEPT ![n][d] = m]
  BY Zenon DEF Reroute
<1>3. NextHops'
  <2>1. m \in Station \cup {None}
    BY <1>2, Zenon DEF Neighbor
  <2>2. hop' \in [Station -> [Station -> Station \cup {None}]]
    BY <1>2, <2>1 DEF McastInv, NextHops
  <2>3. ASSUME NEW k \in Station, NEW e \in Station
        PROVE  hop'[k][e] \in Neighbor(k) \cup {None}
    BY <1>2 DEF McastInv, NextHops
  <2> QED BY <2>2, <2>3, Zenon DEF NextHops
<1> QED BY <1>1, <1>3, Zenon DEF McastInv, ServedBy, Apart

\* A frame is lost.
LEMMA LoseStep ==
    ASSUME McastInv, NEW f \in frames, LoseCopy(f)
    PROVE  McastInv'
<1>1. /\ frames' = frames \ {f} /\ gone' = gone \cup Serves(f)
      /\ UNCHANGED <<hop, wanted, got>>
  BY Zenon DEF LoseCopy
<1>2. Apart({}) /\ ServedBy({}) = {}
  BY Zenon DEF Apart, ServedBy
<1>3. Apart(frames) /\ Serves(f) \subseteq ServedBy(frames)
  BY Zenon DEF McastInv, ServedBy
<1>4. (frames \ {f}) \cup {} = frames \ {f}
  BY Zenon
<1>5. Apart(frames') /\ ServedBy(frames') = ServedBy(frames) \ Serves(f)
  <2>1. GivesWay(frames, f, {})
    BY <1>2, <1>3, Zenon DEF GivesWay
  <2>2. /\ Apart(Moved(frames, f, {}))
        /\ ServedBy(Moved(frames, f, {})) = ServedAfter(frames, f, {})
    BY <2>1, ApartMove, Zenon
  <2> QED BY <1>1, <1>2, <1>4, <2>2, Zenon DEF Moved, ServedAfter
<1>6. ASSUME NEW d \in wanted
      PROVE  Located(d, got[d], gone', ServedBy(frames'))
  <2>1. Located(d, got[d], gone, ServedBy(frames))
    BY <1>6, Zenon DEF McastInv
  <2> QED BY <2>1, <1>1, <1>3, <1>5, Zenon DEF Located
<1>7. NextHops'
  BY <1>1, Zenon DEF McastInv, NextHops
<1>8. ServedBy(frames)' = ServedBy(frames') /\ Apart(frames)' = Apart(frames')
  BY Zenon DEF ServedBy, Apart
<1> QED BY <1>1, <1>3, <1>5, <1>6, <1>7, <1>8, Zenon DEF McastInv

\* A relay takes its own copy, splits the rest of the list and collapses what
\* it can; what does not fit, is refused or gated, or has no route is
\* dropped.
LEMMA McastStep ==
    ASSUME McastInv, NEW n \in Station, NEW f \in frames, handle_mcast(n, f)
    PROVE  McastInv'
<1> DEFINE whole == Cardinality(f.dests) <= MaxDests[n]
           dests == IF Relayed(f) /\ whole THEN f.dests ELSE {}
           hops == Hops(n, dests)
           ready == {M \in Media : Collapsible(n, dests, M)}
           ttl == f.ttl - 1
           kept == IF whole THEN {n} ELSE {}
<1>1. PICK taken \in SUBSET ready, refused \in SUBSET hops :
        LET merged == UNION {Terminal(n, dests, M) : M \in taken}
            left == {m \in hops \ (merged \cup refused) :
                        Fits(n, Group(n, dests, m)) /\ Ungated(n, m)}
            clean == taken = ready /\ refused = {}
        IN  /\ clean \/ upsets < MaxUpsets
            /\ upsets' = IF clean THEN upsets ELSE upsets + 1
            /\ frames' = (frames \ {f}) \cup Directed(n, dests, left, ttl)
                        \cup UNION {Signed(n, dests, M, ttl) : M \in taken}
            /\ gone' = gone \cup (Serves(f) \ (merged
                          \cup Union(n, dests, left) \cup kept))
  BY Zenon DEF handle_mcast
<1> DEFINE merged == Merged(n, dests, taken)
           left == {m \in hops \ (merged \cup refused) :
                        Fits(n, Group(n, dests, m)) /\ Ungated(n, m)}
           fresh == Directed(n, dests, left, ttl)
               \cup Broadcasts(n, dests, taken, ttl)
           served == merged \cup Union(n, dests, left)
<1>2. /\ frames' = (frames \ {f}) \cup fresh
      /\ gone' = gone \cup (Serves(f) \ (served \cup kept))
  BY <1>1, Zenon DEF Merged, Broadcasts
<1>3. f.to = n /\ UNCHANGED <<hop, wanted>>
  BY Zenon DEF handle_mcast
<1>4. got' = IF whole /\ n \in f.dests THEN [got EXCEPT ![n] = got[n] + 1]
          ELSE got
  BY Zenon DEF handle_mcast
<1>5. Serves(f) \subseteq ServedBy(frames) /\ Serves(f) \subseteq wanted
          /\ wanted \subseteq Station
  BY Zenon DEF McastInv, ServedBy
<1>6. dests \subseteq Serves(f) /\ (n \in Serves(f) <=> n \in f.dests)
  BY <1>3 DEF Serves, Relayed
<1>7. \A m \in left : Ungated(n, m)
  OBVIOUS
<1>8. left \subseteq hops \ merged
  OBVIOUS
<1> HIDE DEF left
<1>9. NextHops /\ dests \subseteq Station
  BY <1>5, <1>6, Zenon DEF McastInv
<1>10. hops \subseteq Neighbor(n)
  BY <1>9, HopsAreNeighbours
<1> HIDE DEF whole, dests, ready, ttl
<1>11. /\ merged \cap Union(n, dests, left) = {}
       /\ served \subseteq dests \ {n}
  BY <1>8, TerminalGroup, Zenon
<1> HIDE DEF hops
<1>12. Apart(fresh) /\ ServedBy(fresh) = served
  <2>1. /\ Apart(Directed(n, dests, left, ttl))
        /\ ServedBy(Directed(n, dests, left, ttl)) = Union(n, dests, left)
    BY <1>7, DirectedServes
  <2>2. /\ Apart(Broadcasts(n, dests, taken, ttl))
        /\ ServedBy(Broadcasts(n, dests, taken, ttl)) = merged
    BY <1>9, SignedServes
  <2> HIDE DEF merged
  <2> DEFINE A == Directed(n, dests, left, ttl)
             B == Broadcasts(n, dests, taken, ttl)
  <2>3. ServedBy(A) \cap ServedBy(B) = {}
    BY <2>1, <2>2, <1>11, Zenon
  <2>4. Apart(A) /\ Apart(B)
    BY <2>1, <2>2, Zenon
  <2>5. /\ Apart(A \cup B)
        /\ ServedBy(A \cup B) = ServedBy(A) \cup ServedBy(B)
    <3> HIDE DEF A, B
    <3> QED BY ONLY <2>3, <2>4, ApartUnion, Zenon
  <2>6. Union(n, dests, left) \cup merged = served
    BY DEF served
  <2> QED BY <2>1, <2>2, <2>5, <2>6, Zenon DEF fresh
<1>13. \A g \in fresh : g.to \in Station
  <2>1. \A g \in Directed(n, dests, left, ttl) : g.to \in left
    BY <1>7, DirectedServes
  <2>2. \A g \in Broadcasts(n, dests, taken, ttl) : g.to \in Station
    BY <1>9, SignedServes
  <2>3. left \subseteq Station
    BY <1>8, <1>10, Zenon DEF Neighbor
  <2> QED BY <2>1, <2>2, <2>3, Zenon
<1> HIDE DEF fresh, served
<1>14. /\ Apart(frames')
       /\ ServedBy(frames') = (ServedBy(frames) \ Serves(f)) \cup served
  <2>1. Apart(frames)
    BY Zenon DEF McastInv
  <2>2. ServedBy(fresh) \subseteq Serves(f)
    BY <1>6, <1>11, <1>12, Zenon
  <2>3. SUFFICES ASSUME NEW A, NEW B, A = frames, B = fresh
                 PROVE  /\ Apart((A \ {f}) \cup B)
                        /\ ServedBy((A \ {f}) \cup B) =
                             (ServedBy(A) \ Serves(f)) \cup ServedBy(B)
    BY <1>2, <1>12, Zenon
  <2>4. GivesWay(A, f, B)
    BY <1>12, <2>1, <2>2, <2>3, Zenon DEF GivesWay
  <2>5. /\ Apart(Moved(A, f, B))
        /\ ServedBy(Moved(A, f, B)) = ServedAfter(A, f, B)
    BY <2>4, ApartMove, Zenon
  <2> QED BY <2>5, Zenon DEF Moved, ServedAfter
<1>15. ASSUME NEW d \in wanted
       PROVE  Located(d, got'[d], gone', ServedBy(frames'))
  <2>1. Located(d, got[d], gone, ServedBy(frames))
    BY <1>15, Zenon DEF McastInv
  <2>2. d \in Station /\ got \in [Station -> Nat]
    BY <1>5, Zenon DEF McastInv
  <2>3. CASE d \in Serves(f)
    <3>1. got[d] = 0 /\ d \notin gone
      BY <1>5, <2>1, <2>3, Zenon DEF Located
    <3>2. CASE d = n /\ whole
      <4>1. got'[d] = 1
        BY <1>4, <1>6, <2>2, <2>3, <3>1, <3>2
      <4>2. d \notin gone'
        BY <1>2, <3>1, <3>2, Zenon
      <4>3. d \notin ServedBy(frames')
        BY <1>11, <1>14, <2>3, <3>2, Zenon
      <4> QED BY <4>1, <4>2, <4>3, Zenon DEF Located
    <3>3. CASE ~(d = n /\ whole)
      <4>1. got'[d] = 0
        BY <1>4, <2>2, <3>1, <3>3
      <4>2. d \notin kept
        BY <3>3
      <4> HIDE DEF kept
      <4>3. d \in gone' <=> d \notin served
        BY <1>2, <2>3, <3>1, <4>2, Zenon
      <4>4. d \in ServedBy(frames') <=> d \in served
        BY <1>14, <2>3, Zenon
      <4> QED BY <4>1, <4>3, <4>4, Zenon DEF Located
    <3> QED BY <3>2, <3>3, Zenon
  <2>4. CASE d \notin Serves(f)
    <3>1. got'[d] = got[d]
      BY <1>4, <1>6, <2>2, <2>4
    <3>2. d \in gone' <=> d \in gone
      BY <1>2, <2>4, Zenon
    <3>3. d \in ServedBy(frames') <=> d \in ServedBy(frames)
      BY <1>6, <1>11, <1>14, <2>4, Zenon
    <3> QED BY <2>1, <3>1, <3>2, <3>3, Zenon DEF Located
  <2> QED BY <2>3, <2>4, Zenon
<1>16. ASSUME NEW k \in Station \ wanted
       PROVE  got'[k] = 0
  <2>1. got[k] = 0 /\ got \in [Station -> Nat]
    BY <1>16, Zenon DEF McastInv
  <2>2. ~(k = n /\ n \in f.dests)
    BY <1>5, <1>6, <1>16, Zenon
  <2> QED BY <1>4, <2>1, <2>2
<1>17. got' \in [Station -> Nat]
  BY <1>4 DEF McastInv
<1>18. NextHops'
  BY <1>3, Zenon DEF McastInv, NextHops
<1>19. ServedBy(frames)' = ServedBy(frames') /\ Apart(frames)' = Apart(frames')
  BY Zenon DEF ServedBy, Apart
<1>20. gone' \subseteq wanted /\ ServedBy(frames') \subseteq wanted
  BY <1>2, <1>5, <1>6, <1>11, <1>14, Zenon DEF McastInv
<1>21. wanted # {}
  BY Zenon DEF McastInv
<1>22. \A g \in frames' : g.to \in Station
  BY <1>2, <1>13, Zenon DEF McastInv
<1> QED
  BY <1>3, <1>5, <1>14, <1>15, <1>16, <1>17, <1>18, <1>19, <1>20, <1>21, <1>22,
     Zenon
  DEF McastInv

\* Nothing sent yet satisfies the invariant.
LEMMA McastInitKeeps == McastInit => McastInv
<1> SUFFICES ASSUME McastInit PROVE McastInv
  OBVIOUS
<1>1. NextHops
  BY McastAssumption, Zenon DEF McastInit, NextHops
<1>2. got \in [Station -> Nat] /\ \A n \in Station : got[n] = 0
  BY DEF McastInit
<1> QED BY <1>1, <1>2, Zenon DEF McastInit, McastInv, ServedBy, Apart

\* Every step keeps the invariant.
LEMMA McastStepKeeps == McastInv /\ [McastNext]_mcastVars => McastInv'
<1> SUFFICES ASSUME McastInv, [McastNext]_mcastVars PROVE McastInv'
  OBVIOUS
<1>1. ASSUME NEW dests \in SUBSET (Station \ {source}),
                 handle_local_mcast(dests)
      PROVE  McastInv'
  BY <1>1, LocalStep
<1>2. ASSUME NEW n \in Station, NEW f \in frames, handle_mcast(n, f)
      PROVE  McastInv'
  BY <1>2, McastStep
<1>3. ASSUME NEW f \in frames, LoseCopy(f)
      PROVE  McastInv'
  BY <1>3, LoseStep
<1>4. ASSUME NEW n \in Station, NEW d \in Station \ {n}, Reroute(n, d)
      PROVE  McastInv'
  BY <1>4, RerouteStep
<1>5. CASE UNCHANGED mcastVars
  BY <1>5, Zenon DEF mcastVars, McastInv, NextHops, ServedBy, Apart
<1> QED BY <1>1, <1>2, <1>3, <1>4, <1>5, Zenon DEF McastNext

\* For any mesh, media, thresholds and list: the copy owed to a listener is
\* in one place, handed up, dropped or in one frame under way, so that none
\* is handed up twice or by a node that is not a listener
\* (`handle_local_mcast`, `handle_mcast`, `flush_mcast_groups`).
THEOREM McastOnePlace == McastSpec => []OnePlace
<1>1. McastSpec => []McastInv
  BY McastInitKeeps, McastStepKeeps, PTL DEF McastSpec
<1> QED BY <1>1, McastPlaces, PTL

-----------------------------------------------------------------------------
(* The link to a LoRa module.                                              *)

\* A line of the module that is a packet.
IsPacket(lines, i) == i \in DOMAIN lines /\ lines[i].kind = "rcv"

\* The packets of `lines` are in order and are among the ones after `low`
\* that have come.
LinesInOrder(lines, low, come) ==
    \A i : IsPacket(lines, i) =>
        /\ lines[i].n \in Nat /\ low < lines[i].n /\ lines[i].n <= come
        /\ \A j : IsPacket(lines, j) /\ j < i => lines[j].n < lines[i].n

\* The packets in the queue are newer than `low` and ascend.
QueueInOrder(queue, low, come) ==
    \A i \in DOMAIN queue :
        /\ queue[i] \in Nat /\ low < queue[i] /\ queue[i] <= come
        /\ \A j \in DOMAIN queue : j < i => queue[j] < queue[i]

\* The packets in the queue are older than those still on the line.
QueueFirst(queue, lines) ==
    \A i : IsPacket(lines, i) => \A j \in DOMAIN queue : queue[j] < lines[i].n

\* What is queued and still to be read has come, and is in order.
RadioInv ==
    /\ uart \in Seq(Line) /\ rx_queue \in Seq(Nat) /\ commands \in Seq(BOOLEAN)
    /\ arrived \in 0 .. MaxPackets /\ handed \in 0 .. arrived
    /\ LinesInOrder(uart, handed, arrived)
    /\ QueueInOrder(rx_queue, handed, arrived)
    /\ QueueFirst(rx_queue, uart)

\* The invariant contains the property.
LEMMA InOrder == RadioInv => HandedUpInOrder
<1> SUFFICES ASSUME RadioInv PROVE HandedUpInOrder
  OBVIOUS
<1>1. \A i \in DOMAIN rx_queue : i \in Nat
          /\ \A j \in 1 .. i - 1 : j \in DOMAIN rx_queue
  BY DEF RadioInv
<1>2. \A i \in DOMAIN uart : i \in Nat
          /\ \A j \in 1 .. i - 1 : j \in DOMAIN uart
  BY DEF RadioInv
<1>3. \A i \in DOMAIN rx_queue : /\ handed < rx_queue[i]
                                 /\ \A j \in 1 .. i - 1 :
                                      rx_queue[j] < rx_queue[i]
  BY <1>1 DEF RadioInv, QueueInOrder
<1>4. ASSUME NEW i \in DOMAIN uart, uart[i].kind = "rcv"
      PROVE  /\ handed < uart[i].n
             /\ \A j \in DOMAIN rx_queue : rx_queue[j] < uart[i].n
             /\ \A j \in 1 .. i - 1 : uart[j].kind = "rcv" =>
                  uart[j].n < uart[i].n
  <2>1. IsPacket(uart, i)
    BY <1>4 DEF IsPacket
  <2>2. ASSUME NEW j \in 1 .. i - 1, uart[j].kind = "rcv"
        PROVE  IsPacket(uart, j) /\ j < i
    BY <1>2, <2>2 DEF IsPacket
  <2> QED BY <2>1, <2>2, Zenon DEF RadioInv, LinesInOrder, QueueFirst
<1> QED BY <1>3, <1>4, Zenon DEF HandedUpInOrder

\* The lines of a module.
LEMMA LineFacts ==
    ASSUME NEW line \in Line
    PROVE  /\ line.kind = "rcv" => line.n \in Nat
           /\ IsAnswer(line) => /\ [line EXCEPT !.own = FALSE] \in Line
                                /\ [line EXCEPT !.own = FALSE].kind = line.kind
<1>1. line.kind = "rcv" => line.n \in Nat
  BY RadioAssumption DEF Line
<1>2. ASSUME IsAnswer(line)
      PROVE  /\ [line EXCEPT !.own = FALSE] \in Line
             /\ [line EXCEPT !.own = FALSE].kind = line.kind
  <2>1. line \in [kind : {"+OK", "+ERR"}, own : BOOLEAN]
    BY <1>2 DEF Line, IsAnswer
  <2>2. PICK kind \in {"+OK", "+ERR"}, own \in BOOLEAN :
            line = [kind |-> kind, own |-> own]
    BY <2>1
  <2>3. \A v : [line EXCEPT !.own = v] = [kind |-> kind, own |-> v]
    BY <2>2
  <2>4. [kind |-> kind, own |-> FALSE] \in Line
    BY <2>2, Zenon DEF Line
  <2>5. [line EXCEPT !.own = FALSE].kind = kind /\ line.kind = kind
    BY <2>2, <2>3
  <2> QED BY <2>3, <2>4, <2>5, Zenon
<1> QED BY <1>1, <1>2

\* Lines dropped, or changed otherwise than in their packets, keep the order.
LEMMA FewerLines ==
    ASSUME NEW lines, NEW low, NEW come, LinesInOrder(lines, low, come),
           NEW rest, NEW d \in {0, 1}, DOMAIN rest \subseteq Nat,
           \A i : IsPacket(rest, i) =>
               IsPacket(lines, i + d) /\ rest[i].n = lines[i + d].n
    PROVE  LinesInOrder(rest, low, come)
<1> SUFFICES ASSUME NEW i, IsPacket(rest, i)
             PROVE  /\ rest[i].n \in Nat /\ low < rest[i].n
                         /\ rest[i].n <= come
                    /\ \A j : IsPacket(rest, j) /\ j < i =>
                         rest[j].n < rest[i].n
  BY DEF LinesInOrder
<1>1. IsPacket(lines, i + d) /\ rest[i].n = lines[i + d].n
  OBVIOUS
<1>2. lines[i + d].n \in Nat /\ low < lines[i + d].n /\ lines[i + d].n <= come
  BY <1>1, Zenon DEF LinesInOrder
<1>3. ASSUME NEW j, IsPacket(rest, j), j < i
      PROVE  rest[j].n < rest[i].n
  <2>1. IsPacket(lines, j + d) /\ rest[j].n = lines[j + d].n
    BY <1>3
  <2>2. i \in Nat /\ j \in Nat
    BY <1>3, Zenon DEF IsPacket
  <2>3. j + d < i + d
    BY <1>3, <2>2
  <2> QED BY <1>1, <2>1, <2>3, Zenon DEF LinesInOrder
<1> QED BY <1>1, <1>2, <1>3, Zenon

\* Lines that are taken off the line leave the queue older than the rest.
LEMMA FewerAfterQueue ==
    ASSUME NEW lines, NEW queue, QueueFirst(queue, lines), NEW rest,
               NEW d \in {0, 1},
           \A i : IsPacket(rest, i) =>
               IsPacket(lines, i + d) /\ rest[i].n = lines[i + d].n
    PROVE  QueueFirst(queue, rest)
  BY Zenon DEF QueueFirst

\* Lines read or lost, the queue kept or dropped, nothing handed up.
LEMMA Shrinks ==
    ASSUME RadioInv, NEW d \in {0, 1}, uart' \in Seq(Line),
           commands' \in Seq(BOOLEAN), rx_queue' \in {rx_queue, <<>>},
           \A i : IsPacket(uart', i) =>
               IsPacket(uart, i + d) /\ uart'[i].n = uart[i + d].n,
           UNCHANGED <<handed, arrived>>
    PROVE  RadioInv'
<1>1. DOMAIN uart' \subseteq Nat
  OBVIOUS
<1>2. LinesInOrder(uart', handed, arrived)
  BY <1>1, FewerLines, Zenon DEF RadioInv
<1>3. QueueFirst(rx_queue, uart')
  BY FewerAfterQueue, Zenon DEF RadioInv
<1>4. /\ rx_queue' \in Seq(Nat) /\ QueueInOrder(rx_queue', handed, arrived)
      /\ QueueFirst(rx_queue', uart')
  <2>1. CASE rx_queue' = rx_queue
    BY <1>3, <2>1, Zenon DEF RadioInv
  <2>2. CASE rx_queue' = <<>>
    BY <2>2 DEF QueueInOrder, QueueFirst
  <2> QED BY <2>1, <2>2
<1> QED BY <1>2, <1>4, Zenon DEF RadioInv

\* The same, with the lines kept or all lost.
LEMMA KeptOrLost ==
    ASSUME RadioInv, uart' \in {uart, <<>>}, commands' \in Seq(BOOLEAN),
           rx_queue' \in {rx_queue, <<>>}, UNCHANGED <<handed, arrived>>
    PROVE  RadioInv'
<1>1. uart' \in Seq(Line)
  <2>1. <<>> \in Seq(Line) /\ uart \in Seq(Line)
    BY DEF RadioInv
  <2> QED BY <2>1, Zenon
<1>2. \A i : IsPacket(uart', i) =>
          IsPacket(uart, i + 0) /\ uart'[i].n = uart[i + 0].n
  BY DEF IsPacket, RadioInv
<1> QED BY <1>1, <1>2, Shrinks

\* A command sent to the module.
LEMMA CommandGiven ==
    ASSUME RadioInv, Command \/ UNCHANGED commands
    PROVE  commands' \in Seq(BOOLEAN)
<1>1. commands \in Seq(BOOLEAN) /\ TRUE \in BOOLEAN
  BY Zenon DEF RadioInv
<1>2. commands' \in {commands, Append(commands, TRUE)}
  BY Zenon DEF Command
<1> QED BY <1>1, <1>2, AppendProperties, Zenon

\* A link not yet used satisfies the invariant.
LEMMA RadioStart == RadioInit => RadioInv
  BY RadioAssumption
  DEF RadioInit, RadioInv, LinesInOrder, QueueInOrder, QueueFirst, IsPacket

\* The module reports a packet.
LEMMA ArriveKeeps == ASSUME RadioInv, Arrive PROVE RadioInv'
<1>1. PICK line \in {[kind |-> "rcv", n |-> arrived'], [kind |-> "bad"]} :
          uart' = Append(uart, line)
  BY DEF Arrive
<1>2. /\ arrived' = arrived + 1 /\ arrived < MaxPackets
      /\ UNCHANGED <<rx_queue, handed, commands>>
  BY DEF Arrive
<1>3. line \in Line /\ (line.kind = "rcv" => line.n = arrived + 1)
  BY <1>1, <1>2, RadioAssumption DEF Line, RadioInv
<1>4. /\ uart \in Seq(Line) /\ Len(uart') = Len(uart) + 1
           /\ uart' \in Seq(Line)
      /\ uart'[Len(uart) + 1] = line
      /\ \A i \in 1 .. Len(uart) : uart'[i] = uart[i]
  BY <1>1, <1>3 DEF RadioInv
<1>5. arrived \in Nat /\ handed \in Nat /\ handed <= arrived
      /\ arrived' \in 0 .. MaxPackets /\ handed' \in 0 .. arrived'
  BY <1>2, RadioAssumption DEF RadioInv
<1>6. \A i : IsPacket(uart', i) =>
         \/ IsPacket(uart, i) /\ uart'[i] = uart[i] /\ i <= Len(uart)
         \/ i = Len(uart) + 1 /\ uart'[i].n = arrived + 1
  BY <1>3, <1>4 DEF IsPacket
<1>7. LinesInOrder(uart', handed, arrived + 1)
  <2> SUFFICES ASSUME NEW i, IsPacket(uart', i)
               PROVE  /\ uart'[i].n \in Nat /\ handed < uart'[i].n
                      /\ uart'[i].n <= arrived + 1
                      /\ \A j : IsPacket(uart', j) /\ j < i =>
                           uart'[j].n < uart'[i].n
    BY DEF LinesInOrder
  <2>1. \A j : IsPacket(uart, j) => /\ uart[j].n \in Nat /\ handed < uart[j].n
                                    /\ uart[j].n <= arrived
                                    /\ \A k : IsPacket(uart, k) /\ k < j
                                                 => uart[k].n < uart[j].n
    BY Zenon DEF RadioInv, LinesInOrder
  <2>2. \A j : IsPacket(uart', j) => j \in Nat
    BY <1>4 DEF IsPacket
  <2>3. CASE IsPacket(uart, i) /\ uart'[i] = uart[i] /\ i <= Len(uart)
    <3>1. \A j : IsPacket(uart', j) /\ j < i =>
              IsPacket(uart, j) /\ uart'[j] = uart[j]
      BY <1>4, <1>6, <2>2, <2>3
    <3> QED BY <1>5, <2>1, <2>3, <3>1
  <2>4. CASE i = Len(uart) + 1 /\ uart'[i].n = arrived + 1
    <3>1. \A j : IsPacket(uart', j) /\ j < i =>
              IsPacket(uart, j) /\ uart'[j] = uart[j]
      BY <1>4, <1>6, <2>2, <2>4
    <3> QED BY <1>5, <2>1, <2>4, <3>1
  <2> QED BY <1>6, <2>3, <2>4, Zenon
<1>8. QueueInOrder(rx_queue, handed, arrived + 1)
  BY <1>5 DEF RadioInv, QueueInOrder
<1>9. QueueFirst(rx_queue, uart')
  <2>1. \A j \in DOMAIN rx_queue : rx_queue[j] \in Nat
            /\ rx_queue[j] <= arrived
    BY Zenon DEF RadioInv, QueueInOrder
  <2>2. \A i : IsPacket(uart, i) =>
            \A j \in DOMAIN rx_queue : rx_queue[j] < uart[i].n
    BY Zenon DEF RadioInv, QueueFirst
  <2> QED BY <1>5, <1>6, <2>1, <2>2 DEF QueueFirst
<1>10. rx_queue' \in Seq(Nat) /\ commands' \in Seq(BOOLEAN)
  BY <1>2, Zenon DEF RadioInv
<1> QED BY <1>2, <1>4, <1>5, <1>7, <1>8, <1>9, <1>10, Zenon DEF RadioInv

\* The module answers a command.
LEMMA AnswerKeeps == ASSUME RadioInv, Answer PROVE RadioInv'
<1>1. commands \in Seq(BOOLEAN) /\ commands # <<>> /\ uart \in Seq(Line)
      /\ UNCHANGED <<rx_queue, handed, arrived>> /\ commands' = Tail(commands)
  BY DEF Answer, RadioInv
<1>2. Head(commands) \in BOOLEAN /\ commands' \in Seq(BOOLEAN)
  BY <1>1, HeadTailProperties, Zenon
<1>3. PICK kind \in {"+OK", "+ERR"} :
          uart' = Append(uart, [kind |-> kind, own |-> Head(commands)])
  BY Zenon DEF Answer
<1>4. PICK line \in Line : uart' = Append(uart, line) /\ line.kind # "rcv"
  <2>1. [kind |-> kind, own |-> Head(commands)] \in Line
    BY <1>2, <1>3, Zenon DEF Line
  <2>2. [kind |-> kind, own |-> Head(commands)].kind # "rcv"
    BY <1>3
  <2> QED BY <1>3, <2>1, <2>2, Zenon
<1>5. /\ Len(uart') = Len(uart) + 1 /\ uart' \in Seq(Line)
      /\ uart'[Len(uart) + 1] = line
      /\ \A i \in 1 .. Len(uart) : uart'[i] = uart[i]
  BY <1>1, <1>4
<1>6. \A i : IsPacket(uart', i) =>
          IsPacket(uart, i + 0) /\ uart'[i].n = uart[i + 0].n
  BY <1>1, <1>4, <1>5 DEF IsPacket
<1> QED BY <1>1, <1>2, <1>5, <1>6, Shrinks

\* The module is unplugged: what it had not sent is gone.
LEMMA UnplugKeeps == ASSUME RadioInv, Unplug PROVE RadioInv'
<1>1. commands' = <<>> /\ uart' = <<>>
          /\ UNCHANGED <<rx_queue, handed, arrived>>
  BY DEF Unplug
<1>2. commands' \in Seq(BOOLEAN)
  BY <1>1
<1> QED BY <1>1, <1>2, KeptOrLost

\* The driver waits for a packet, or begins to send.
LEMMA AwaitKeeps == ASSUME RadioInv, NEW op, Await(op) PROVE RadioInv'
<1>1. UNCHANGED <<handed, arrived>>
  BY Zenon DEF Await
<1>2. /\ uart' \in {uart, <<>>} /\ rx_queue' \in {rx_queue, <<>>}
      /\ Command \/ UNCHANGED commands \/ commands' = Append(commands, TRUE)
  <2>1. CASE inner /\ ~broken
    BY <2>1, Zenon DEF Await, Begin
  <2>2. CASE ~(inner /\ ~broken)
    BY <2>2, Zenon DEF Await, Open, OpenFails
  <2> QED BY <2>1, <2>2, Zenon
<1>3. commands' \in Seq(BOOLEAN)
  <2>1. commands \in Seq(BOOLEAN) /\ TRUE \in BOOLEAN
    BY Zenon DEF RadioInv
  <2> QED BY <1>2, <2>1, CommandGiven, AppendProperties, Zenon
<1> QED BY <1>1, <1>2, <1>3, KeptOrLost

\* The line read is dropped, or is an answer.
LEMMA ReadAside ==
    ASSUME RadioInv, uart # <<>>, uart' = Tail(uart),
               commands' \in Seq(BOOLEAN),
           rx_queue' \in {rx_queue, <<>>}, UNCHANGED <<handed, arrived>>
    PROVE  RadioInv'
<1>1. uart \in Seq(Line)
  BY DEF RadioInv
<1>2. /\ uart' \in Seq(Line) /\ Len(uart') = Len(uart) - 1
      /\ \A i \in 1 .. Len(uart') : uart'[i] = uart[i + 1]
  BY <1>1
<1>3. \A i : IsPacket(uart', i) =>
          IsPacket(uart, i + 1) /\ uart'[i].n = uart[i + 1].n
  BY <1>1, <1>2 DEF IsPacket
<1>4. 1 \in {0, 1}
  OBVIOUS
<1> QED BY <1>2, <1>3, <1>4, Shrinks, Zenon

\* A packet that came while a command is awaited joins the queue, whose
\* oldest makes room.
LEMMA PacketQueued ==
    ASSUME RadioInv, uart # <<>>, Head(uart).kind = "rcv", uart' = Tail(uart),
           rx_queue' = Queued(Head(uart).n),
               UNCHANGED <<handed, arrived, commands>>
    PROVE  RadioInv'
<1>1. uart \in Seq(Line) /\ IsPacket(uart, 1) /\ Head(uart) = uart[1]
  BY DEF RadioInv, IsPacket
<1>2. /\ uart' \in Seq(Line) /\ Len(uart') = Len(uart) - 1
      /\ \A i \in 1 .. Len(uart') : uart'[i] = uart[i + 1]
  BY <1>1
<1>3. \A i : IsPacket(uart', i) =>
          IsPacket(uart, i + 1) /\ uart'[i].n = uart[i + 1].n
              /\ i \in Nat \ {0}
  BY <1>1, <1>2 DEF IsPacket
<1>4. LinesInOrder(uart', handed, arrived)
  <2>1. DOMAIN uart' \subseteq Nat
    BY <1>2
  <2> QED BY <1>3, <2>1, FewerLines, Zenon DEF RadioInv
<1> DEFINE n == uart[1].n
           kept == IF Len(rx_queue) = RX_QUEUE_DEPTH THEN Tail(rx_queue)
               ELSE rx_queue
           d == IF Len(rx_queue) = RX_QUEUE_DEPTH THEN 1 ELSE 0
<1>5. n \in Nat /\ handed < n /\ n <= arrived
  BY <1>1, Zenon DEF RadioInv, LinesInOrder
<1>6. \A i : IsPacket(uart', i) => n < uart'[i].n
  <2>1. ASSUME NEW i, IsPacket(uart', i) PROVE n < uart[i + 1].n
    <3>1. IsPacket(uart, i + 1) /\ 1 < i + 1
      BY <1>3, <2>1
    <3> QED BY <1>1, <3>1, Zenon DEF RadioInv, LinesInOrder
  <2> QED BY <1>3, <2>1, Zenon
<1> HIDE DEF n
<1>7. /\ kept \in Seq(Nat) /\ d \in {0, 1}
      /\ \A i \in DOMAIN kept : i \in Nat /\ i + d \in DOMAIN rx_queue
                                    /\ kept[i] = rx_queue[i + d]
  <2>1. rx_queue \in Seq(Nat)
    BY DEF RadioInv
  <2>2. CASE Len(rx_queue) = RX_QUEUE_DEPTH
    <3>1. rx_queue # <<>> /\ kept = Tail(rx_queue) /\ d = 1
      BY <2>2, RadioAssumption
    <3>2. /\ kept \in Seq(Nat) /\ Len(kept) = Len(rx_queue) - 1
          /\ \A i \in 1 .. Len(kept) : kept[i] = rx_queue[i + 1]
      BY <2>1, <3>1
    <3> HIDE DEF kept, d
    <3> QED BY <2>1, <3>1, <3>2
  <2>3. CASE Len(rx_queue) # RX_QUEUE_DEPTH
    BY <2>1, <2>3
  <2> QED BY <2>2, <2>3
<1> HIDE DEF d, kept
<1>8. \A i \in DOMAIN kept : /\ kept[i] \in Nat /\ handed < kept[i]
                             /\ kept[i] < n
                             /\ \A j \in DOMAIN kept : j < i =>
                                  kept[j] < kept[i]
  <2> TAKE i \in DOMAIN kept
  <2>1. /\ rx_queue[i + d] \in Nat /\ handed < rx_queue[i + d]
        /\ \A j \in DOMAIN rx_queue : j < i + d =>
             rx_queue[j] < rx_queue[i + d]
    BY <1>7, Zenon DEF RadioInv, QueueInOrder
  <2>2. rx_queue[i + d] < n
    BY <1>1, <1>7, Zenon DEF RadioInv, QueueFirst, n
  <2>3. \A j \in DOMAIN kept : j < i =>
            j + d \in DOMAIN rx_queue /\ j + d < i + d
                                            /\ kept[j] = rx_queue[j + d]
    BY <1>7
  <2> QED BY <1>7, <2>1, <2>2, <2>3, Zenon
<1>9. rx_queue' = Append(kept, n)
  BY <1>1, Zenon DEF Queued, n, kept
<1>10. /\ rx_queue' \in Seq(Nat) /\ Len(rx_queue') = Len(kept) + 1
       /\ rx_queue'[Len(kept) + 1] = n
       /\ \A i \in 1 .. Len(kept) : rx_queue'[i] = kept[i]
  <2>1. kept \in Seq(Nat) /\ n \in Nat
    BY <1>5, <1>7
  <2>2. /\ Append(kept, n) \in Seq(Nat) /\ Len(Append(kept, n)) = Len(kept) + 1
        /\ Append(kept, n)[Len(kept) + 1] = n
        /\ \A i \in 1 .. Len(kept) : Append(kept, n)[i] = kept[i]
    BY <2>1, AppendProperties
  <2> QED BY <1>9, <2>2, Zenon
<1>11. ASSUME NEW i \in DOMAIN rx_queue'
       PROVE  \/ i \in DOMAIN kept /\ rx_queue'[i] = kept[i]
              \/ rx_queue'[i] = n /\ i = Len(kept) + 1
  <2>1. /\ DOMAIN kept = 1 .. Len(kept) /\ Len(kept) \in Nat
        /\ DOMAIN rx_queue' = 1 .. Len(rx_queue')
    BY <1>7, <1>10
  <2>2. i \in 1 .. Len(kept) \/ i = Len(kept) + 1
    BY <1>10, <2>1
  <2> QED BY <1>10, <2>1, <2>2, Zenon
<1>12. QueueInOrder(rx_queue', handed, arrived)
  <2> SUFFICES ASSUME NEW i \in DOMAIN rx_queue'
               PROVE  /\ rx_queue'[i] \in Nat /\ handed < rx_queue'[i]
                      /\ rx_queue'[i] <= arrived
                      /\ \A j \in DOMAIN rx_queue' : j < i
                            => rx_queue'[j] < rx_queue'[i]
    BY DEF QueueInOrder
  <2>1. arrived \in Nat /\ handed \in Nat
    BY DEF RadioInv
  <2>2. \A j \in DOMAIN kept : j <= Len(kept) /\ j \in Nat
    BY <1>7
  <2>3. Len(kept) \in Nat
    BY <1>7
  <2>4. CASE rx_queue'[i] = n /\ i = Len(kept) + 1
    <3>1. \A j \in DOMAIN rx_queue' : j < i => rx_queue'[j] < n
      BY <1>8, <1>11, <2>3, <2>4
    <3> QED BY <1>5, <2>4, <3>1
  <2>5. CASE i \in DOMAIN kept /\ rx_queue'[i] = kept[i]
    <3>1. kept[i] \in Nat /\ handed < kept[i] /\ kept[i] < n
      BY <1>8, <2>5
    <3>2. \A j \in DOMAIN rx_queue' : j < i =>
              j \in DOMAIN kept /\ rx_queue'[j] = kept[j]
      BY <1>11, <2>2, <2>3, <2>5
    <3>3. \A j \in DOMAIN rx_queue' : j < i => rx_queue'[j] < kept[i]
      BY <1>8, <2>5, <3>2, Zenon
    <3> QED BY <1>5, <2>1, <2>5, <3>1, <3>3
  <2> QED BY <1>11, <2>4, <2>5
<1>13. QueueFirst(rx_queue', uart')
  <2> SUFFICES ASSUME NEW i, IsPacket(uart', i), NEW j \in DOMAIN rx_queue'
               PROVE  rx_queue'[j] < uart'[i].n
    BY Zenon DEF QueueFirst
  <2>1. n < uart'[i].n
    BY <1>6, Zenon
  <2>2. uart'[i].n \in Nat
    BY <1>4, Zenon DEF LinesInOrder
  <2>3. rx_queue'[j] = n \/ (rx_queue'[j] \in Nat /\ rx_queue'[j] < n)
    BY <1>8, <1>11
  <2> HIDE DEF QueueFirst
  <2> QED BY ONLY <1>5, <2>1, <2>2, <2>3
<1> QED BY <1>2, <1>4, <1>10, <1>12, <1>13, Zenon DEF RadioInv

\* Answers nobody waits for stay on the line.
LEMMA DisownedLines ==
    ASSUME NEW lines \in Seq(Line)
    PROVE  /\ Disowned(lines) \in Seq(Line)
                /\ Len(Disowned(lines)) = Len(lines)
           /\ \A i : IsPacket(Disowned(lines), i) =>
                  IsPacket(lines, i) /\ Disowned(lines)[i].n = lines[i].n
<1> DEFINE rest == Disowned(lines)
<1>1. \A i \in 1 .. Len(lines) :
          rest[i] = IF IsAnswer(lines[i]) THEN [lines[i] EXCEPT !.own = FALSE]
                    ELSE lines[i]
  <2>1. DOMAIN lines = 1 .. Len(lines)
    OBVIOUS
  <2> QED BY <2>1, Zenon DEF Disowned
<1>2. /\ Len(lines) \in Nat /\ DOMAIN rest = 1 .. Len(lines)
      /\ rest = [i \in 1 .. Len(lines) |-> rest[i]]
  BY DEF Disowned
<1>3. \A i \in 1 .. Len(lines) : lines[i] \in Line
  OBVIOUS
<1> HIDE DEF rest
<1>4. ASSUME NEW i \in 1 .. Len(lines)
      PROVE  rest[i] \in Line /\ (rest[i].kind = "rcv" => rest[i] = lines[i])
  <2>1. CASE IsAnswer(lines[i])
    <3>1. rest[i] \in Line /\ rest[i].kind = lines[i].kind
      BY <1>1, <1>3, <2>1, LineFacts, Zenon
    <3>2. lines[i].kind # "rcv"
      BY <2>1 DEF IsAnswer
    <3> QED BY <3>1, <3>2
  <2>2. CASE ~IsAnswer(lines[i])
    BY <1>1, <1>3, <2>2, Zenon
  <2> QED BY <2>1, <2>2
<1>5. rest \in Seq(Line) /\ Len(rest) = Len(lines)
  BY <1>2, <1>4
<1>6. \A i : IsPacket(rest, i) => IsPacket(lines, i) /\ rest[i].n = lines[i].n
  BY <1>2, <1>4 DEF IsPacket
<1> QED BY <1>5, <1>6 DEF rest

\* A command is given up: the module still owes it an answer.
LEMMA CommandsDisowned ==
    ASSUME commands \in Seq(BOOLEAN)
    PROVE  [i \in DOMAIN commands |-> FALSE] \in Seq(BOOLEAN)
<1>1. DOMAIN commands = 1 .. Len(commands) /\ Len(commands) \in Nat
  OBVIOUS
<1>2. [i \in DOMAIN commands |-> FALSE] \in [1 .. Len(commands) -> BOOLEAN]
  BY <1>1, Zenon
<1> QED BY <1>1, <1>2, SeqDef, Zenon

\* A link that fails keeps its queue or is replaced by one with none.
LEMMA FailsKeeps ==
    ASSUME NEW io, Fails(io)
    PROVE  rx_queue' \in {rx_queue, <<>>}
  BY Zenon DEF Fails

\* Waiting for an answer: packets read meanwhile are queued, on a full queue
\* in place of the oldest.
LEMMA ExpectKeeps == ASSUME RadioInv, expect PROVE RadioInv'
<1> DEFINE line == Head(uart)
<1>1. uart # <<>> /\ UNCHANGED <<handed, arrived>> /\ uart \in Seq(Line)
  BY Zenon DEF expect, RadioInv
<1>2. line \in Line
  BY <1>1
<1>3. line.kind \in {"rcv", "rest", "+OK", "+ERR", "bad"}
  BY <1>2 DEF Line
<1>4. commands \in Seq(BOOLEAN)
  BY Zenon DEF RadioInv
<1>5. CASE line.kind = "rcv"
  <2>1. rx_queue' = Queued(line.n) /\ uart' = Tail(uart) /\ UNCHANGED commands
    BY <1>5, Zenon DEF expect
  <2> QED BY <1>1, <1>5, <2>1, PacketQueued
<1>6. CASE line.kind = "rest"
  <2>1. uart' = Tail(uart) /\ UNCHANGED <<commands, rx_queue>>
    BY <1>6, Zenon DEF expect
  <2> QED BY <1>1, <1>4, <2>1, ReadAside, Zenon
<1>7. CASE line.kind = "+OK"
  <2>1. uart' = Tail(uart) /\ Succeeds
    BY <1>7, Zenon DEF expect
  <2>2. UNCHANGED rx_queue /\ (Command \/ UNCHANGED commands)
    BY <2>1, Zenon DEF Succeeds, Begin
  <2>3. commands' \in Seq(BOOLEAN)
    BY <2>2, CommandGiven, Zenon
  <2> QED BY <1>1, <2>1, <2>2, <2>3, ReadAside, Zenon
<1>8. CASE line.kind = "+ERR"
  <2>1. uart' = Tail(uart) /\ UNCHANGED commands /\ Fails(FALSE)
    BY <1>8, Zenon DEF expect
  <2> QED BY <1>1, <1>4, <2>1, FailsKeeps, ReadAside, Zenon
<1>9. CASE line.kind = "bad"
  <2>1. /\ commands' = [i \in DOMAIN commands |-> FALSE]
        /\ uart' = Disowned(Tail(uart)) /\ Fails(FALSE)
    BY <1>9, Zenon DEF expect
  <2>2. commands' \in Seq(BOOLEAN)
    BY <1>4, <2>1, CommandsDisowned, Zenon
  <2>3. /\ Tail(uart) \in Seq(Line) /\ Len(Tail(uart)) = Len(uart) - 1
        /\ \A i \in 1 .. Len(uart) - 1 : Tail(uart)[i] = uart[i + 1]
    BY <1>1
  <2>4. \A i : IsPacket(Tail(uart), i) =>
            IsPacket(uart, i + 1) /\ Tail(uart)[i] = uart[i + 1]
    BY <1>1, <2>3 DEF IsPacket
  <2>5. /\ uart' \in Seq(Line)
        /\ \A i : IsPacket(uart', i) =>
               IsPacket(Tail(uart), i) /\ uart'[i].n = Tail(uart)[i].n
    BY <2>1, <2>3, DisownedLines, Zenon
  <2>6. \A i : IsPacket(uart', i) =>
            IsPacket(uart, i + 1) /\ uart'[i].n = uart[i + 1].n
    BY <2>4, <2>5, Zenon
  <2>7. 1 \in {0, 1}
    OBVIOUS
  <2>8. rx_queue' \in {rx_queue, <<>>}
    BY <2>1, FailsKeeps, Zenon
  <2> QED BY <1>1, <2>2, <2>5, <2>6, <2>7, <2>8, Shrinks, Zenon
<1> QED BY <1>3, <1>5, <1>6, <1>7, <1>8, <1>9

\* Reading or writing fails.
LEMMA IoErrorKeeps == ASSUME RadioInv, IoError PROVE RadioInv'
<1>1. /\ UNCHANGED <<commands, uart, arrived, handed>>
      /\ rx_queue' \in {rx_queue, <<>>}
  BY FailsKeeps, Zenon DEF IoError
<1>2. commands' \in Seq(BOOLEAN)
  BY <1>1, Zenon DEF RadioInv
<1> QED BY <1>1, <1>2, KeptOrLost

\* What the driver waits for is abandoned.
LEMMA CancelKeeps == ASSUME RadioInv, Cancel PROVE RadioInv'
<1>1. UNCHANGED <<arrived, handed>>
  BY Zenon DEF Cancel
<1>2. uart \in Seq(Line) /\ commands \in Seq(BOOLEAN)
  BY Zenon DEF RadioInv
<1>3. CASE doing = "recv"
  <2>1. UNCHANGED <<commands, rx_queue>>
    BY <1>3 DEF Cancel
  <2>2. \/ uart' = uart
        \/ uart # <<>> /\ uart' = <<[kind |-> "rest"]>> \o Tail(uart)
    BY <1>3 DEF Cancel
  <2>3. CASE uart' = uart
    BY <1>1, <1>2, <2>1, <2>3, KeptOrLost, Zenon
  <2>4. CASE uart # <<>> /\ uart' = <<[kind |-> "rest"]>> \o Tail(uart)
    <3>1. [kind |-> "rest"] \in Line
      BY DEF Line
    <3>2. Tail(uart) \in Seq(Line) /\ Len(Tail(uart)) = Len(uart) - 1
          /\ \A i \in 1 .. Len(uart) - 1 : Tail(uart)[i] = uart[i + 1]
      BY <1>2, <2>4
    <3>3. uart' \in Seq(Line) /\ Len(uart') = Len(uart)
          /\ uart'[1] = [kind |-> "rest"]
          /\ \A i \in 2 .. Len(uart) : uart'[i] = Tail(uart)[i - 1]
      BY <1>2, <2>4, <3>1, <3>2
    <3>4. \A i \in 2 .. Len(uart) : uart'[i] = uart[i]
      BY <1>2, <3>2, <3>3
    <3>5. uart'[1].kind # "rcv"
      BY <3>3
    <3>6. \A i : IsPacket(uart', i) =>
              IsPacket(uart, i + 0) /\ uart'[i].n = uart[i + 0].n
      BY <1>2, <3>3, <3>4, <3>5 DEF IsPacket
    <3>7. 0 \in {0, 1}
      OBVIOUS
    <3> QED BY <1>1, <1>2, <2>1, <3>3, <3>6, <3>7, Shrinks, Zenon
  <2> QED BY <2>2, <2>3, <2>4
<1>4. CASE doing # "recv"
  <2>1. Disown /\ rx_queue' = <<>>
    BY <1>4, Zenon DEF Cancel
  <2>2. /\ commands' = [i \in DOMAIN commands |-> FALSE]
             /\ uart' = Disowned(uart)
    BY <2>1, Zenon DEF Disown
  <2>3. commands' \in Seq(BOOLEAN)
    BY <1>2, <2>2, CommandsDisowned, Zenon
  <2>4. /\ uart' \in Seq(Line)
        /\ \A i : IsPacket(uart', i) =>
             IsPacket(uart, i) /\ uart'[i].n = uart[i].n
    BY <1>2, <2>2, DisownedLines, Zenon
  <2>5. \A i : IsPacket(uart', i) =>
            IsPacket(uart, i + 0) /\ uart'[i].n = uart[i + 0].n
    BY <1>2, <2>4 DEF IsPacket
  <2>6. 0 \in {0, 1}
    OBVIOUS
  <2> QED BY <1>1, <2>1, <2>3, <2>4, <2>5, <2>6, Shrinks, Zenon
<1> QED BY <1>3, <1>4

\* The oldest packet queued is handed up.
LEMMA QueuedHandedUp ==
    ASSUME RadioInv, rx_queue # <<>>, handed' = Head(rx_queue),
           rx_queue' = Tail(rx_queue), UNCHANGED <<uart, commands, arrived>>
    PROVE  RadioInv'
<1>1. rx_queue \in Seq(Nat) /\ Head(rx_queue) = rx_queue[1]
          /\ 1 \in DOMAIN rx_queue
  BY DEF RadioInv
<1>2. /\ rx_queue' \in Seq(Nat) /\ Len(rx_queue') = Len(rx_queue) - 1
      /\ \A i \in 1 .. Len(rx_queue') : rx_queue'[i] = rx_queue[i + 1]
  BY <1>1
<1>3. ASSUME NEW i \in DOMAIN rx_queue'
      PROVE  i + 1 \in DOMAIN rx_queue /\ 1 < i + 1
                 /\ rx_queue'[i] = rx_queue[i + 1]
                /\ i \in Nat
  BY <1>1, <1>2
<1>4. \A i \in DOMAIN rx_queue :
          /\ rx_queue[i] \in Nat /\ handed < rx_queue[i]
               /\ rx_queue[i] <= arrived
          /\ \A j \in DOMAIN rx_queue : j < i => rx_queue[j] < rx_queue[i]
  BY Zenon DEF RadioInv, QueueInOrder
<1>5. handed' \in 0 .. arrived /\ handed' = rx_queue[1]
  BY <1>1, <1>4 DEF RadioInv
<1>6. QueueInOrder(rx_queue', handed', arrived)
  <2> SUFFICES ASSUME NEW i \in DOMAIN rx_queue'
               PROVE  /\ rx_queue'[i] \in Nat /\ handed' < rx_queue'[i]
                      /\ rx_queue'[i] <= arrived
                      /\ \A j \in DOMAIN rx_queue' : j < i
                            => rx_queue'[j] < rx_queue'[i]
    BY Zenon DEF QueueInOrder
  <2>1. rx_queue'[i] \in Nat /\ rx_queue'[i] <= arrived
    BY <1>3, <1>4, Zenon
  <2>2. handed' < rx_queue'[i]
    BY <1>1, <1>3, <1>4, <1>5, Zenon
  <2>3. ASSUME NEW j \in DOMAIN rx_queue', j < i
        PROVE  rx_queue'[j] < rx_queue'[i]
    <3>1. j + 1 < i + 1
      BY <1>3, <2>3
    <3> QED BY <1>3, <1>4, <3>1, Zenon
  <2> QED BY <2>1, <2>2, <2>3, Zenon
<1>7. LinesInOrder(uart, handed', arrived)
  <2>1. \A i : IsPacket(uart, i) => handed' < uart[i].n
    BY <1>1, <1>5, Zenon DEF RadioInv, QueueFirst
  <2> QED BY <2>1, Zenon DEF RadioInv, LinesInOrder
<1>8. QueueFirst(rx_queue', uart)
  BY <1>3, Zenon DEF RadioInv, QueueFirst
<1> QED BY <1>2, <1>5, <1>6, <1>7, <1>8, Zenon DEF RadioInv

\* With nothing queued, a packet read is handed up at once.
LEMMA ReadHandedUp ==
    ASSUME RadioInv, rx_queue = <<>>, uart # <<>>, Head(uart).kind = "rcv",
           handed' = Head(uart).n, uart' = Tail(uart),
           UNCHANGED <<rx_queue, commands, arrived>>
    PROVE  RadioInv'
<1>1. uart \in Seq(Line) /\ IsPacket(uart, 1) /\ Head(uart) = uart[1]
  BY DEF RadioInv, IsPacket
<1>2. /\ uart' \in Seq(Line) /\ Len(uart') = Len(uart) - 1
      /\ \A i \in 1 .. Len(uart') : uart'[i] = uart[i + 1]
  BY <1>1
<1>3. \A i : IsPacket(uart', i) => /\ IsPacket(uart, i + 1) /\ i \in Nat \ {0}
                                   /\ uart'[i].n = uart[i + 1].n
  BY <1>1, <1>2 DEF IsPacket
<1>4. LinesInOrder(uart', handed, arrived)
  <2>1. DOMAIN uart' \subseteq Nat /\ 1 \in {0, 1}
    BY <1>2
  <2> QED BY <1>3, <2>1, FewerLines, Zenon DEF RadioInv
<1>5. handed' \in 0 .. arrived
  BY <1>1 DEF RadioInv, LinesInOrder
<1>6. ASSUME NEW i, IsPacket(uart', i) PROVE handed' < uart'[i].n
  <2>1. IsPacket(uart, i + 1) /\ i \in Nat \ {0} /\ uart'[i].n = uart[i + 1].n
    BY <1>3, <1>6, Zenon
  <2>2. 1 < i + 1
    BY <2>1
  <2> QED BY <1>1, <2>1, <2>2, Zenon DEF RadioInv, LinesInOrder
<1>7. LinesInOrder(uart', handed', arrived)
  BY <1>4, <1>6, Zenon DEF LinesInOrder
<1>8. QueueInOrder(rx_queue', handed', arrived) /\ QueueFirst(rx_queue', uart')
  BY DEF QueueInOrder, QueueFirst
<1> QED BY <1>2, <1>5, <1>7, <1>8, Zenon DEF RadioInv

\* A packet is handed up, from the queue before from the line.
LEMMA ListenKeeps == ASSUME RadioInv, listen_for_packet PROVE RadioInv'
<1>1. UNCHANGED <<commands, arrived>>
  BY Zenon DEF listen_for_packet
<1>2. commands' \in Seq(BOOLEAN)
  BY <1>1, Zenon DEF RadioInv
<1>3. CASE rx_queue # <<>>
  <2>1. /\ handed' = PopFront(rx_queue)[1] /\ rx_queue' = PopFront(rx_queue)[2]
        /\ UNCHANGED uart
    BY <1>3, Zenon DEF listen_for_packet
  <2>2. handed' = Head(rx_queue) /\ rx_queue' = Tail(rx_queue)
    BY <2>1 DEF PopFront
  <2> QED BY <1>1, <1>3, <2>1, <2>2, QueuedHandedUp
<1>4. CASE rx_queue = <<>>
  <2>1. /\ uart # <<>> /\ uart' = Tail(uart) /\ UNCHANGED rx_queue
        /\ \/ Head(uart).kind = "rcv" /\ handed' = Head(uart).n
           \/ UNCHANGED handed
    BY <1>4, Zenon DEF listen_for_packet
  <2>2. CASE Head(uart).kind = "rcv" /\ handed' = Head(uart).n
    BY <1>1, <1>4, <2>1, <2>2, ReadHandedUp
  <2>3. CASE UNCHANGED handed
    BY <1>1, <1>2, <2>1, <2>3, ReadAside, Zenon
  <2> QED BY <2>1, <2>2, <2>3
<1> QED BY <1>3, <1>4

\* Steps that touch neither the lines nor the queue.
LEMMA RadioElsewhere ==
    ASSUME RadioInv, UNCHANGED <<uart, rx_queue, commands, handed, arrived>>
    PROVE  RadioInv'
  BY Zenon DEF RadioInv

\* Every step keeps the invariant.
LEMMA RadioStep == RadioInv /\ [RadioNext]_radioVars => RadioInv'
<1> SUFFICES ASSUME RadioInv, [RadioNext]_radioVars PROVE RadioInv'
  OBVIOUS
<1>1. CASE Arrive
  BY <1>1, ArriveKeeps
<1>2. CASE Answer
  BY <1>2, AnswerKeeps
<1>3. CASE Unplug
  BY <1>3, UnplugKeeps
<1>4. CASE Plug \/ BackoffTick \/ UNCHANGED radioVars
  <2>1. UNCHANGED <<uart, rx_queue, commands, handed, arrived>>
    BY <1>4 DEF Plug, BackoffTick, radioVars
  <2> QED BY <2>1, RadioElsewhere
<1>5. CASE Await("recv") \/ Await("send")
  BY <1>5, AwaitKeeps
<1>6. CASE expect
  BY <1>6, ExpectKeeps
<1>7. CASE IoError
  BY <1>7, IoErrorKeeps
<1>8. CASE listen_for_packet
  BY <1>8, ListenKeeps
<1>9. CASE Cancel
  BY <1>9, CancelKeeps
<1> QED
  BY <1>1, <1>2, <1>3, <1>4, <1>5, <1>6, <1>7, <1>8, <1>9, Zenon DEF RadioNext

\* For any depth of the queue and any faults: packets are handed up in the
\* order the module received them, and none twice, though some are read while
\* an answer is awaited and some are dropped (`listen_for_packet`, `expect`,
\* `ReconnectingRylr998Link::recv`).
THEOREM PacketsInOrder == RadioSpec => []HandedUpInOrder
  BY RadioStart, RadioStep, InOrder, PTL DEF RadioSpec
=============================================================================
