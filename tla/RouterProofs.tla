---------------------------- MODULE RouterProofs ----------------------------
(***************************************************************************)
(* The safety of one node's routing state, for any number of nodes, any    *)
(* table capacities, clock and sequence-number widths, and any OGMs        *)
(* (RouteTable), and of the timers by which it speaks (OgmSchedule).       *)
(*                                                                         *)
(* First what admit_seqno and each engine operation guarantee: an          *)
(* operation keeps the engine well-formed, and says which proofs and next  *)
(* hops it leaves behind.                                                  *)
(*                                                                         *)
(* The inductive invariant of the table is Inv below.  RevokedGone alone   *)
(* is not inductive: that no route leads through a revoked node rests on   *)
(* BestBacked and on every revoked node having lost its proof, and that is *)
(* worth something only because revocations exist only where proofs are    *)
(* required.                                                               *)
(*                                                                         *)
(* That of the timers is ScheduleInv.  A reset may be given an instant     *)
(* long past, since a turn samples the clock before it waits; that it puts *)
(* no OGM off rests on every timer's interval lying within its bounds.     *)
(***************************************************************************)
EXTENDS RouteTable, OgmSchedule, WellFoundedInduction, TLAPS

-----------------------------------------------------------------------------
(* Sequence numbers and stamps, for every width, window, tolerance and      *)
(* reset-protection interval.                                               *)

\* wrapping_add stays in range.
LEMMA WrappingAddType ==
    ASSUME NEW half \in Nat \ {0}, NEW a \in Counter(half)
    PROVE  WrappingAdd(a, 1, half) \in Counter(half)
BY DEF WrappingAdd, Counter

\* Millis::elapsed_since never reads negative, and is within half the range.
LEMMA ElapsedType ==
    ASSUME NEW now \in Stamp, NEW earlier \in Stamp
    PROVE  Elapsed(now, earlier) \in Nat /\ Elapsed(now, earlier) < HalfClock
BY BandsAssumption
   DEF Stamp, Counter, Elapsed, ElapsedSince, SignedDiff

\* The stamp just taken is of age zero.
LEMMA ElapsedZero ==
    ASSUME NEW now \in Stamp
    PROVE  Elapsed(now, now) = 0
BY BandsAssumption
   DEF Stamp, Counter, Elapsed, ElapsedSince, SignedDiff

LEMMA SeededType ==
    ASSUME NEW seqno \in Seqno
    PROVE  Seeded(seqno) \in SeqnoEntry
BY Zenon DEF Seeded, SeqnoEntry

LEMMA OpenRunType ==
    ASSUME NEW entry \in SeqnoEntry, NEW seqno \in Seqno, NEW now \in Stamp
    PROVE  OpenRun(entry, seqno, now) \in Watch
BY Zenon DEF OpenRun, SeqnoEntry, Watch

\* What the Implausible arm leaves behind: the high-water as it was under a
\* watch, or a high-water equal to a frame it lets through.
LEMMA AdmitImplausibleResult ==
    ASSUME NEW entry \in SeqnoEntry, NEW seqno \in Seqno, NEW now \in Stamp
    PROVE  LET r == AdmitImplausible(entry, seqno, now)
           IN  /\ r.entry \in SeqnoEntry
               /\ r.adm \in Resynchronised \cup {"Watching"}
               /\ r.adm = "Watching" => r.entry.seqno = entry.seqno
               /\ r.adm = "ResyncAdvance" => r.entry = Seeded(seqno)
<1> DEFINE run == OpenRun(entry, seqno, now)
           verdict == Classify(run.seqno, seqno)
<1>1. run \in Watch
  BY OpenRunType, Zenon
<1>2. verdict \in Verdict
  BY Zenon DEF Classify, Verdict
<1>3. CASE Elapsed(now, run.since) < ResetProtection
  <2> HIDE DEF run
  <2>1. AdmitImplausible(entry, seqno, now)
          = [entry |-> [entry EXCEPT !.watch = run], adm |-> "Watching"]
    BY <1>3, Zenon DEF AdmitImplausible, Admitted, run
  <2> QED
    BY <1>1, <2>1 DEF SeqnoEntry, Resynchronised
<1>4. CASE ~(Elapsed(now, run.since) < ResetProtection)
  <2>1. AdmitImplausible(entry, seqno, now)
          = [entry |-> Seeded(IF verdict = "Advance" THEN seqno
                              ELSE run.seqno),
             adm |-> Resync(verdict)]
    BY <1>4, Zenon DEF AdmitImplausible, Admitted
  <2> HIDE DEF run, verdict
  <2>2. run.seqno \in Seqno
    BY <1>1, Zenon DEF Watch
  <2>3. Resync(verdict) \in Resynchronised
    BY <1>2, Zenon DEF Verdict, Resync, Resynchronised
  <2>4. Resync(verdict) = "ResyncAdvance" => verdict = "Advance"
    BY <1>2, Zenon DEF Verdict, Resync
  <2>5. Resync(verdict) # "Watching"
    BY <2>3, Zenon DEF Resynchronised
  <2> QED
    BY <2>1, <2>2, <2>3, <2>4, <2>5, SeededType
<1> QED
  BY <1>3, <1>4, Zenon

\* What admit_seqno leaves behind, for every verdict.
LEMMA AdmitResult ==
    ASSUME NEW entry \in SeqnoEntry, NEW seqno \in Seqno, NEW now \in Stamp
    PROVE  LET r == Admit(entry, seqno, now)
           IN  /\ r.entry \in SeqnoEntry
               /\ r.adm \in Admission
               /\ Advanced(r.adm) => r.entry = Seeded(seqno)
               /\ ~HighWaterWritten(r.adm) => r.entry.seqno = entry.seqno
<1> DEFINE verdict == Classify(entry.seqno, seqno)
<1>1. verdict \in Verdict
  BY Zenon DEF Classify, Verdict
<1>2. CASE verdict = "Advance"
  <2>1. Admit(entry, seqno, now) =
            [entry |-> Seeded(seqno), adm |-> "Advanced"]
    BY <1>2, Zenon DEF Admit, Admitted
  <2> QED
    BY <2>1, SeededType DEF Admission, HighWaterWritten
<1>3. CASE verdict = "Duplicate"
  <2>1. Admit(entry, seqno, now)
          = [entry |-> entry, adm |-> IF seqno = entry.seqno
                                      THEN "DuplicateExact"
                                      ELSE "DuplicateBehind"]
    BY <1>3, Zenon DEF Admit, Admitted
  <2> QED
    BY <2>1 DEF Admission, Advanced
<1>4. CASE verdict = "Implausible"
  <2>1. Admit(entry, seqno, now) = AdmitImplausible(entry, seqno, now)
    BY <1>4, Zenon DEF Admit
  <2> QED
    BY <2>1, AdmitImplausibleResult
       DEF Admission, Advanced, HighWaterWritten, Resynchronised
<1> QED
  BY <1>1, <1>2, <1>3, <1>4, Zenon DEF Verdict

\* A frame that was let through is not let through again: the copy that
\* reaches the node next by another path, at whatever time, is an exact
\* duplicate and leaves the entry alone.  This is what keeps a flood from
\* circulating, whichever way the first copy was admitted (a plain advance
\* or the end of a resync run).
THEOREM RepeatRefused ==
    ASSUME NEW entry \in SeqnoEntry, NEW seqno \in Seqno,
           NEW now \in Stamp, NEW later \in Stamp,
           Advanced(Admit(entry, seqno, now).adm)
    PROVE  LET once == Admit(entry, seqno, now).entry
           IN  /\ Admit(once, seqno, later).adm = "DuplicateExact"
               /\ Admit(once, seqno, later).entry = once
<1> DEFINE once == Admit(entry, seqno, now).entry
<1>1. once = Seeded(seqno)
  BY AdmitResult, Zenon
<1>2. once.seqno = seqno
  BY <1>1 DEF Seeded
<1>3. Classify(seqno, seqno) = "Duplicate"
  BY BandsAssumption DEF Classify, AheadBy, SignedDiff, Seqno, Counter
<1> HIDE DEF once
<1>4. Admit(once, seqno, later)
        = [entry |-> once, adm |-> "DuplicateExact"]
  BY <1>2, <1>3, Zenon DEF Admit, Admitted
<1> QED
  BY <1>4 DEF once

-----------------------------------------------------------------------------
(* Maps *)

\* Making room only takes keys away; the entries left are untouched.
LEMMA RoomyMap ==
    ASSUME NEW S, NEW f, IsMap(f, S), NEW now, NEW g \in Roomy(f, now)
    PROVE  /\ IsMap(g, S) /\ DOMAIN g \subseteq DOMAIN f
           /\ \A n \in DOMAIN g : g[n] = f[n]
<1>1. CASE g = f
  BY <1>1, Zenon
<1>2. CASE g # f
  <2>1. PICK n \in Oldest(f, now) : g = Without(f, n)
    BY <1>2, Zenon DEF Roomy
  <2> QED
    BY <2>1, Zenon DEF IsMap, Without
<1> QED
  BY <1>1, <1>2, Zenon

\* Inserting adds only its own key, and touches no entry it leaves.
LEMMA InsertedMap ==
    ASSUME NEW S, NEW f, IsMap(f, S), NEW n \in Node, NEW v \in S, NEW now,
           NEW g \in Inserted(f, n, v, now)
    PROVE  /\ IsMap(g, S) /\ DOMAIN g \subseteq DOMAIN f \cup {n}
           /\ \A m \in DOMAIN g : g[m] = IF m = n THEN v ELSE f[m]
<1>1. CASE n \in DOMAIN f
  BY <1>1 DEF Inserted, IsMap, With
<1>2. CASE n \notin DOMAIN f
  <2>1. PICK h \in Roomy(f, now) : g = With(h, n, v)
    BY <1>2, Zenon DEF Inserted
  <2>2. /\ IsMap(h, S) /\ DOMAIN h \subseteq DOMAIN f
        /\ \A m \in DOMAIN h : h[m] = f[m]
    BY RoomyMap, Zenon
  <2> QED
    BY <2>1, <2>2, Zenon DEF IsMap, With
<1> QED
  BY <1>1, <1>2, Zenon

LEMMA RecentMap ==
    ASSUME NEW S, NEW f, IsMap(f, S), NEW now
    PROVE  /\ IsMap(Recent(f, now), S)
                /\ DOMAIN Recent(f, now) \subseteq DOMAIN f
           /\ \A n \in DOMAIN Recent(f, now) :
                  /\ Recent(f, now)[n] = f[n]
                  /\ Elapsed(now, f[n].last) < StampAgeCeiling
           /\ \A n \in DOMAIN f : Elapsed(now, f[n].last) < StampAgeCeiling
                                     => n \in DOMAIN Recent(f, now)
BY Zenon DEF Recent, IsMap, Keep

LEMMA BlendIntervalType ==
    ASSUME NEW old \in Nat, NEW gap \in Nat
    PROVE  BlendInterval(old, gap) \in Nat
BY DEF BlendInterval

LEMMA ComputedTqType ==
    ASSUME NEW f, f.tq \in Tq, NEW quality \in Tq \cup {None}
    PROVE  ComputedTq(f, quality) \in Tq
BY EngineAssumption DEF ComputedTq, SmallerOf, Tq

-----------------------------------------------------------------------------
(* Selection *)

\* A cached next hop has a proof on record.
Backed(e) == e.requireProof =>
    \A o \in DOMAIN e.table : e.table[o].best \in DOMAIN e.proven \cup {None}

AllTracked(e) == \A o \in DOMAIN e.table : Tracked(e.table[o])

Good(e) == EngineOK(e) /\ Backed(e) /\ AllTracked(e)

\* d is e with nothing added to its tables.
Shrunk(d, e) ==
    /\ d.self = e.self /\ d.requireProof = e.requireProof
    /\ DOMAIN d.table \subseteq DOMAIN e.table
    /\ DOMAIN d.proven \subseteq DOMAIN e.proven
    /\ \A n \in DOMAIN d.proven : d.proven[n] = e.proven[n]

\* recompute_best picks a selectable path, and caches its metric.
LEMMA ChosenResult ==
    ASSUME NEW r, IsRecord(r), NEW sel,
           NEW n \in BestChoices(r.paths, sel)
    PROVE  LET c == Chosen(r, n)
           IN  /\ IsRecord(c) /\ Tracked(c)
               /\ c.best \in sel \cup {None}
               /\ c.paths = r.paths
<1>1. n = None \/ n \in DOMAIN r.paths \cap sel
  BY Zenon DEF BestChoices
<1>2. Chosen(r, n).best = n /\ Chosen(r, n).paths = r.paths
  BY Zenon DEF IsRecord, Chosen
<1>3. Chosen(r, n).maxTq = IF n = None THEN 0 ELSE r.paths[n].tq
  BY Zenon DEF IsRecord, Chosen
<1>4. Tracked(Chosen(r, n))
  BY <1>1, <1>2, <1>3, Zenon DEF Tracked
<1>5. IsRecord(Chosen(r, n))
  <2>1. /\ DOMAIN Chosen(r, n) = DOMAIN r
        /\ Chosen(r, n).last = r.last /\ Chosen(r, n).hw = r.hw
    BY Zenon DEF IsRecord, Chosen
  <2>2. Chosen(r, n).maxTq \in Tq
    BY <1>1, <1>3, EngineAssumption DEF IsRecord, IsMap, PathStats, Tq
  <2>3. n \in Node \cup {None}
    BY <1>1, Zenon DEF IsRecord, IsMap
  <2> QED
    BY <1>2, <2>1, <2>2, <2>3, Zenon DEF IsRecord
<1> QED
  BY <1>1, <1>2, <1>4, <1>5, Zenon

LEMMA RecomputedResult ==
    ASSUME NEW table, TableOK(table), NEW sel, NEW t \in Recomputed(table, sel)
    PROVE  /\ TableOK(t) /\ DOMAIN t = DOMAIN table
           /\ \A o \in DOMAIN t : /\ Tracked(t[o])
                                  /\ t[o].best \in sel \cup {None}
                                  /\ t[o].paths = table[o].paths
<1>1. PICK pick \in [DOMAIN table -> Node \cup {None}] :
          /\ \A o \in DOMAIN table :
                pick[o] \in BestChoices(table[o].paths, sel)
          /\ t = [o \in DOMAIN table |-> Chosen(table[o], pick[o])]
  BY Zenon DEF Recomputed
<1>2. DOMAIN t = DOMAIN table
  BY <1>1, Zenon
<1>3. ASSUME NEW o \in DOMAIN t
      PROVE  /\ IsRecord(t[o]) /\ Tracked(t[o])
             /\ t[o].best \in sel \cup {None}
             /\ t[o].paths = table[o].paths
  <2>1. t[o] = Chosen(table[o], pick[o])
    BY <1>1, Zenon
  <2>2. IsRecord(table[o])
    BY <1>2, Zenon DEF TableOK
  <2>3. pick[o] \in BestChoices(table[o].paths, sel)
    BY <1>1, <1>2, Zenon
  <2> QED
    BY <2>1, <2>2, <2>3, ChosenResult
<1> QED
  BY <1>1, <1>2, <1>3, Zenon DEF TableOK

\* recompute_all_best leaves only proven next hops, whatever was cached.
LEMMA RecomputeAllBestResult ==
    ASSUME NEW e, EngineOK(e), NEW now,
           NEW d \in RecomputeAllBest(e, now)
    PROVE  Good(d) /\ Shrunk(d, e) /\ d.mcast = e.mcast
<1>1. PICK t \in Recomputed(e.table, Selectable(e, now)) :
          d = [e EXCEPT !.table = t]
  BY Zenon DEF RecomputeAllBest
<1>2. /\ DOMAIN d = DOMAIN e /\ d.self = e.self
      /\ d.requireProof = e.requireProof /\ d.table = t
      /\ d.proven = e.proven /\ d.challenged = e.challenged
      /\ d.keepalive = e.keepalive /\ d.mcast = e.mcast
      /\ d.changed = e.changed
  BY <1>1, Zenon DEF EngineOK
<1>3. /\ TableOK(t) /\ DOMAIN t = DOMAIN e.table
      /\ \A o \in DOMAIN t : /\ Tracked(t[o])
                             /\ t[o].best \in Selectable(e, now) \cup {None}
  BY RecomputedResult, Zenon DEF EngineOK
<1>4. EngineOK(d)
  BY <1>2, <1>3, Zenon DEF EngineOK
<1>5. Backed(d)
  BY <1>2, <1>3, Zenon DEF Backed, Selectable, ProofCurrent
<1>6. AllTracked(d)
  BY <1>2, <1>3, Zenon DEF AllTracked
<1> QED
  BY <1>2, <1>3, <1>4, <1>5, <1>6, Zenon DEF Good, Shrunk

-----------------------------------------------------------------------------
(* Operations on proofs *)

LEMMA NoteProvenResult ==
    ASSUME NEW e, Good(e), NEW now \in Stamp, NEW n \in Node,
           NEW iface \in Interface, NEW d \in NoteProven(e, now, n, iface)
    PROVE  /\ Good(d)
           /\ d.self = e.self /\ d.requireProof = e.requireProof
           /\ DOMAIN d.table \subseteq DOMAIN e.table
           /\ DOMAIN d.proven \subseteq DOMAIN e.proven \cup {n}
           /\ \A m \in DOMAIN d.proven :
                  IF m = n THEN d.proven[m].last = now
                  ELSE d.proven[m] = e.proven[m]
<1> DEFINE v == [last |-> now, iface |-> iface]
<1>1. PICK proven \in Inserted(e.proven, n, v, now) :
          d \in RecomputeAllBest([e EXCEPT !.proven = proven,
                                           !.challenged = Without(@, n)], now)
  BY Zenon DEF NoteProven
<1> DEFINE m == [e EXCEPT !.proven = proven, !.challenged = Without(@, n)]
<1>2. v \in Proof
  BY Zenon DEF Proof
<1>3. /\ IsMap(proven, Proof)
           /\ DOMAIN proven \subseteq DOMAIN e.proven \cup {n}
      /\ \A j \in DOMAIN proven : proven[j] = IF j = n THEN v ELSE e.proven[j]
  BY <1>2, InsertedMap DEF Good, EngineOK
<1>4. /\ DOMAIN m = DOMAIN e /\ m.self = e.self
      /\ m.requireProof = e.requireProof /\ m.table = e.table
      /\ m.proven = proven /\ m.challenged = Without(e.challenged, n)
      /\ m.keepalive = e.keepalive /\ m.mcast = e.mcast
      /\ m.changed = e.changed
  BY Zenon DEF Good, EngineOK
<1>5. IsMap(Without(e.challenged, n), Challenge)
  BY Zenon DEF Good, EngineOK, IsMap, Without
<1> HIDE DEF m
<1>6. EngineOK(m)
  BY <1>3, <1>4, <1>5, Zenon DEF Good, EngineOK
<1>7. Good(d) /\ Shrunk(d, m)
  BY <1>1, <1>6, RecomputeAllBestResult, Zenon DEF m
<1> QED
  BY <1>3, <1>4, <1>7 DEF Shrunk

LEMMA RetainProvenResult ==
    ASSUME NEW e, Good(e), NEW now, NEW usable,
           NEW d \in RetainProven(e, now, usable)
    PROVE  Good(d) /\ Shrunk(d, e)
<1>1. CASE DOMAIN e.proven \subseteq usable
  BY <1>1, Zenon DEF RetainProven, Shrunk
<1>2. CASE ~(DOMAIN e.proven \subseteq usable)
  <2> DEFINE m == [e EXCEPT !.proven = Keep(@, usable)]
  <2>1. d \in RecomputeAllBest(m, now)
    BY <1>2, Zenon DEF RetainProven
  <2>2. /\ DOMAIN m = DOMAIN e /\ m.self = e.self
        /\ m.requireProof = e.requireProof /\ m.table = e.table
        /\ m.proven = Keep(e.proven, usable) /\ m.challenged = e.challenged
        /\ m.keepalive = e.keepalive /\ m.mcast = e.mcast
        /\ m.changed = e.changed
    BY Zenon DEF Good, EngineOK
  <2>3. /\ IsMap(Keep(e.proven, usable), Proof)
        /\ DOMAIN Keep(e.proven, usable) \subseteq DOMAIN e.proven
        /\ \A n \in DOMAIN Keep(e.proven, usable) :
               Keep(e.proven, usable)[n] = e.proven[n]
    BY Zenon DEF Good, EngineOK, IsMap, Keep
  <2> HIDE DEF m
  <2>4. EngineOK(m)
    BY <2>2, <2>3, Zenon DEF Good, EngineOK
  <2>5. Good(d) /\ Shrunk(d, m)
    BY <2>1, <2>4, RecomputeAllBestResult, Zenon
  <2> QED
    BY <2>2, <2>3, <2>5, Zenon DEF Shrunk
<1> QED
  BY <1>1, <1>2, Zenon

LEMMA NoteChallengedResult ==
    ASSUME NEW e, Good(e), NEW now \in Stamp, NEW n \in Node,
           NEW d \in NoteChallenged(e, now, n)
    PROVE  Good(d) /\ Shrunk(d, e)
<1> DEFINE misses == IF n \in DOMAIN e.challenged
                     THEN e.challenged[n].misses + 1 ELSE 0
           v == [last |-> now, misses |-> misses]
<1>1. PICK c \in Inserted(e.challenged, n, v, now) :
          d = [e EXCEPT !.challenged = c]
  BY Zenon DEF NoteChallenged
<1>2. misses \in Nat
  BY DEF Good, EngineOK, IsMap, Challenge
<1>3. v \in Challenge
  BY <1>2, Zenon DEF Challenge
<1> HIDE DEF v
<1>4. IsMap(c, Challenge)
  BY <1>3, InsertedMap, Zenon DEF Good, EngineOK
<1>5. /\ DOMAIN d = DOMAIN e /\ d.self = e.self
      /\ d.requireProof = e.requireProof /\ d.table = e.table
      /\ d.proven = e.proven /\ d.challenged = c
      /\ d.keepalive = e.keepalive /\ d.mcast = e.mcast
      /\ d.changed = e.changed
  BY <1>1, Zenon DEF Good, EngineOK
<1>6. EngineOK(d)
  BY <1>4, <1>5, Zenon DEF Good, EngineOK
<1> QED
  BY <1>5, <1>6, Zenon DEF Good, Backed, AllTracked, Shrunk

LEMMA HandleKeepaliveResult ==
    ASSUME NEW e, Good(e), NEW now \in Stamp, NEW n \in Node,
           NEW d \in HandleKeepalive(e, now, n)
    PROVE  Good(d) /\ Shrunk(d, e)
<1> DEFINE interval == IF n \in DOMAIN e.keepalive
                       THEN BlendInterval(e.keepalive[n].interval,
                                Elapsed(now, e.keepalive[n].last))
                       ELSE 0
           v == [last |-> now, interval |-> interval]
<1>1. CASE d = e
  BY <1>1, Zenon DEF Shrunk
<1>2. CASE d \in NoteKeepalive(e, now, n)
  <2>1. PICK k \in Inserted(e.keepalive, n, v, now) :
            d = [e EXCEPT !.keepalive = k]
    BY <1>2, Zenon DEF NoteKeepalive
  <2>2. interval \in Nat
    BY ElapsedType, BlendIntervalType, Zenon
       DEF Good, EngineOK, IsMap, KeepAliveStats
  <2> HIDE DEF interval
  <2>3. v \in KeepAliveStats
    BY <2>2, Zenon DEF KeepAliveStats
  <2> HIDE DEF v
  <2>4. IsMap(k, KeepAliveStats)
    BY <2>3, InsertedMap, Zenon DEF Good, EngineOK
  <2>5. /\ DOMAIN d = DOMAIN e /\ d.self = e.self
        /\ d.requireProof = e.requireProof /\ d.table = e.table
        /\ d.proven = e.proven /\ d.challenged = e.challenged
        /\ d.keepalive = k /\ d.mcast = e.mcast /\ d.changed = e.changed
    BY <2>1, Zenon DEF Good, EngineOK
  <2>6. EngineOK(d)
    BY <2>4, <2>5, Zenon DEF Good, EngineOK
  <2> QED
    BY <2>5, <2>6, Zenon DEF Good, Backed, AllTracked, Shrunk
<1> QED
  BY <1>1, <1>2, Zenon DEF HandleKeepalive

-----------------------------------------------------------------------------
(* Withdrawing routes *)

\* The purge of old stamps takes no proof that still counts: a proof within
\* its budget is younger than STAMP_AGE_CEILING_MS.
LEMMA CurrentProofKept ==
    ASSUME NEW e, EngineOK(e), e.requireProof, NEW now \in Stamp,
           NEW n \in Selectable(e, now)
    PROVE  n \in DOMAIN Recent(e.proven, now)
<1>1. n \in DOMAIN e.proven
  BY Zenon DEF Selectable, ProofCurrent
<1>2. e.proven[n].last \in Stamp
  BY <1>1, Zenon DEF EngineOK, IsMap, Proof
<1>3. Elapsed(now, e.proven[n].last) \in Nat
  BY <1>2, ElapsedType, Zenon
<1>4. ~(Elapsed(now, e.proven[n].last) > SeedInterval * MaxMissedProofs)
  BY Zenon DEF Selectable, ProofCurrent, IsStale
<1>5. SeedInterval * MaxMissedProofs \in Int
  BY EngineAssumption
<1>6. Elapsed(now, e.proven[n].last) < StampAgeCeiling
  BY <1>3, <1>4, <1>5, EngineAssumption
<1> QED
  BY <1>1, <1>6, RecentMap, Zenon DEF EngineOK

LEMMA PathsWithinResult ==
    ASSUME NEW r, IsRecord(r), NEW S
    PROVE  IsRecord(PathsWithin(r, S))
<1> DEFINE p == PathsWithin(r, S)
<1>1. IsMap(Keep(r.paths, S), PathStats)
  BY Zenon DEF IsRecord, IsMap, Keep
<1>2. /\ DOMAIN p = DOMAIN r /\ p.last = r.last /\ p.best = r.best
      /\ p.maxTq = r.maxTq /\ p.hw = r.hw /\ p.paths = Keep(r.paths, S)
  BY Zenon DEF PathsWithin, IsRecord
<1> HIDE DEF p
<1> QED
  BY <1>1, <1>2, Zenon DEF IsRecord, p

\* purge_stale recomputes every next hop, so nothing need be assumed of the
\* ones cached before it.
LEMMA PurgeStaleResult ==
    ASSUME NEW e, EngineOK(e), NEW now \in Stamp, NEW d \in PurgeStale(e, now)
    PROVE  /\ Good(d) /\ Shrunk(d, e)
           /\ \A n \in DOMAIN d.proven :
                  Elapsed(now, d.proven[n].last) < StampAgeCeiling
<1> DEFINE pruned == [o \in DOMAIN e.table |-> LivePathsOnly(e.table[o], now)]
           left == {o \in DOMAIN pruned : DOMAIN pruned[o].paths # {}}
           lost == pruned # e.table \/ left # DOMAIN e.table
<1>1. PICK t \in Recomputed(pruned, Selectable(e, now)) :
          d = [e EXCEPT !.table = Keep(t, left),
                        !.changed = @ \/ lost,
                        !.proven = Recent(@, now),
                        !.challenged = Recent(@, now),
                        !.keepalive = Recent(@, now)]
  BY Zenon DEF PurgeStale
<1>2. TableOK(pruned)
  BY PathsWithinResult, Zenon DEF EngineOK, TableOK, LivePathsOnly
<1> HIDE DEF pruned, left, lost
<1>3. /\ TableOK(t) /\ DOMAIN t = DOMAIN pruned
      /\ \A o \in DOMAIN t : /\ Tracked(t[o])
                             /\ t[o].best \in Selectable(e, now) \cup {None}
  BY <1>2, RecomputedResult, Zenon
<1>4. DOMAIN t = DOMAIN e.table
  BY <1>3, Zenon DEF pruned
<1>5. /\ DOMAIN d = DOMAIN e /\ d.self = e.self
      /\ d.requireProof = e.requireProof /\ d.mcast = e.mcast
      /\ d.table = Keep(t, left) /\ d.changed = (e.changed \/ lost)
      /\ d.proven = Recent(e.proven, now)
      /\ d.challenged = Recent(e.challenged, now)
      /\ d.keepalive = Recent(e.keepalive, now)
  BY <1>1, Zenon DEF EngineOK
<1>6. (e.changed \/ lost) \in BOOLEAN
  BY Zenon
<1>7. /\ TableOK(d.table) /\ DOMAIN d.table \subseteq DOMAIN t
      /\ \A o \in DOMAIN d.table : d.table[o] = t[o]
  BY <1>3, <1>5, Zenon DEF TableOK, Keep
<1>8. /\ IsMap(d.proven, Proof) /\ DOMAIN d.proven \subseteq DOMAIN e.proven
      /\ \A n \in DOMAIN d.proven :
             /\ d.proven[n] = e.proven[n]
             /\ Elapsed(now, d.proven[n].last) < StampAgeCeiling
      /\ IsMap(d.challenged, Challenge) /\ IsMap(d.keepalive, KeepAliveStats)
  BY <1>5, RecentMap DEF EngineOK
<1>9. EngineOK(d)
  BY <1>5, <1>6, <1>7, <1>8, Zenon DEF EngineOK
<1>10. Backed(d)
  BY <1>3, <1>5, <1>7, CurrentProofKept, ZenonT(20) DEF Backed
<1>11. AllTracked(d)
  BY <1>3, <1>7, Zenon DEF AllTracked
<1> QED
  BY <1>4, <1>5, <1>7, <1>8, <1>9, <1>10, <1>11, Zenon DEF Good, Shrunk

\* What a revocation leaves: nothing of the revoked nodes, and only proven
\* next hops although revoke_originators does not revisit the cached ones.
LEMMA RevokeAndPurgeResult ==
    ASSUME NEW e, EngineOK(e), NEW now \in Stamp, NEW gone,
           NEW d \in RevokeAndPurge(e, now, gone)
    PROVE  /\ Good(d) /\ Shrunk(d, e)
           /\ DOMAIN d.table \cap gone = {}
           /\ DOMAIN d.proven \cap gone = {}
<1> DEFINE m == RevokeOriginators(e, gone)
           left == Node \ gone
<1>1. /\ DOMAIN m = DOMAIN e /\ m.self = e.self
      /\ m.requireProof = e.requireProof /\ m.mcast = e.mcast
      /\ m.keepalive = e.keepalive /\ m.changed = e.changed
      /\ m.table = [o \in DOMAIN e.table \cap left |->
                       PathsWithin(e.table[o], left)]
      /\ m.proven = Keep(e.proven, left)
      /\ m.challenged = Keep(e.challenged, left)
  BY Zenon DEF RevokeOriginators, EngineOK
<1>2. DOMAIN m.table = DOMAIN e.table \cap left
  BY <1>1, Zenon
<1>3. ASSUME NEW o \in DOMAIN m.table
      PROVE  IsRecord(m.table[o])
  <2>1. IsRecord(e.table[o])
    BY <1>2, Zenon DEF EngineOK, TableOK
  <2>2. m.table[o] = PathsWithin(e.table[o], left)
    BY <1>1, <1>2, Zenon
  <2> QED
    BY <2>1, <2>2, PathsWithinResult, Zenon
<1>4. TableOK(m.table)
  BY <1>1, <1>2, <1>3, ZenonT(20) DEF EngineOK, TableOK
<1>5. /\ IsMap(m.proven, Proof) /\ IsMap(m.challenged, Challenge)
      /\ DOMAIN m.proven = DOMAIN e.proven \cap left
      /\ \A n \in DOMAIN m.proven : m.proven[n] = e.proven[n]
  BY <1>1 DEF EngineOK, IsMap, Keep
<1>6. d \in PurgeStale(m, now)
  BY Zenon DEF RevokeAndPurge
<1> HIDE DEF m
<1>7. EngineOK(m)
  BY <1>1, <1>4, <1>5, Zenon DEF EngineOK
<1>8. Good(d) /\ Shrunk(d, m)
  BY <1>6, <1>7, PurgeStaleResult, Zenon
<1> QED
  BY <1>1, <1>2, <1>5, <1>8, ZenonT(20) DEF Shrunk

LEMMA PeriodicPurgeResult ==
    ASSUME NEW e, EngineOK(e), NEW now \in Stamp,
           NEW d \in PeriodicPurge(e, now)
    PROVE  /\ Good(d) /\ Shrunk(d, e)
           /\ \A n \in DOMAIN d.proven :
                  Elapsed(now, d.proven[n].last) < StampAgeCeiling
<1>1. PICK p \in PurgeStale(e, now) : d = [p EXCEPT !.changed = FALSE]
  BY Zenon DEF PeriodicPurge
<1>2. /\ Good(p) /\ Shrunk(p, e)
      /\ \A n \in DOMAIN p.proven :
             Elapsed(now, p.proven[n].last) < StampAgeCeiling
  BY PurgeStaleResult, Zenon
<1>3. /\ DOMAIN d = DOMAIN p /\ d.self = p.self
      /\ d.requireProof = p.requireProof /\ d.table = p.table
      /\ d.proven = p.proven /\ d.challenged = p.challenged
      /\ d.keepalive = p.keepalive /\ d.mcast = p.mcast
      /\ d.changed = FALSE
  BY <1>1, <1>2, Zenon DEF Good, EngineOK
<1>4. EngineOK(d)
  BY <1>2, <1>3, ZenonT(20) DEF Good, EngineOK
<1> QED
  BY <1>2, <1>3, <1>4, Zenon DEF Good, Backed, AllTracked, Shrunk

LEMMA ResetResult ==
    ASSUME NEW e, EngineOK(e)
    PROVE  /\ Good(Reset(e)) /\ Reset(e).self = e.self
           /\ Reset(e).requireProof = e.requireProof
           /\ DOMAIN Reset(e).table = {} /\ DOMAIN Reset(e).proven = {}
<1> DEFINE d == Reset(e)
<1>1. /\ DOMAIN d = DOMAIN e /\ d.self = e.self
      /\ d.requireProof = e.requireProof /\ d.table = <<>>
      /\ d.proven = <<>> /\ d.challenged = <<>>
      /\ d.keepalive = e.keepalive /\ d.mcast = {} /\ d.changed = e.changed
  BY Zenon DEF Reset, EngineOK
<1>2. DOMAIN <<>> = {}
  OBVIOUS
<1>3. \A S : IsMap(<<>>, S)
  BY <1>2 DEF IsMap
<1>4. TableOK(<<>>)
  BY <1>2 DEF TableOK
<1> HIDE DEF d
<1>5. EngineOK(d)
  BY <1>1, <1>3, <1>4, Zenon DEF EngineOK
<1>6. Backed(d) /\ AllTracked(d)
  BY <1>1, <1>2, Zenon DEF Backed, AllTracked
<1> QED
  BY <1>1, <1>2, <1>5, <1>6, Zenon DEF Good, d

-----------------------------------------------------------------------------
(* handle_ogm *)

IsOgm(f) == /\ f.src \in Node /\ f.orig \in Node
            /\ f.seqno \in Seqno /\ f.tq \in Tq /\ f.groups \subseteq Group

\* The path an OGM is evidence for is stored with the metric computed, or
\* every slot was taken and nothing changed; other paths are untouched.
LEMMA LearnedResult ==
    ASSUME NEW paths, IsMap(paths, PathStats), NEW f, IsOgm(f),
           NEW tq \in Tq, NEW now \in Stamp
    PROVE  LET l == Learned(paths, f, tq, now)
           IN  /\ IsMap(l, PathStats)
               /\ \/ /\ f.src \in DOMAIN l /\ l[f.src].tq = tq
                     /\ DOMAIN paths \subseteq DOMAIN l
                     /\ \A n \in DOMAIN paths \ {f.src} : l[n] = paths[n]
                     /\ f.src \in DOMAIN paths
                           => DOMAIN l = DOMAIN paths
                     /\ f.src \in DOMAIN paths
                           \/ Cardinality(DOMAIN paths) < MaxPaths
                  \/ /\ l = paths /\ f.src \notin DOMAIN paths
                     /\ ~(Cardinality(DOMAIN paths) < MaxPaths)
<1> DEFINE src == f.src
           interval ==
               IF src \notin DOMAIN paths THEN 0
               ELSE IF f.seqno > paths[src].seqno
                    THEN BlendInterval(paths[src].interval,
                                       Elapsed(now, paths[src].last))
                    ELSE paths[src].interval
           v == [tq |-> tq, seqno |-> f.seqno, last |-> now,
                 interval |-> interval]
<1>1. interval \in Nat
  <2>1. CASE src \notin DOMAIN paths
    BY <2>1, Zenon
  <2>2. CASE src \in DOMAIN paths
    <3>1. /\ paths[src].interval \in Nat /\ paths[src].last \in Stamp
      BY <2>2, Zenon DEF IsMap, PathStats
    <3>2. Elapsed(now, paths[src].last) \in Nat
      BY <3>1, ElapsedType, Zenon
    <3>3. BlendInterval(paths[src].interval, Elapsed(now, paths[src].last))
              \in Nat
      BY <3>1, <3>2, BlendIntervalType, Zenon
    <3> QED
      BY <2>2, <3>1, <3>3, Zenon
  <2> QED
    BY <2>1, <2>2, Zenon
<1> HIDE DEF interval
<1>2. v \in PathStats /\ v.tq = tq
  BY <1>1, Zenon DEF PathStats, IsOgm
<1>3. Learned(paths, f, tq, now) =
          IF src \in DOMAIN paths \/ Cardinality(DOMAIN paths) < MaxPaths
          THEN With(paths, src, v) ELSE paths
  BY Zenon DEF Learned, interval
<1> HIDE DEF v
<1>4. CASE src \in DOMAIN paths \/ Cardinality(DOMAIN paths) < MaxPaths
  <2>1. Learned(paths, f, tq, now) = With(paths, src, v)
    BY <1>3, <1>4, Zenon
  <2>2. src \in Node
    BY Zenon DEF IsOgm
  <2>3. /\ DOMAIN With(paths, src, v) = DOMAIN paths \cup {src}
        /\ With(paths, src, v)[src] = v
        /\ \A n \in DOMAIN paths \ {src} : With(paths, src, v)[n] = paths[n]
    BY Zenon DEF With
  <2>4. IsMap(With(paths, src, v), PathStats)
    BY <1>2, <2>2, Zenon DEF IsMap, With
  <2> QED
    BY <1>2, <1>4, <2>1, <2>3, <2>4, Zenon
<1>5. CASE ~(src \in DOMAIN paths \/ Cardinality(DOMAIN paths) < MaxPaths)
  BY <1>3, <1>5, Zenon
<1> QED
  BY <1>4, <1>5, Zenon

\* The selection step: of what it may promote, demote or keep.
LEMMA ReselectedResult ==
    ASSUME NEW r, IsRecord(r), NEW src \in Node, NEW tq \in Tq,
           NEW srcProven \in BOOLEAN,
           r.best = src \/ Tracked(r),
           \/ src \in DOMAIN r.paths /\ r.paths[src].tq = tq
           \/ src \notin DOMAIN r.paths
              /\ ~(Cardinality(DOMAIN r.paths) < MaxPaths)
    PROVE  LET d == Reselected(r, src, tq, srcProven)
           IN  /\ IsRecord(d) /\ Tracked(d)
               /\ \/ d.best = None
                  \/ d.best = r.best /\ r.best # src
                  \/ d.best = src /\ srcProven
<1> DEFINE d == Reselected(r, src, tq, srcProven)
<1>1. CASE d = r /\ r.best # src
  BY <1>1, Zenon
<1>2. CASE d = [r EXCEPT !.best = None, !.maxTq = 0]
  <2>1. /\ DOMAIN d = DOMAIN r /\ d.best = None /\ d.maxTq = 0
        /\ d.last = r.last /\ d.hw = r.hw /\ d.paths = r.paths
    BY <1>2, Zenon DEF IsRecord
  <2> HIDE DEF d
  <2>2. IsRecord(d)
    BY <2>1, EngineAssumption DEF IsRecord, Tq
  <2> QED
    BY <2>1, <2>2, Zenon DEF Tracked, d
<1>3. CASE srcProven /\ \/ d = [r EXCEPT !.best = src, !.maxTq = tq]
                        \/ d = [r EXCEPT !.maxTq = tq] /\ r.best = src
  <2>1. /\ DOMAIN d = DOMAIN r /\ d.best = src /\ d.maxTq = tq
        /\ d.last = r.last /\ d.hw = r.hw /\ d.paths = r.paths
    BY <1>3, Zenon DEF IsRecord
  <2> HIDE DEF d
  <2>2. IsRecord(d)
    BY <2>1, Zenon DEF IsRecord
  <2>3. Tracked(d)
    BY <2>1, Zenon DEF Tracked
  <2> QED
    BY <1>3, <2>1, <2>2, <2>3, Zenon DEF d
<1> QED
  BY <1>1, <1>2, <1>3, Zenon DEF Reselected

\* Folding an OGM into its originator's record.
LEMMA FoldedResult ==
    ASSUME NEW r, IsRecord(r), Tracked(r), NEW f, IsOgm(f),
           NEW tq \in Tq, NEW now \in Stamp, NEW adm,
           NEW srcProven \in BOOLEAN
    PROVE  LET d == Folded(r, f, tq, now, adm, srcProven)
           IN  /\ IsRecord(d) /\ Tracked(d)
               /\ \/ d.best \in {None, r.best}
                  \/ d.best = f.src /\ srcProven
<1> DEFINE seen == IF ContentsAreCurrent(adm) THEN [r EXCEPT !.last = now]
                   ELSE r
           learned == [seen EXCEPT !.paths = Learned(@, f, tq, now)]
           paths == Learned(r.paths, f, tq, now)
<1>1. CASE IsStaleCopy(adm)
  BY <1>1, Zenon DEF Folded
<1>2. CASE ~IsStaleCopy(adm)
  <2>1. /\ DOMAIN seen = DOMAIN r /\ seen.best = r.best
        /\ seen.maxTq = r.maxTq /\ seen.hw = r.hw /\ seen.paths = r.paths
        /\ seen.last \in Stamp
    BY Zenon DEF IsRecord
  <2> HIDE DEF seen
  <2>2. /\ DOMAIN learned = DOMAIN r /\ learned.best = r.best
        /\ learned.maxTq = r.maxTq /\ learned.hw = r.hw
        /\ learned.paths = paths /\ learned.last \in Stamp
    BY <2>1, Zenon DEF IsRecord
  <2>3. Folded(r, f, tq, now, adm, srcProven)
            = Reselected(learned, f.src, tq, srcProven)
    BY <1>2, Zenon DEF Folded, seen
  <2> HIDE DEF learned
  <2>4. /\ IsMap(paths, PathStats)
        /\ \/ /\ f.src \in DOMAIN paths /\ paths[f.src].tq = tq
              /\ DOMAIN r.paths \subseteq DOMAIN paths
              /\ \A n \in DOMAIN r.paths \ {f.src} : paths[n] = r.paths[n]
              /\ f.src \in DOMAIN r.paths => DOMAIN paths = DOMAIN r.paths
              /\ f.src \in DOMAIN r.paths
                    \/ Cardinality(DOMAIN r.paths) < MaxPaths
           \/ /\ paths = r.paths /\ f.src \notin DOMAIN r.paths
              /\ ~(Cardinality(DOMAIN r.paths) < MaxPaths)
    BY LearnedResult DEF IsRecord
  <2> HIDE DEF paths
  <2>5. IsRecord(learned)
    BY <2>2, <2>4, Zenon DEF IsRecord
  <2>6. learned.best = f.src \/ Tracked(learned)
    BY <2>2, <2>4, Zenon DEF Tracked
  <2>7. \/ f.src \in DOMAIN learned.paths /\ learned.paths[f.src].tq = tq
        \/ f.src \notin DOMAIN learned.paths
           /\ ~(Cardinality(DOMAIN learned.paths) < MaxPaths)
    BY <2>2, <2>4, Zenon
  <2>8. f.src \in Node
    BY Zenon DEF IsOgm
  <2>9. LET d == Reselected(learned, f.src, tq, srcProven)
        IN  /\ IsRecord(d) /\ Tracked(d)
            /\ \/ d.best = None
               \/ d.best = learned.best
               \/ d.best = f.src /\ srcProven
    BY <2>5, <2>6, <2>7, <2>8, ReselectedResult, Zenon
  <2> QED
    BY <2>2, <2>3, <2>9, Zenon
<1> QED
  BY <1>1, <1>2, Zenon

\* The members registered stay pairs of a group and a node.
LEMMA MembershipsResult ==
    ASSUME NEW e, EngineOK(e), NEW f, IsOgm(f), NEW adm,
           NEW m \in Memberships(e, f, adm)
    PROVE  m \subseteq Group \X Node
<1>1. CASE m = e.mcast
  BY <1>1, Zenon DEF EngineOK
<1>2. CASE m \in McastUpdates(e.mcast, f.orig, f.groups)
  <2>1. PICK S \in SUBSET f.groups :
            m = {x \in e.mcast : x[2] # f.orig} \cup {<<g, f.orig>> : g \in S}
    BY <1>2, Zenon DEF McastUpdates
  <2>2. {x \in e.mcast : x[2] # f.orig} \subseteq Group \X Node
    BY Zenon DEF EngineOK
  <2>3. {<<g, f.orig>> : g \in S} \subseteq Group \X Node
    BY DEF IsOgm
  <2> QED
    BY <2>1, <2>2, <2>3, Zenon
<1> QED
  BY <1>1, <1>2, Zenon DEF Memberships

LEMMA InsertedTable ==
    ASSUME NEW table, TableOK(table), NEW n \in Node, NEW v, IsRecord(v),
           NEW now, NEW t \in Inserted(table, n, v, now)
    PROVE  /\ TableOK(t) /\ n \in DOMAIN t /\ t[n] = v
           /\ DOMAIN t \subseteq DOMAIN table \cup {n}
           /\ \A o \in DOMAIN t \ {n} : t[o] = table[o]
<1>1. CASE t = With(table, n, v)
  BY <1>1, Zenon DEF TableOK, With
<1>2. CASE \E o : t = With(Without(table, o), n, v)
  BY <1>2, Zenon DEF TableOK, With, Without
<1> QED
  BY <1>1, <1>2, Zenon DEF Inserted, Roomy

\* The originator's record after handle_ogm: its next hop is the one it had,
\* none, or the neighbour heard from if that one is proven.
LEMMA OgmRecordResult ==
    ASSUME NEW e, Good(e), NEW now \in Stamp, NEW f, IsOgm(f), NEW tq \in Tq
    PROVE  LET d == OgmRecord(e, now, f, tq)
           IN  /\ IsRecord(d) /\ Tracked(d)
               /\ \/ d.best = None
                  \/ f.orig \in DOMAIN e.table
                     /\ d.best = e.table[f.orig].best
                  \/ d.best = f.src /\ ProofCurrent(e, now, f.src)
<1> DEFINE old == IF f.orig \in DOMAIN e.table THEN e.table[f.orig]
                  ELSE FreshRecord(f.seqno, now)
           judged == Judged(e, now, f)
           m == [old EXCEPT !.hw = judged.entry]
           srcProven == ProofCurrent(e, now, f.src)
<1>1. IsRecord(old) /\ Tracked(old)
  <2>1. CASE f.orig \in DOMAIN e.table
    BY <2>1, Zenon DEF Good, AllTracked, EngineOK, TableOK
  <2>2. CASE f.orig \notin DOMAIN e.table
    <3>1. old = [last |-> now, best |-> None, maxTq |-> 0,
                 hw |-> Seeded(f.seqno), paths |-> <<>>]
      BY <2>2, Zenon DEF FreshRecord
    <3>2. IsMap(<<>>, PathStats)
      BY DEF IsMap
    <3> HIDE DEF old
    <3>3. IsRecord(old)
      BY <3>1, <3>2, SeededType, EngineAssumption DEF IsRecord, IsOgm, Tq
    <3> QED
      BY <3>1, <3>3, Zenon DEF Tracked
  <2> QED
    BY <2>1, <2>2, Zenon
<1>2. judged.entry \in SeqnoEntry
  <2>1. CASE f.orig \in DOMAIN e.table
    <3>1. e.table[f.orig].hw \in SeqnoEntry
      BY <1>1, <2>1, Zenon DEF IsRecord
    <3> QED
      BY <2>1, <3>1, AdmitResult, Zenon DEF Judged, IsOgm
  <2>2. CASE f.orig \notin DOMAIN e.table
    BY <2>2, SeededType, Zenon DEF Judged, Admitted, IsOgm
  <2> QED
    BY <2>1, <2>2, Zenon
<1>3. \/ old.best = None
      \/ f.orig \in DOMAIN e.table /\ old.best = e.table[f.orig].best
  BY Zenon DEF FreshRecord
<1> HIDE DEF old, judged
<1>4. /\ DOMAIN m = DOMAIN old /\ m.last = old.last /\ m.best = old.best
      /\ m.maxTq = old.maxTq /\ m.paths = old.paths /\ m.hw = judged.entry
  BY <1>1, Zenon DEF IsRecord
<1> HIDE DEF m
<1>5. IsRecord(m)
  BY <1>1, <1>2, <1>4, Zenon DEF IsRecord
<1>6. Tracked(m)
  BY <1>1, <1>4, Zenon DEF Tracked
<1>7. srcProven \in BOOLEAN
  BY Zenon DEF ProofCurrent
<1> HIDE DEF srcProven
<1>8. LET d == Folded(m, f, tq, now, judged.adm, srcProven)
      IN  /\ IsRecord(d) /\ Tracked(d)
          /\ \/ d.best \in {None, m.best}
             \/ d.best = f.src /\ srcProven
  BY <1>5, <1>6, <1>7, FoldedResult
<1>9. OgmRecord(e, now, f, tq) = Folded(m, f, tq, now, judged.adm, srcProven)
  BY Zenon DEF OgmRecord, m, old, judged, srcProven
<1> QED
  BY <1>3, <1>4, <1>8, <1>9, Zenon DEF srcProven

\* handle_ogm keeps the engine well-formed and its next hops proven and
\* tracked; the only key it can add is the originator's.
LEMMA HandleOgmResult ==
    ASSUME NEW e, Good(e), NEW now \in Stamp, NEW f, IsOgm(f),
           NEW quality \in Tq \cup {None},
           NEW r \in HandleOgm(e, now, f, quality)
    PROVE  /\ Good(r.eng)
           /\ r.eng.self = e.self /\ r.eng.requireProof = e.requireProof
           /\ DOMAIN r.eng.table \subseteq DOMAIN e.table \cup {f.orig}
           /\ r.eng.proven = e.proven
<1> DEFINE tq == ComputedTq(f, quality)
           adm == Judged(e, now, f).adm
           new == OgmRecord(e, now, f, tq)
           d == r.eng
<1>1. CASE OgmDropped(e, f)
  BY <1>1 DEF HandleOgm
<1>2. CASE ~OgmDropped(e, f)
  <2>1. PICK table \in Inserted(e.table, f.orig, new, now),
             members \in Memberships(e, f, adm) :
             r = [eng |-> [e EXCEPT !.table = table, !.mcast = members,
                                    !.changed = FALSE],
                  out |-> Reflood(e, f, tq, adm)]
    BY <1>2, Zenon DEF HandleOgm
  <2>2. members \subseteq Group \X Node
    BY MembershipsResult, Zenon DEF Good
  <2>3. tq \in Tq
    BY ComputedTqType, Zenon DEF IsOgm
  <2> HIDE DEF tq, adm
  <2>4. /\ IsRecord(new) /\ Tracked(new)
        /\ \/ new.best = None
           \/ f.orig \in DOMAIN e.table /\ new.best = e.table[f.orig].best
           \/ new.best = f.src /\ ProofCurrent(e, now, f.src)
    BY <2>3, OgmRecordResult, Zenon
  <2> HIDE DEF new, d
  <2>5. /\ TableOK(table) /\ f.orig \in DOMAIN table /\ table[f.orig] = new
        /\ DOMAIN table \subseteq DOMAIN e.table \cup {f.orig}
        /\ \A o \in DOMAIN table \ {f.orig} : table[o] = e.table[o]
    BY <2>4, InsertedTable DEF Good, EngineOK, IsOgm
  <2>6. /\ DOMAIN d = DOMAIN e /\ d.self = e.self
        /\ d.requireProof = e.requireProof /\ d.table = table
        /\ d.proven = e.proven /\ d.challenged = e.challenged
        /\ d.keepalive = e.keepalive /\ d.mcast = members
        /\ d.changed = FALSE
    BY <2>1, Zenon DEF Good, EngineOK, d
  <2>7. EngineOK(d)
    BY <2>2, <2>5, <2>6, Zenon DEF Good, EngineOK
  <2>8. AllTracked(d)
    BY <2>4, <2>5, <2>6, Zenon DEF Good, AllTracked
  <2>9. Backed(d)
    BY <2>4, <2>5, <2>6, Zenon DEF Good, Backed, ProofCurrent
  <2> QED
    BY <2>5, <2>6, <2>7, <2>8, <2>9, Zenon DEF Good, d
<1> QED
  BY <1>1, <1>2, Zenon

-----------------------------------------------------------------------------
(* The node *)

\* The revoked nodes are out of the tables and have no proof on record.
Cleared(e, gone) ==
    /\ gone # {} => e.requireProof
    /\ DOMAIN e.table \cap gone = {}
    /\ DOMAIN e.proven \cap gone = {}

Inv == TypeOK /\ Good(eng) /\ Cleared(eng, revoked)

\* The environment's part of the type invariant.
OthersOK ==
    /\ clock \in Stamp /\ revoked \subseteq Node /\ locked \in BOOLEAN
    /\ sincePurge \in 0 .. PurgePeriod /\ events \in 0 .. MaxEvents
    /\ proofAge \in [Node -> 0 .. AgeCap]

LEMMA TypeOKSplit == TypeOK <=> EngineOK(eng) /\ eng.self = Self /\ OthersOK
BY Zenon DEF TypeOK, OthersOK

LEMMA InitInv == Init => Inv
<1> SUFFICES ASSUME Init PROVE Inv
  BY Zenon
<1> DEFINE e == NewEngine
<1>1. /\ DOMAIN e = {"self", "requireProof", "table", "proven", "challenged",
                     "keepalive", "mcast", "changed"}
      /\ e.self = Self /\ e.requireProof = Authenticated /\ e.table = <<>>
      /\ e.proven = <<>> /\ e.challenged = <<>> /\ e.keepalive = <<>>
      /\ e.mcast = {} /\ e.changed = FALSE
  BY Zenon DEF NewEngine
<1>2. DOMAIN <<>> = {}
  OBVIOUS
<1>3. \A S : IsMap(<<>>, S)
  BY <1>2 DEF IsMap
<1>4. TableOK(<<>>)
  BY <1>2 DEF TableOK
<1>5. eng = e /\ revoked = {}
  BY Zenon DEF Init
<1> HIDE DEF e
<1>6. EngineOK(e)
  BY <1>1, <1>3, <1>4, RouteTableAssumption, ZenonT(20) DEF EngineOK
<1>7. Backed(e) /\ AllTracked(e)
  BY <1>1, <1>2, Zenon DEF Backed, AllTracked
<1>8. OthersOK
  <2>1. 0 \in Stamp
    BY BandsAssumption DEF Stamp, Counter
  <2>2. 0 \in 0 .. AgeCap
    BY BandsAssumption DEF AgeCap
  <2>3. 0 \in 0 .. PurgePeriod /\ 0 \in 0 .. MaxEvents
    BY RouteTableAssumption
  <2> QED
    BY <2>1, <2>2, <2>3, Zenon DEF Init, OthersOK
<1> QED
  BY <1>1, <1>2, <1>5, <1>6, <1>7, <1>8, TypeOKSplit, Zenon
     DEF Inv, Good, Cleared

-----------------------------------------------------------------------------
(* The steps.  Each lemma takes one action. *)

LEMMA RxOgmStep ==
    ASSUME Inv, NEW f \in OgmFrames, NEW q \in Quality,
           NEW newly \in SUBSET (Revocable \ {f.orig}), RxOgm(f, q, newly)
    PROVE  Inv'
<1>1. IsOgm(f)
  BY RouteTableAssumption, Zenon DEF IsOgm, OgmFrame
<1>2. q \in Tq \cup {None}
  BY RouteTableAssumption, Zenon
<1>3. clock \in Stamp /\ revoked \subseteq Node
  BY Zenon DEF Inv, TypeOK
<1>4. PICK e \in IF newly = {} THEN {eng}
                 ELSE RevokeAndPurge(eng, clock, revoked') :
          \E r \in HandleOgm(e, clock, f, q) : eng' = r.eng
  BY Zenon DEF RxOgm
<1>5. revoked' = (revoked \ {f.orig}) \cup newly
  BY Zenon DEF RxOgm
<1>6. /\ Good(e) /\ Shrunk(e, eng)
      /\ DOMAIN e.table \cap revoked' = {}
      /\ DOMAIN e.proven \cap revoked' = {}
  <2>1. CASE newly = {}
    BY <1>4, <1>5, <2>1, Zenon DEF Inv, Cleared, Shrunk
  <2>2. CASE newly # {}
    BY <1>3, <1>4, <2>2, RevokeAndPurgeResult, Zenon DEF Inv, Good
  <2> QED
    BY <2>1, <2>2, Zenon
<1>7. PICK r \in HandleOgm(e, clock, f, q) : eng' = r.eng
  BY <1>4, Zenon
<1>8. /\ Good(r.eng) /\ r.eng.self = e.self
      /\ r.eng.requireProof = e.requireProof
      /\ DOMAIN r.eng.table \subseteq DOMAIN e.table \cup {f.orig}
      /\ r.eng.proven = e.proven
  BY <1>1, <1>2, <1>3, <1>6, <1>7, HandleOgmResult
<1>9. Good(eng')
  BY <1>7, <1>8, Zenon
<1>10. revoked' # {} => eng'.requireProof
  BY <1>5, <1>6, <1>7, <1>8, Zenon DEF RxOgm, Inv, Cleared, Shrunk
<1>11. DOMAIN eng'.table \cap revoked' = {}
  BY <1>5, <1>6, <1>7, <1>8, Zenon
<1>12. DOMAIN eng'.proven \cap revoked' = {}
  BY <1>6, <1>7, <1>8, Zenon
<1>13. eng'.self = Self
  BY <1>6, <1>7, <1>8, Zenon DEF Inv, TypeOK, Shrunk
<1>14. OthersOK'
  BY <1>3, <1>5, RouteTableAssumption
     DEF Inv, TypeOK, OthersOK, RxOgm, Event, Unchanged
<1> QED
  BY <1>9, <1>10, <1>11, <1>12, <1>13, <1>14, Zenon DEF Inv, Good, TypeOK,
     OthersOK, Cleared

\* The actions that add nothing and leave `revoked` alone.
LEMMA ShrinkingStep ==
    ASSUME Inv, Good(eng'), Shrunk(eng', eng), OthersOK', revoked' = revoked
    PROVE  Inv'
BY Zenon DEF Inv, TypeOK, OthersOK, Good, Cleared, Shrunk

LEMMA RxKeepaliveStep ==
    ASSUME Inv, NEW n \in Neighbor, RxKeepalive(n)
    PROVE  Inv'
<1>1. Good(eng') /\ Shrunk(eng', eng)
  BY RouteTableAssumption, HandleKeepaliveResult, Zenon
     DEF Inv, TypeOK, RxKeepalive
<1>2. OthersOK'
  BY RouteTableAssumption
     DEF Inv, TypeOK, OthersOK, RxKeepalive, Event, Unchanged
<1> QED
  BY <1>1, <1>2, ShrinkingStep, Zenon DEF RxKeepalive

LEMMA RxProofStep ==
    ASSUME Inv, NEW n \in Neighbor, NEW iface \in Interface,
           RxProof(n, iface)
    PROVE  Inv'
<1>1. n \in Node /\ n \notin revoked
  BY RouteTableAssumption, Zenon DEF RxProof
<1>2. /\ Good(eng') /\ eng'.self = eng.self
      /\ eng'.requireProof = eng.requireProof
      /\ DOMAIN eng'.table \subseteq DOMAIN eng.table
      /\ DOMAIN eng'.proven \subseteq DOMAIN eng.proven \cup {n}
  BY <1>1, NoteProvenResult DEF Inv, TypeOK, RxProof
<1>3. 0 \in 0 .. AgeCap
  BY BandsAssumption DEF AgeCap
<1>4. proofAge' \in [Node -> 0 .. AgeCap]
  BY <1>3, Zenon DEF Inv, TypeOK, RxProof
<1>5. OthersOK'
  BY <1>4, RouteTableAssumption
     DEF Inv, TypeOK, OthersOK, RxProof, Event
<1>6. revoked' = revoked
  BY Zenon DEF RxProof
<1> QED
  BY <1>1, <1>2, <1>5, <1>6, Zenon DEF Inv, TypeOK, OthersOK, Good, Cleared

LEMMA PollChallengeStep ==
    ASSUME Inv, NEW n \in Neighbor, PollChallenge(n)
    PROVE  Inv'
<1>1. Good(eng') /\ Shrunk(eng', eng)
  BY RouteTableAssumption, NoteChallengedResult, Zenon
     DEF Inv, TypeOK, PollChallenge
<1>2. OthersOK'
  BY RouteTableAssumption
     DEF Inv, TypeOK, OthersOK, PollChallenge, Event, Unchanged
<1> QED
  BY <1>1, <1>2, ShrinkingStep, Zenon DEF PollChallenge

LEMMA SweepKeysStep ==
    ASSUME Inv, NEW usable, SweepKeys(usable)
    PROVE  Inv'
<1>1. Good(eng') /\ Shrunk(eng', eng)
  BY RetainProvenResult, Zenon DEF Inv, SweepKeys
<1>2. OthersOK'
  BY RouteTableAssumption
     DEF Inv, TypeOK, OthersOK, SweepKeys, Event, Unchanged
<1> QED
  BY <1>1, <1>2, ShrinkingStep, Zenon DEF SweepKeys

LEMMA IngestRevocationStep ==
    ASSUME Inv, NEW n \in Revocable, IngestRevocation(n)
    PROVE  Inv'
<1>1. revoked' = revoked \cup {n} /\ revoked' \subseteq Node
  BY RouteTableAssumption, Zenon DEF Inv, TypeOK, IngestRevocation
<1>2. /\ Good(eng') /\ Shrunk(eng', eng)
      /\ DOMAIN eng'.table \cap revoked' = {}
      /\ DOMAIN eng'.proven \cap revoked' = {}
  BY RevokeAndPurgeResult, Zenon DEF Inv, TypeOK, Good, IngestRevocation
<1>3. eng'.requireProof
  BY <1>2, Zenon DEF IngestRevocation, Shrunk
<1>4. OthersOK'
  BY <1>1, RouteTableAssumption
     DEF Inv, TypeOK, OthersOK, IngestRevocation, Event, Unchanged
<1> QED
  BY <1>2, <1>3, <1>4, Zenon
     DEF Inv, TypeOK, OthersOK, Good, Cleared, Shrunk

LEMMA SelfRevokedStep ==
    ASSUME Inv, SelfRevoked
    PROVE  Inv'
<1>1. /\ Good(eng') /\ eng'.self = eng.self
      /\ DOMAIN eng'.table = {} /\ DOMAIN eng'.proven = {}
  BY ResetResult, Zenon DEF Inv, Good, SelfRevoked
<1>2. OthersOK' /\ revoked' = {}
  BY RouteTableAssumption
     DEF Inv, TypeOK, OthersOK, SelfRevoked, Event, Unchanged
<1> QED
  BY <1>1, <1>2, Zenon DEF Inv, TypeOK, OthersOK, Good, Cleared

LEMMA InstallAuthStep ==
    ASSUME Inv, NEW cancelled \in BOOLEAN, InstallAuth(cancelled)
    PROVE  Inv'
<1> DEFINE m == [eng EXCEPT !.requireProof = TRUE]
<1>1. /\ DOMAIN m = DOMAIN eng /\ m.self = eng.self /\ m.table = eng.table
      /\ m.requireProof = TRUE
      /\ m.proven = eng.proven /\ m.challenged = eng.challenged
      /\ m.keepalive = eng.keepalive /\ m.mcast = eng.mcast
      /\ m.changed = eng.changed
  BY Zenon DEF Inv, TypeOK, EngineOK
<1>2. eng' = Reset(m)
  BY Zenon DEF InstallAuth, SetAuth
<1> HIDE DEF m
<1>3. EngineOK(m)
  BY <1>1, ZenonT(20) DEF Inv, TypeOK, EngineOK
<1>4. /\ Good(eng') /\ eng'.self = eng.self
      /\ DOMAIN eng'.table = {} /\ DOMAIN eng'.proven = {}
  BY <1>1, <1>2, <1>3, ResetResult, Zenon
<1>5. OthersOK' /\ revoked' = {}
  BY RouteTableAssumption
     DEF Inv, TypeOK, OthersOK, InstallAuth, Event, Unchanged
<1> QED
  BY <1>4, <1>5, Zenon DEF Inv, TypeOK, OthersOK, Good, Cleared

LEMMA PeriodicTickStep ==
    ASSUME Inv, PeriodicTick
    PROVE  Inv'
<1>1. Good(eng') /\ Shrunk(eng', eng)
  BY PeriodicPurgeResult, Zenon DEF Inv, TypeOK, PeriodicTick
<1>2. OthersOK'
  BY RouteTableAssumption
     DEF Inv, TypeOK, OthersOK, PeriodicTick
<1> QED
  BY <1>1, <1>2, ShrinkingStep, Zenon DEF PeriodicTick

LEMMA TickStep ==
    ASSUME Inv, Tick
    PROVE  Inv'
<1>1. clock' \in Stamp
  BY WrappingAddType, BandsAssumption, Zenon DEF Tick, Inv, TypeOK, Stamp
<1>2. sincePurge' \in 0 .. PurgePeriod
  BY RouteTableAssumption DEF Tick, Inv, TypeOK
<1>3. proofAge' \in [Node -> 0 .. AgeCap]
  <2>1. AgeCap \in Nat
    BY BandsAssumption DEF AgeCap
  <2>2. ASSUME NEW n \in Node
        PROVE  (IF n \notin DOMAIN eng.proven THEN 0
                ELSE IF proofAge[n] < AgeCap THEN proofAge[n] + 1
                ELSE AgeCap) \in 0 .. AgeCap
    <3>1. proofAge[n] \in 0 .. AgeCap
      BY Zenon DEF Inv, TypeOK
    <3> QED
      BY <2>1, <3>1
  <2> QED
    BY <2>2, Zenon DEF Tick
<1>4. UNCHANGED <<eng, revoked, locked, events>>
  BY Zenon DEF Tick
<1> QED
  BY <1>1, <1>2, <1>3, <1>4, Zenon
     DEF Inv, TypeOK, Good, Backed, AllTracked, Cleared

-----------------------------------------------------------------------------
LEMMA NextInv == Inv /\ [Next]_vars => Inv'
<1> SUFFICES ASSUME Inv, [Next]_vars PROVE Inv'
  BY Zenon
<1>1. CASE UNCHANGED vars
  BY <1>1, Zenon DEF vars, Inv, TypeOK, Good, Backed, AllTracked, Cleared
<1>2. CASE \E f \in OgmFrames, q \in Quality :
               \E newly \in {{}} \cup {{n} : n \in Revocable \ {f.orig}} :
                   RxOgm(f, q, newly)
  BY <1>2, RxOgmStep, Zenon
<1>3. CASE \E n \in Neighbor : RxKeepalive(n) \/ PollChallenge(n)
  BY <1>3, RxKeepaliveStep, PollChallengeStep, Zenon
<1>4. CASE \E n \in Neighbor, i \in Interface : RxProof(n, i)
  BY <1>4, RxProofStep, Zenon
<1>5. CASE \E usable \in SUBSET Neighbor : SweepKeys(usable)
  BY <1>5, SweepKeysStep, Zenon
<1>6. CASE \E n \in Revocable : IngestRevocation(n)
  BY <1>6, IngestRevocationStep, Zenon
<1>7. CASE SelfRevoked \/ \E cancelled \in BOOLEAN : InstallAuth(cancelled)
  BY <1>7, SelfRevokedStep, InstallAuthStep, Zenon
<1>8. CASE PeriodicTick \/ Tick
  BY <1>8, PeriodicTickStep, TickStep, Zenon
<1> QED
  BY <1>1, <1>2, <1>3, <1>4, <1>5, <1>6, <1>7, <1>8, Zenon DEF Next

LEMMA Invariant == Spec => []Inv
BY InitInv, NextInv, PTL DEF Spec

\* The routing state of a node is well-formed in every reachable state.
THEOREM TypeCorrect == Spec => []TypeOK
<1>1. Inv => TypeOK
  BY Zenon DEF Inv
<1> QED
  BY <1>1, Invariant, PTL

\* On an authenticated mesh the cached next hop always has a proof on record,
\* whatever sweeps, evictions, revocations and purges take proofs away
\* (every one of those operations recomputes or withdraws what it un-proves).
THEOREM BestAlwaysBacked == Spec => []BestBacked
<1>1. Inv => BestBacked
  BY Zenon DEF Inv, Good, Backed, BestBacked
<1> QED
  BY <1>1, Invariant, PTL

\* The cached metric never drifts from the path it stands for.
THEOREM BestAlwaysTracked == Spec => []BestTracked
<1>1. Inv => BestTracked
  BY Zenon DEF Inv, Good, AllTracked, BestTracked
<1> QED
  BY <1>1, Invariant, PTL

\* Once a revocation is applied, no route leads to the revoked node or
\* through it, neither by the cached next hop nor by the hot path's own
\* selection, until the node is re-admitted.
THEOREM RevokedStaysGone == Spec => []RevokedGone
<1>1. ASSUME Inv PROVE RevokedGone
  <2>1. None \notin revoked
    BY <1>1, EngineAssumption, Zenon DEF Inv, TypeOK
  <2>2. ASSUME NEW o \in DOMAIN eng.table
        PROVE  /\ eng.table[o].best \notin revoked
               /\ NextHop(eng, clock, o) \cap revoked = {}
    <3>1. eng.table[o].best \notin revoked
      BY <1>1, <2>1, Zenon DEF Inv, Good, Backed, Cleared
    <3>2. NextHop(eng, clock, o) \subseteq Selectable(eng, clock)
      BY Zenon DEF NextHop, MostEffective
    <3>3. Selectable(eng, clock) \cap revoked = {}
      BY <1>1, Zenon DEF Inv, Cleared, Selectable, ProofCurrent
    <3> QED
      BY <3>1, <3>2, <3>3, Zenon
  <2> QED
    BY <1>1, <2>2, Zenon DEF RevokedGone, Inv, Cleared
<1> QED
  BY <1>1, Invariant, PTL

-----------------------------------------------------------------------------
(* The age of proofs.  ProofExpires compares a true age with what the       *)
(* wrapping clock shows of it; it needs every stamp to be the clock's       *)
(* reading that long ago, and every age to stay below half the clock's      *)
(* range, which the ceiling of the last purge and the time since give.      *)

StampsTrue ==
    /\ locked => DOMAIN eng.proven = {}
    /\ \A n \in DOMAIN eng.proven :
          /\ proofAge[n] < StampAgeCeiling + sincePurge
          /\ clock = WrappingAdd(eng.proven[n].last, proofAge[n], HalfClock)

\* elapsed_since is exact while the true age is within half the range.
LEMMA ElapsedExact ==
    ASSUME NEW last \in Stamp, NEW gap \in Nat, gap < HalfClock
    PROVE  Elapsed(WrappingAdd(last, gap, HalfClock), last) = gap
BY BandsAssumption
   DEF Stamp, Counter, Elapsed, ElapsedSince, SignedDiff, WrappingAdd

LEMMA WrappingAddOne ==
    ASSUME NEW last \in Stamp, NEW gap \in Nat, gap < HalfClock
    PROVE  WrappingAdd(WrappingAdd(last, gap, HalfClock), 1, HalfClock)
               = WrappingAdd(last, gap + 1, HalfClock)
BY BandsAssumption DEF Stamp, Counter, WrappingAdd

LEMMA HeldStamp ==
    ASSUME Inv, StampsTrue, NEW n \in DOMAIN eng.proven
    PROVE  /\ n \in Node /\ eng.proven[n].last \in Stamp
           /\ proofAge[n] \in Nat /\ proofAge[n] < HalfClock
           /\ proofAge[n] < StampAgeCeiling + sincePurge
           /\ Elapsed(clock, eng.proven[n].last) = proofAge[n]
<1>1. n \in Node /\ eng.proven[n].last \in Stamp
  BY Zenon DEF Inv, TypeOK, EngineOK, IsMap, Proof
<1>2. proofAge[n] \in Nat
  BY <1>1, BandsAssumption DEF Inv, TypeOK, AgeCap
<1>3. proofAge[n] < StampAgeCeiling + sincePurge
  BY Zenon DEF StampsTrue
<1>4. /\ sincePurge \in Nat /\ sincePurge <= PurgePeriod /\ PurgePeriod \in Nat
      /\ StampAgeCeiling \in Nat /\ HalfClock \in Nat
      /\ StampAgeCeiling + PurgePeriod <= HalfClock
  BY RouteTableAssumption, EngineAssumption, BandsAssumption DEF Inv, TypeOK
<1>5. proofAge[n] < HalfClock
  BY <1>2, <1>3, <1>4
<1> QED
  BY <1>1, <1>2, <1>3, <1>5, ElapsedExact, Zenon DEF StampsTrue

\* The actions that only take proofs away.
LEMMA KeptStamps ==
    ASSUME StampsTrue, UNCHANGED <<clock, sincePurge, proofAge>>,
           DOMAIN eng'.proven \subseteq DOMAIN eng.proven,
           \A n \in DOMAIN eng'.proven : eng'.proven[n] = eng.proven[n],
           locked' => locked \/ DOMAIN eng'.proven = {}
    PROVE  StampsTrue'
BY Zenon DEF StampsTrue

LEMMA OgmStamps ==
    ASSUME Inv, StampsTrue, NEW f \in OgmFrames, NEW q \in Quality,
           NEW newly \in SUBSET (Revocable \ {f.orig}), RxOgm(f, q, newly)
    PROVE  StampsTrue'
<1>1. IsOgm(f) /\ q \in Tq \cup {None} /\ clock \in Stamp
  BY RouteTableAssumption, Zenon DEF IsOgm, OgmFrame, Inv, TypeOK
<1>2. PICK e \in IF newly = {} THEN {eng}
                 ELSE RevokeAndPurge(eng, clock, revoked') :
          \E r \in HandleOgm(e, clock, f, q) : eng' = r.eng
  BY Zenon DEF RxOgm
<1>3. Good(e) /\ Shrunk(e, eng)
  <2>1. CASE newly = {}
    BY <1>2, <2>1, Zenon DEF Inv, Shrunk
  <2>2. CASE newly # {}
    BY <1>1, <1>2, <2>2, RevokeAndPurgeResult, Zenon DEF Inv, Good
  <2> QED
    BY <2>1, <2>2, Zenon
<1>4. eng'.proven = e.proven
  BY <1>1, <1>2, <1>3, HandleOgmResult
<1> QED
  BY <1>3, <1>4, KeptStamps, Zenon DEF RxOgm, Unchanged, Shrunk

LEMMA ShrinkingStamps ==
    ASSUME Inv, StampsTrue,
           \/ \E n \in Neighbor : RxKeepalive(n) \/ PollChallenge(n)
           \/ \E usable \in SUBSET Neighbor : SweepKeys(usable)
           \/ \E n \in Revocable : IngestRevocation(n)
    PROVE  StampsTrue'
<1>1. UNCHANGED <<clock, sincePurge, proofAge, locked>>
  BY Zenon
     DEF RxKeepalive, PollChallenge, SweepKeys, IngestRevocation, Unchanged
<1>2. clock \in Stamp /\ Neighbor \subseteq Node /\ Good(eng) /\ EngineOK(eng)
  BY RouteTableAssumption, Zenon DEF Inv, TypeOK
<1>3. Shrunk(eng', eng)
  <2>1. CASE \E n \in Neighbor : RxKeepalive(n)
    BY <1>2, <2>1, HandleKeepaliveResult, Zenon DEF RxKeepalive
  <2>2. CASE \E n \in Neighbor : PollChallenge(n)
    BY <1>2, <2>2, NoteChallengedResult, Zenon DEF PollChallenge
  <2>3. CASE \E usable \in SUBSET Neighbor : SweepKeys(usable)
    BY <1>2, <2>3, RetainProvenResult, Zenon DEF SweepKeys
  <2>4. CASE \E n \in Revocable : IngestRevocation(n)
    BY <1>2, <2>4, RevokeAndPurgeResult, Zenon DEF IngestRevocation
  <2> QED
    BY <2>1, <2>2, <2>3, <2>4, Zenon
<1> QED
  BY <1>1, <1>3, KeptStamps, Zenon DEF Shrunk

LEMMA ResetStamps ==
    ASSUME Inv, StampsTrue,
           SelfRevoked \/ \E cancelled \in BOOLEAN : InstallAuth(cancelled)
    PROVE  StampsTrue'
<1>1. eng'.proven = <<>>
  BY Zenon DEF SelfRevoked, InstallAuth, SetAuth, Reset, Inv, TypeOK, EngineOK
<1>2. DOMAIN eng'.proven = {}
  BY <1>1
<1> QED
  BY <1>2, Zenon DEF StampsTrue

LEMMA ProofStamps ==
    ASSUME Inv, StampsTrue, NEW n \in Neighbor, NEW iface \in Interface,
           RxProof(n, iface)
    PROVE  StampsTrue'
<1>1. n \in Node /\ clock \in Stamp
  BY RouteTableAssumption, Zenon DEF Inv, TypeOK
<1>2. /\ DOMAIN eng'.proven \subseteq DOMAIN eng.proven \cup {n}
      /\ \A m \in DOMAIN eng'.proven :
             IF m = n THEN eng'.proven[m].last = clock
             ELSE eng'.proven[m] = eng.proven[m]
  BY <1>1, NoteProvenResult DEF Inv, RxProof
<1>3. /\ UNCHANGED <<clock, sincePurge, locked>> /\ ~locked
      /\ proofAge' = [proofAge EXCEPT ![n] = 0]
  BY Zenon DEF RxProof
<1>4. ASSUME NEW m \in DOMAIN eng'.proven
      PROVE  /\ proofAge'[m] < StampAgeCeiling + sincePurge'
             /\ clock' =
                  WrappingAdd(eng'.proven[m].last, proofAge'[m], HalfClock)
  <2>1. CASE m = n
    <3>1. proofAge'[m] = 0
      BY <1>1, <1>3, <2>1, Zenon DEF Inv, TypeOK
    <3>2. 0 < StampAgeCeiling + sincePurge
      <4>1. StampAgeCeiling \in Nat \ {0} /\ sincePurge \in Nat
        BY EngineAssumption, RouteTableAssumption DEF Inv, TypeOK
      <4> QED
        BY <4>1
    <3>3. WrappingAdd(clock, 0, HalfClock) = clock
      BY <1>1, BandsAssumption DEF WrappingAdd, Stamp, Counter
    <3> QED
      BY <1>2, <1>3, <2>1, <3>1, <3>2, <3>3, Zenon
  <2>2. CASE m # n
    <3>1. m \in DOMAIN eng.proven /\ m \in Node
      BY <1>2, <2>2, Zenon DEF Inv, TypeOK, EngineOK, IsMap
    <3>2. proofAge'[m] = proofAge[m]
      BY <1>3, <2>2, <3>1, Zenon DEF Inv, TypeOK
    <3> QED
      BY <1>2, <1>3, <2>2, <3>1, <3>2, Zenon DEF StampsTrue
  <2> QED
    BY <2>1, <2>2, Zenon
<1> QED
  BY <1>3, <1>4, Zenon DEF StampsTrue

\* Only what shows less than the ceiling survives a purge, and what shows is
\* true.
LEMMA PurgeStamps ==
    ASSUME Inv, StampsTrue, PeriodicTick
    PROVE  StampsTrue'
<1>1. /\ Shrunk(eng', eng)
      /\ \A n \in DOMAIN eng'.proven :
             Elapsed(clock, eng'.proven[n].last) < StampAgeCeiling
  BY PeriodicPurgeResult, Zenon DEF Inv, TypeOK, PeriodicTick
<1>2. UNCHANGED <<clock, locked, proofAge>> /\ sincePurge' = 0 /\ ~locked
  BY Zenon DEF PeriodicTick
<1>3. ASSUME NEW n \in DOMAIN eng'.proven
      PROVE  /\ proofAge'[n] < StampAgeCeiling + sincePurge'
             /\ clock' =
                  WrappingAdd(eng'.proven[n].last, proofAge'[n], HalfClock)
  <2>1. n \in DOMAIN eng.proven /\ eng'.proven[n] = eng.proven[n]
    BY <1>1, Zenon DEF Shrunk
  <2>2. proofAge[n] < StampAgeCeiling
    BY <1>1, <2>1, HeldStamp, Zenon
  <2>3. StampAgeCeiling + 0 = StampAgeCeiling
    BY EngineAssumption
  <2> QED
    BY <1>2, <2>1, <2>2, <2>3, Zenon DEF StampsTrue
<1> QED
  BY <1>2, <1>3, Zenon DEF StampsTrue

LEMMA TickStamps ==
    ASSUME Inv, StampsTrue, Tick
    PROVE  StampsTrue'
<1>1. CASE locked
  BY <1>1, Zenon DEF StampsTrue, Tick
<1>2. CASE ~locked
  <2>1. /\ sincePurge' = sincePurge + 1 /\ UNCHANGED <<eng, locked>>
        /\ clock' = WrappingAdd(clock, 1, HalfClock)
    BY <1>2, Zenon DEF Tick
  <2>2. ASSUME NEW n \in DOMAIN eng.proven
        PROVE  /\ proofAge'[n] < StampAgeCeiling + sincePurge'
               /\ clock' =
                    WrappingAdd(eng.proven[n].last, proofAge'[n], HalfClock)
    <3>1. /\ n \in Node /\ eng.proven[n].last \in Stamp
          /\ proofAge[n] \in Nat /\ proofAge[n] < HalfClock
          /\ proofAge[n] < StampAgeCeiling + sincePurge
      BY HeldStamp, Zenon
    <3>2. HalfClock \in Nat /\ StampAgeCeiling \in Nat /\ sincePurge \in Nat
      BY BandsAssumption, EngineAssumption, RouteTableAssumption
         DEF Inv, TypeOK
    <3>3. proofAge'[n] = proofAge[n] + 1
      BY <3>1, <3>2 DEF Tick, AgeCap
    <3>4. proofAge'[n] < StampAgeCeiling + sincePurge'
      BY <2>1, <3>1, <3>2, <3>3
    <3> QED
      BY <2>1, <3>1, <3>3, <3>4, WrappingAddOne, Zenon DEF StampsTrue
  <2> QED
    BY <1>2, <2>1, <2>2, Zenon DEF StampsTrue
<1> QED
  BY <1>1, <1>2, Zenon

LEMMA NextStamps == Inv /\ StampsTrue /\ [Next]_vars => StampsTrue'
<1> SUFFICES ASSUME Inv, StampsTrue, [Next]_vars PROVE StampsTrue'
  BY Zenon
<1>1. CASE UNCHANGED vars
  BY <1>1, Zenon DEF vars, StampsTrue
<1>2. CASE \E f \in OgmFrames, q \in Quality :
               \E newly \in {{}} \cup {{n} : n \in Revocable \ {f.orig}} :
                   RxOgm(f, q, newly)
  BY <1>2, OgmStamps, Zenon
<1>3. CASE \E n \in Neighbor, i \in Interface : RxProof(n, i)
  BY <1>3, ProofStamps, Zenon
<1> QED
  BY <1>1, <1>2, <1>3, ShrinkingStamps, ResetStamps, PurgeStamps, TickStamps,
     Zenon
     DEF Next

LEMMA StampsInvariant == Spec => [](Inv /\ StampsTrue)
<1>1. Init => StampsTrue
  BY DEF Init, NewEngine, StampsTrue
<1> QED
  BY <1>1, InitInv, NextInv, NextStamps, PTL DEF Spec

\* A proof past its budget never counts, for a clock that wraps any number
\* of times: purge_stale takes the stamp away before elapsed_since would
\* misread it.
THEOREM ProofAlwaysExpires == Spec => []ProofExpires
<1>1. ASSUME Inv, StampsTrue PROVE ProofExpires
  <2> SUFFICES ASSUME NEW n \in DOMAIN eng.proven, eng.requireProof,
                      proofAge[n] > SeedInterval * MaxMissedProofs
               PROVE  ~ProofCurrent(eng, clock, n)
    BY Zenon DEF ProofExpires
  <2>1. Elapsed(clock, eng.proven[n].last) = proofAge[n]
    BY <1>1, HeldStamp, Zenon
  <2> QED
    BY <2>1, Zenon DEF ProofCurrent, IsStale
<1> QED
  BY <1>1, StampsInvariant, PTL

-----------------------------------------------------------------------------
(* The OGM timers.                                                         *)

\* The larger of two numbers.
LEMMA MaxOfTwo ==
    ASSUME NEW a \in Int, NEW b \in Int
    PROVE  Max({a, b}) = IF a >= b THEN a ELSE b
  BY DEF Max

\* The smaller of two numbers.
LEMMA MinOfTwo ==
    ASSUME NEW a \in Int, NEW b \in Int
    PROVE  Min({a, b}) = IF a <= b THEN a ELSE b
  BY DEF Min

\* A set of natural numbers has a least member.
LEMMA MinIsIn ==
    ASSUME NEW S \in SUBSET Nat, S # {}
    PROVE  Min(S) \in S
<1> DEFINE R == OpToRel(<, Nat)
<1>1. \E x \in S : \A y \in S : ~(<<y, x>> \in R)
  <2>1. IsWellFoundedOn(R, Nat)
    BY NatLessThanWellFounded, Zenon
  <2> HIDE DEF R
  <2> QED BY <2>1, WFMin, Zenon
<1>2. \A x, y \in Nat : x < y => <<x, y>> \in R
  BY DEF OpToRel
<1> HIDE DEF R
<1>3. PICK x \in S : \A y \in S : ~(y < x)
  BY <1>1, <1>2, Zenon
<1>4. \A y \in S : x <= y
  BY <1>3
<1> QED BY <1>4, Zenon DEF Min

\* A function changed at one point, written out.
LEMMA PutAt ==
    ASSUME NEW S, NEW f, f = [j \in S |-> f[j]], NEW i \in S, NEW v
    PROVE  [f EXCEPT ![i] = v] = [j \in S |-> IF j = i THEN v ELSE f[j]]
<1>1. DOMAIN f = S
  OBVIOUS
<1>2. [f EXCEPT ![i] = v] = [j \in DOMAIN f |-> IF j = i THEN v ELSE f[j]]
  OBVIOUS
<1> QED BY <1>1, <1>2

\* The longest interval bounds every instant the timers hold.
LEMMA MaxAgeInt == MaxAge \in Int
  BY TimerAssumption DEF MaxAge, Max

\* A jittered wait is positive and shorter than the interval.
LEMMA JitteredSpan ==
    ASSUME NEW span \in Nat, span >= 2, NEW wait \in Jittered(span)
    PROVE  wait \in Int /\ 1 <= wait /\ wait < span
<1> DEFINE half == span \div 2
<1>1. half \in Nat /\ 1 <= half /\ half < span
  OBVIOUS
<1> HIDE DEF half
<1>2. Max({span - half, 1}) = span - half
  BY <1>1, MaxOfTwo
<1>3. wait \in half .. half + (span - half) - 1
  BY <1>2 DEF Jittered, half
<1> QED BY <1>1, <1>3

\* A Trickle timer.
TimerRow ==
    [i_min : Nat, i_max : Nat, interval : Nat, next_fire : Int]

\* A timer's bounds are in order, and its interval between them.
Sound(t) ==
    /\ t \in TimerRow
    /\ 2 <= t.i_min /\ t.i_min <= t.interval /\ t.interval <= t.i_max

\* The clock a handler may be given is not ahead of the true one.
Past(now) == now \in Int /\ now <= 0

\* A reset keeps a fire due within i_min or brings it forward; it makes none
\* due that was not.
LEMMA ResetTimer ==
    ASSUME NEW t, Sound(t), NEW now, Past(now), NEW u \in reset(t, now)
    PROVE  /\ Sound(u) /\ u.i_min = t.i_min /\ u.i_max = t.i_max
           /\ u.next_fire <= t.next_fire /\ u.next_fire <= t.i_min
           /\ FireDue(u.next_fire, now) <=> FireDue(t.next_fire, now)
<1>1. /\ t.i_min \in Nat /\ t.i_max \in Nat /\ t.interval \in Nat
      /\ t.next_fire \in Int /\ now \in Int /\ now <= 0 /\ 2 <= t.i_min
      /\ t.i_min <= t.i_max
  BY DEF Sound, TimerRow, Past
<1>2. PICK at \in IF t.next_fire > now + t.i_min
                 THEN After(now, t.i_min) ELSE {t.next_fire} :
          u = [i_min |-> t.i_min, i_max |-> t.i_max, interval |-> t.i_min,
               next_fire |-> at]
  BY Zenon DEF reset, Timer
<1>3. /\ at \in Int /\ at <= t.next_fire /\ at <= t.i_min
      /\ now >= at <=> now >= t.next_fire
  <2>1. CASE t.next_fire > now + t.i_min
    <3>1. PICK wait \in Jittered(t.i_min) : at = now + wait
      BY <1>2, <2>1, Zenon DEF After
    <3>2. wait \in Int /\ 1 <= wait /\ wait < t.i_min
      BY <1>1, JitteredSpan
    <3> QED BY <1>1, <2>1, <3>1, <3>2
  <2>2. CASE ~(t.next_fire > now + t.i_min)
    <3>1. at = t.next_fire
      BY <1>2, <2>2, Zenon
    <3> QED BY <1>1, <2>2, <3>1
  <2> QED BY <2>1, <2>2
<1>4. u.next_fire = at /\ u.i_min = t.i_min /\ u.i_max = t.i_max
          /\ u.interval = t.i_min
  BY <1>2
<1>5. u \in TimerRow
  BY <1>1, <1>2, <1>3 DEF TimerRow
<1> QED BY <1>1, <1>3, <1>4, <1>5 DEF Sound, FireDue

\* A timer that has fired is next due later, and within i_max.
LEMMA EmittedTimer ==
    ASSUME NEW t, Sound(t), NEW now, Past(now), NEW u \in on_emit(t, now)
    PROVE  /\ Sound(u) /\ u.i_min = t.i_min /\ u.i_max = t.i_max
           /\ u.next_fire <= t.i_max /\ ~FireDue(u.next_fire, now)
<1>1. /\ t.i_min \in Nat /\ t.i_max \in Nat /\ t.interval \in Nat
      /\ now \in Int /\ now <= 0 /\ 2 <= t.i_min
      /\ t.i_min <= t.interval /\ t.interval <= t.i_max
  BY DEF Sound, TimerRow, Past
<1> DEFINE interval == Min({2 * t.interval, t.i_max})
<1>2. interval \in Nat /\ t.i_min <= interval /\ interval <= t.i_max
  BY <1>1, MinOfTwo
<1>3. PICK at \in After(now, t.interval) :
          u = [i_min |-> t.i_min, i_max |-> t.i_max, interval |-> interval,
               next_fire |-> at]
  BY Zenon DEF on_emit, Timer
<1>4. PICK wait \in Jittered(t.interval) : at = now + wait
  BY <1>3, Zenon DEF After
<1>5. wait \in Int /\ 1 <= wait /\ wait < t.interval
  BY <1>1, JitteredSpan
<1> HIDE DEF interval
<1>6. at \in Int /\ at <= t.i_max /\ ~(now >= at)
  BY <1>1, <1>4, <1>5
<1>7. u.next_fire = at /\ u.i_min = t.i_min /\ u.i_max = t.i_max
          /\ u.interval = interval
  BY <1>3
<1>8. u \in TimerRow
  BY <1>1, <1>2, <1>3, <1>6 DEF TimerRow
<1> QED BY <1>1, <1>2, <1>6, <1>7, <1>8 DEF Sound, FireDue

\* A new timer is due within its i_min.
LEMMA FreshTimer ==
    ASSUME NEW b \in Bounds, NEW now, Past(now), NEW u \in NewTimer(b, now)
    PROVE  Sound(u) /\ u.next_fire <= b[1] /\ b[1] \in Int
<1>1. b[1] \in Nat /\ b[2] \in Nat /\ 2 <= b[1] /\ b[1] <= b[2]
  BY TimerAssumption, Zenon
<1>2. PICK at \in After(now, b[1]) :
          u = [i_min |-> b[1], i_max |-> b[2], interval |-> b[1],
               next_fire |-> at]
  BY DEF NewTimer, Timer
<1>3. PICK wait \in Jittered(b[1]) : at = now + wait
  BY <1>2, Zenon DEF After
<1>4. wait \in Int /\ 1 <= wait /\ wait < b[1]
  BY <1>1, JitteredSpan
<1>5. at \in Int /\ at <= b[1]
  BY <1>1, <1>3, <1>4 DEF Past
<1>6. u.next_fire = at /\ u.i_min = b[1] /\ u.i_max = b[2] /\ u.interval = b[1]
  BY <1>2
<1>7. u \in TimerRow
  BY <1>1, <1>2, <1>5 DEF TimerRow
<1> QED BY <1>1, <1>5, <1>6, <1>7 DEF Sound

-----------------------------------------------------------------------------
(* The inductive invariant. *)

\* The timers and the instants owed are well formed and in order.
TimersSound ==
    /\ timers = [i \in Iface |-> timers[i]]
    /\ latest = [i \in Iface |-> latest[i]]
    /\ \A i \in Iface : Sound(timers[i]) /\ latest[i] \in Int
                                /\ timers[i].next_fire <= latest[i]

\* Between two rounds of a poll the timers still due are the ones that were
\* due at its start and have not fired.
PollCounts ==
    /\ due \subseteq Iface /\ fired \in [Iface -> {0, 1}]
    /\ \A i \in Iface : fired[i] = 1 => i \in due
    /\ stage \in {"turn", "wait"} => \A i \in Iface : fired[i] = 0
    /\ stage = "ogms" => DueNow = {i \in due : fired[i] = 0}
    /\ stage = "keepalives" => \A i \in due : fired[i] = 1

\* The inductive invariant.
ScheduleInv ==
    /\ age \in Nat /\ rereads \in BOOLEAN
    /\ stage \in {"turn", "wait", "ogms", "keepalives"}
    /\ TimersSound /\ PollCounts

\* The instants the loop hands to the timers are not ahead of the clock.
LEMMA InstantsPast ==
    ASSUME age \in Nat
    PROVE  Past(Sampled) /\ Past(PollNow)
  BY DEF Past, Sampled, PollNow

\* Resetting every timer puts none off: one that was due stays due, and each
\* fires within the shortest interval.
LEMMA ResetAll ==
    ASSUME TimersSound, NEW now, Past(now),
               NEW ts \in reset_ogm_timers(timers, now)
    PROVE  /\ ts = [i \in Iface |-> ts[i]]
           /\ \A i \in Iface :
                 /\ Sound(ts[i]) /\ ts[i].i_min = timers[i].i_min
                 /\ ts[i].i_max = timers[i].i_max
                 /\ Owed[i] \in Int /\ ts[i].next_fire <= Owed[i]
                 /\ FireDue(ts[i].next_fire, now)
                       <=> FireDue(timers[i].next_fire, now)
<1>1. /\ ts \in [Iface -> UNION {reset(timers[i], now) : i \in Iface}]
      /\ \A i \in Iface : ts[i] \in reset(timers[i], now)
  BY Zenon DEF reset_ogm_timers
<1>2. ts = [i \in Iface |-> ts[i]]
  BY <1>1
<1>3. ASSUME NEW i \in Iface
      PROVE  /\ Sound(ts[i]) /\ ts[i].i_min = timers[i].i_min
             /\ ts[i].i_max = timers[i].i_max
             /\ ts[i].next_fire <= timers[i].next_fire
             /\ ts[i].next_fire <= timers[i].i_min
             /\ FireDue(ts[i].next_fire, now)
                   <=> FireDue(timers[i].next_fire, now)
  <2>1. Sound(timers[i]) /\ ts[i] \in reset(timers[i], now)
    BY <1>1, Zenon DEF TimersSound
  <2> QED BY <2>1, ResetTimer, Zenon
<1>4. ASSUME NEW i \in Iface
      PROVE  Owed[i] \in Int /\ ts[i].next_fire <= Owed[i]
  <2>1. /\ timers[i].i_min \in Int /\ latest[i] \in Int
        /\ timers[i].next_fire \in Int /\ timers[i].next_fire <= latest[i]
        /\ ts[i].next_fire \in Int
    BY <1>3 DEF TimersSound, Sound, TimerRow
  <2>2. Owed[i] = Min({latest[i], timers[i].i_min})
    BY DEF Owed
  <2> QED BY <1>3, <2>1, <2>2, MinOfTwo
<1> QED BY <1>2, <1>3, <1>4, Zenon

\* What a frame or a request that resets the timers leaves.
LEMMA ResetsSound ==
    ASSUME TimersSound, age \in Nat, Resets
    PROVE  TimersSound'
<1>1. /\ timers' = [i \in Iface |-> timers'[i]]
      /\ \A i \in Iface : Sound(timers'[i]) /\ Owed[i] \in Int
                                  /\ timers'[i].next_fire <= Owed[i]
  BY ResetAll, InstantsPast, Zenon DEF Resets
<1>2. latest' = [i \in Iface |-> latest'[i]] /\ latest' = Owed
  BY DEF Resets, Owed
<1> QED BY <1>1, <1>2, Zenon DEF TimersSound

\* A tick keeps the order of two instants.
LEMMA SoonerKeeps ==
    ASSUME NEW a \in Int, NEW b \in Int, a <= b
    PROVE  Sooner(a) \in Int /\ Sooner(b) \in Int /\ Sooner(a) <= Sooner(b)
<1>1. /\ Sooner(a) = IF a - 1 >= -MaxAge THEN a - 1 ELSE -MaxAge
      /\ Sooner(b) = IF b - 1 >= -MaxAge THEN b - 1 ELSE -MaxAge
  BY MaxAgeInt, MaxOfTwo DEF Sooner
<1> QED BY <1>1, MaxAgeInt

\* Fresh timers satisfy the invariant.
LEMMA ScheduleInit == TimerInit => ScheduleInv
<1> SUFFICES ASSUME TimerInit PROVE ScheduleInv
  OBVIOUS
<1>1. PICK b \in [Iface -> Bounds] :
        /\ timers \in [Iface -> UNION {NewTimer(b[i], 0) : i \in Iface}]
        /\ \A i \in Iface : timers[i] \in NewTimer(b[i], 0)
        /\ latest = [i \in Iface |-> b[i][1]]
  BY Zenon DEF TimerInit
<1>2. ASSUME NEW i \in Iface
      PROVE  Sound(timers[i]) /\ latest[i] \in Int
                /\ timers[i].next_fire <= latest[i]
  <2>1. b[i] \in Bounds /\ latest[i] = b[i][1]
            /\ timers[i] \in NewTimer(b[i], 0)
    BY <1>1
  <2>2. Past(0)
    BY DEF Past
  <2> QED BY <2>1, <2>2, FreshTimer, Zenon
<1>3. timers = [i \in Iface |-> timers[i]]
          /\ latest = [i \in Iface |-> latest[i]]
  BY <1>1
<1>4. TimersSound
  BY <1>2, <1>3, Zenon DEF TimersSound
<1>5. age \in Nat /\ rereads \in BOOLEAN /\ stage = "turn" /\ due = {}
      /\ fired = [i \in Iface |-> 0]
  BY DEF TimerInit
<1>6. PollCounts
  BY <1>5 DEF PollCounts
<1> QED BY <1>4, <1>5, <1>6 DEF ScheduleInv

\* A handler outside a poll leaves the poll's counts as they were.
LEMMA HandledKeeps ==
    ASSUME ScheduleInv, Handled, TimersSound', UNCHANGED rereads
    PROVE  ScheduleInv'
<1>1. stage = "wait" /\ stage' = "turn" /\ age' = 0 /\ UNCHANGED <<due, fired>>
  BY DEF Handled
<1>2. PollCounts'
  BY <1>1 DEF ScheduleInv, PollCounts
<1>3. rereads' \in BOOLEAN
  BY Zenon DEF ScheduleInv
<1> QED BY <1>1, <1>2, <1>3 DEF ScheduleInv

\* An OGM received, which may latch a change of the topology.
LEMMA HandleOgmKeeps ==
    ASSUME ScheduleInv, NEW flag \in BOOLEAN, handle_ogm(flag),
               UNCHANGED rereads
    PROVE  ScheduleInv'
<1>1. Handled /\ (Resets \/ UNCHANGED <<timers, latest>>)
  BY Zenon DEF handle_ogm
<1>2. TimersSound /\ age \in Nat
  BY Zenon DEF ScheduleInv
<1>3. TimersSound'
  <2>1. CASE Resets
    BY <1>2, <2>1, ResetsSound, Zenon
  <2>2. CASE UNCHANGED <<timers, latest>>
    BY <1>2, <2>2 DEF TimersSound
  <2> QED BY <1>1, <2>1, <2>2, Zenon
<1> QED BY <1>1, <1>3, HandledKeeps, Zenon

\* A request that resets the timers.
LEMMA RequestKeeps ==
    ASSUME ScheduleInv, Handled, Resets, UNCHANGED rereads
    PROVE  ScheduleInv'
<1>1. TimersSound /\ age \in Nat
  BY Zenon DEF ScheduleInv
<1> QED BY <1>1, ResetsSound, HandledKeeps, Zenon

\* New bounds for one interface, whose timer starts afresh.
LEMMA ConfigureKeeps ==
    ASSUME ScheduleInv, NEW i \in Iface, NEW b \in Bounds,
           configure_interface_ogm(i, b), UNCHANGED rereads
    PROVE  ScheduleInv'
<1>1. PICK t \in NewTimer(b, Sampled) :
        /\ Handled /\ timers' = [timers EXCEPT ![i] = t]
        /\ latest' = [latest EXCEPT ![i] = b[1]]
  BY Zenon DEF configure_interface_ogm
<1>2. TimersSound /\ Past(Sampled)
  BY InstantsPast, Zenon DEF ScheduleInv
<1>3. Sound(t) /\ t.next_fire <= b[1] /\ b[1] \in Int
  BY <1>2, FreshTimer, Zenon
<1>4. /\ timers = [j \in Iface |-> timers[j]]
      /\ latest = [j \in Iface |-> latest[j]]
      /\ \A j \in Iface : Sound(timers[j]) /\ latest[j] \in Int
                                  /\ timers[j].next_fire <= latest[j]
  BY <1>2, Zenon DEF TimersSound
<1>5. /\ timers' = [j \in Iface |-> IF j = i THEN t ELSE timers[j]]
      /\ latest' = [j \in Iface |-> IF j = i THEN b[1] ELSE latest[j]]
  BY <1>1, <1>4, PutAt, Zenon
<1>6. TimersSound'
  <2>1. \A j \in Iface : /\ timers'[j] = IF j = i THEN t ELSE timers[j]
                         /\ latest'[j] = IF j = i THEN b[1] ELSE latest[j]
    BY <1>5, Zenon
  <2>2. ASSUME NEW j \in Iface
        PROVE  Sound(timers'[j]) /\ latest'[j] \in Int
                                 /\ timers'[j].next_fire <= latest'[j]
    <3>1. CASE j = i
      BY <1>3, <2>1, <3>1, Zenon
    <3>2. CASE j # i
      BY <1>4, <2>1, <3>2, Zenon
    <3> QED BY <3>1, <3>2
  <2>3. /\ timers' = [j \in Iface |-> timers'[j]]
        /\ latest' = [j \in Iface |-> latest'[j]]
    BY <1>5
  <2> QED BY <2>2, <2>3, Zenon DEF TimersSound
<1> QED BY <1>1, <1>6, HandledKeeps, Zenon

\* An interface's features, which gate its OGMs.
LEMMA LinkFeaturesKeep ==
    ASSUME ScheduleInv, NEW i \in Iface, set_link_features(i),
               UNCHANGED rereads
    PROVE  ScheduleInv'
<1>1. Handled /\ UNCHANGED <<timers, latest>>
  BY Zenon DEF set_link_features
<1>2. TimersSound'
  BY <1>1 DEF ScheduleInv, TimersSound
<1> QED BY <1>1, <1>2, HandledKeeps, Zenon

\* A turn of the loop samples the clock and computes its sleep.
LEMMA TurnKeeps ==
    ASSUME ScheduleInv, Turn, UNCHANGED rereads
    PROVE  ScheduleInv'
<1>1. stage = "turn" /\ stage' = "wait" /\ age' = 0
      /\ UNCHANGED <<timers, latest, due, fired>>
  BY DEF Turn
<1>2. PollCounts'
  BY <1>1 DEF ScheduleInv, PollCounts
<1>3. TimersSound'
  BY <1>1 DEF ScheduleInv, TimersSound
<1>4. rereads' \in BOOLEAN
  BY Zenon DEF ScheduleInv
<1> QED BY <1>1, <1>2, <1>3, <1>4 DEF ScheduleInv

\* Time passes.
LEMMA TickKeeps ==
    ASSUME ScheduleInv, TimerTick, UNCHANGED rereads
    PROVE  ScheduleInv'
<1>1. /\ stage = "wait" /\ age' = age + 1 /\ UNCHANGED <<stage, due, fired>>
      /\ latest' = [i \in Iface |-> Sooner(latest[i])]
  BY DEF TimerTick
<1>2. timers' = [i \in Iface |->
                    [timers[i] EXCEPT !.next_fire =
                        Sooner(timers[i].next_fire)]]
  BY DEF TimerTick
<1>3. PollCounts'
  BY <1>1 DEF ScheduleInv, PollCounts
<1>4. ASSUME NEW i \in Iface
      PROVE  Sound(timers'[i]) /\ latest'[i] \in Int
                /\ timers'[i].next_fire <= latest'[i]
  <2> DEFINE fire == timers[i].next_fire
             later == Sooner(fire)
  <2>1. Sound(timers[i]) /\ fire \in Int /\ latest[i] \in Int
            /\ fire <= latest[i]
    BY DEF ScheduleInv, TimersSound, Sound, TimerRow
  <2>2. later \in Int /\ Sooner(latest[i]) \in Int
            /\ later <= Sooner(latest[i])
    BY <2>1, SoonerKeeps
  <2>3. timers'[i] = [timers[i] EXCEPT !.next_fire = later]
    BY <1>2
  <2>4. latest'[i] = Sooner(latest[i])
    BY <1>1
  <2> HIDE DEF later
  <2>5. Sound(timers'[i]) /\ timers'[i].next_fire = later
    BY <2>1, <2>2, <2>3 DEF Sound, TimerRow
  <2> QED BY <2>2, <2>4, <2>5
<1>5. /\ timers' = [i \in Iface |-> timers'[i]]
      /\ latest' = [i \in Iface |-> latest'[i]]
  BY <1>1, <1>2
<1>6. TimersSound'
  BY <1>4, <1>5, Zenon DEF TimersSound
<1>7. age' \in Nat
  BY <1>1 DEF ScheduleInv
<1>8. rereads' \in BOOLEAN
  BY Zenon DEF ScheduleInv
<1> QED BY <1>1, <1>3, <1>6, <1>7, <1>8 DEF ScheduleInv

\* The timer arm of the loop.
LEMMA WakeKeeps ==
    ASSUME ScheduleInv, TimerWake, UNCHANGED rereads
    PROVE  ScheduleInv'
<1>1. /\ stage' = "ogms" /\ due' = DueNow /\ fired' = [i \in Iface |-> 0]
      /\ UNCHANGED <<timers, age, latest>>
  BY DEF TimerWake
<1>2. DueNow' = DueNow /\ DueNow \subseteq Iface
  BY <1>1 DEF DueNow, PollNow, Sampled
<1>3. PollCounts'
  BY <1>1, <1>2 DEF PollCounts
<1>4. TimersSound'
  BY <1>1 DEF ScheduleInv, TimersSound
<1>5. rereads' \in BOOLEAN /\ age' \in Nat
  BY <1>1, Zenon DEF ScheduleInv
<1> QED BY <1>1, <1>3, <1>4, <1>5 DEF ScheduleInv

\* An interface whose timer is due speaks, or is skipped for its gate, and
\* its timer starts the next interval.
LEMMA EmitKeeps ==
    ASSUME ScheduleInv, NEW stale \in BOOLEAN, EmitOgm(stale),
               UNCHANGED rereads
    PROVE  ScheduleInv'
<1> DEFINE i == Min(DueNow)
<1>1. TimersSound /\ Past(PollNow) /\ DueNow \subseteq Iface
      /\ DueNow # {} /\ stage = "ogms" /\ UNCHANGED <<stage, age, due>>
  BY InstantsPast DEF ScheduleInv, EmitOgm, DueNow
<1>2. i \in DueNow
  BY <1>1, TimerAssumption, MinIsIn
<1>3. i \in Iface
  BY <1>1, <1>2
<1>4. PICK ts, owed, t :
        /\ \/ ts \in reset_ogm_timers(timers, PollNow) /\ owed = Owed
           \/ ts = timers /\ owed = latest
        /\ t \in on_emit(ts[i], PollNow)
        /\ timers' = [ts EXCEPT ![i] = t]
        /\ latest' = [owed EXCEPT ![i] = timers[i].i_max]
        /\ fired' = [fired EXCEPT ![i] = Min({fired[i] + 1, 2})]
  <2> DEFINE resets == i \in tx_ogm /\ (stale \/ topology_changed)
             now == IF resets THEN Owed ELSE latest
  <2>1. PICK ts \in IF resets THEN reset_ogm_timers(timers, PollNow)
            ELSE {timers} :
            \E t \in on_emit(ts[i], PollNow) : timers' = [ts EXCEPT ![i] = t]
    BY Zenon DEF EmitOgm
  <2>2. /\ latest' = [now EXCEPT ![i] = timers[i].i_max]
        /\ fired' = [fired EXCEPT ![i] = Min({fired[i] + 1, 2})]
    BY Zenon DEF EmitOgm
  <2>3. PICK t \in on_emit(ts[i], PollNow) : timers' = [ts EXCEPT ![i] = t]
    BY <2>1, Zenon
  <2>4. \/ ts \in reset_ogm_timers(timers, PollNow) /\ now = Owed
        \/ ts = timers /\ now = latest
    BY <2>1
  <2> HIDE DEF resets, now, i
  <2> QED BY <2>2, <2>3, <2>4, Zenon
<1> HIDE DEF i
<1>5. /\ ts = [j \in Iface |-> ts[j]] /\ owed = [j \in Iface |-> owed[j]]
      /\ \A j \in Iface :
            /\ Sound(ts[j]) /\ ts[j].i_max = timers[j].i_max
            /\ owed[j] \in Int /\ ts[j].next_fire <= owed[j]
            /\ FireDue(ts[j].next_fire, PollNow)
                  <=> FireDue(timers[j].next_fire, PollNow)
  <2>1. CASE ts \in reset_ogm_timers(timers, PollNow) /\ owed = Owed
    <3>1. Owed = [j \in Iface |-> Owed[j]]
      BY DEF Owed
    <3> QED BY <1>1, <2>1, <3>1, ResetAll, Zenon
  <2>2. CASE ts = timers /\ owed = latest
    BY <1>1, <2>2, Zenon DEF TimersSound
  <2> QED BY <1>4, <2>1, <2>2, Zenon
<1>6. /\ Sound(t) /\ t.next_fire <= timers[i].i_max /\ timers[i].i_max \in Int
      /\ ~FireDue(t.next_fire, PollNow)
  <2>1. Sound(ts[i]) /\ ts[i].i_max = timers[i].i_max
    BY <1>3, <1>5, Zenon
  <2>2. ts[i].i_max \in Int
    BY <2>1 DEF Sound, TimerRow
  <2> QED BY <1>1, <1>4, <2>1, <2>2, EmittedTimer, Zenon
<1>7. /\ timers' = [j \in Iface |-> IF j = i THEN t ELSE ts[j]]
      /\ latest' = [j \in Iface |-> IF j = i THEN timers[i].i_max ELSE owed[j]]
  BY <1>3, <1>4, <1>5, PutAt, Zenon
<1>8. \A j \in Iface :
         /\ timers'[j] = IF j = i THEN t ELSE ts[j]
         /\ latest'[j] = IF j = i THEN timers[i].i_max ELSE owed[j]
  BY <1>7
<1>9. TimersSound'
  <2>1. \A j \in Iface : Sound(timers'[j]) /\ latest'[j] \in Int
                                 /\ timers'[j].next_fire <= latest'[j]
    BY <1>5, <1>6, <1>8, Zenon
  <2>2. /\ timers' = [j \in Iface |-> timers'[j]]
        /\ latest' = [j \in Iface |-> latest'[j]]
    BY <1>7
  <2> QED BY <2>1, <2>2, Zenon DEF TimersSound
<1>10. DueNow' = DueNow \ {i}
  <2>1. PollNow' = PollNow
    BY <1>1 DEF PollNow, Sampled
  <2>2. \A j \in Iface : FireDue(timers'[j].next_fire, PollNow)
                                <=> j # i
                                    /\ FireDue(timers[j].next_fire, PollNow)
    BY <1>5, <1>6, <1>8, Zenon
  <2> QED BY <2>1, <2>2, Zenon DEF DueNow
<1>11. PollCounts'
  <2>1. /\ due \subseteq Iface /\ fired \in [Iface -> {0, 1}]
        /\ \A j \in Iface : fired[j] = 1 => j \in due
        /\ DueNow = {j \in due : fired[j] = 0}
    BY <1>1, Zenon DEF ScheduleInv, PollCounts
  <2>2. fired[i] = 0 /\ i \in due
    BY <1>2, <2>1
  <2>3. fired' = [fired EXCEPT ![i] = 1]
    <3>1. Min({fired[i] + 1, 2}) = 1
      BY <2>2, MinOfTwo
    <3> QED BY <1>4, <3>1, Zenon
  <2>4. \A j \in Iface : fired'[j] = IF j = i THEN 1 ELSE fired[j]
    BY <2>1, <2>3
  <2>5. fired' \in [Iface -> {0, 1}]
    <3>1. fired = [j \in Iface |-> fired[j]]
      BY <2>1
    <3>2. fired' = [j \in Iface |-> IF j = i THEN 1 ELSE fired[j]]
      BY <1>3, <2>3, <3>1, PutAt, Zenon
    <3> QED BY <2>1, <3>2
  <2>6. DueNow' = {j \in due : fired'[j] = 0}
    BY <1>3, <1>10, <2>1, <2>4
  <2>7. \A j \in Iface : fired'[j] = 1 => j \in due
    BY <2>1, <2>2, <2>4
  <2> QED BY <1>1, <2>1, <2>5, <2>6, <2>7 DEF PollCounts
<1>12. rereads' \in BOOLEAN /\ age' \in Nat
  BY <1>1, Zenon DEF ScheduleInv
<1> QED BY <1>1, <1>9, <1>11, <1>12 DEF ScheduleInv

\* No timer is due any more.
LEMMA OgmsDoneKeeps ==
    ASSUME ScheduleInv, OgmsDone, UNCHANGED rereads
    PROVE  ScheduleInv'
<1>1. /\ stage = "ogms" /\ stage' = "keepalives" /\ DueNow = {}
      /\ UNCHANGED <<timers, age, latest, due, fired>>
  BY DEF OgmsDone
<1>2. /\ due \subseteq Iface /\ fired \in [Iface -> {0, 1}]
      /\ \A j \in Iface : fired[j] = 1 => j \in due
      /\ DueNow = {j \in due : fired[j] = 0}
  BY <1>1, Zenon DEF ScheduleInv, PollCounts
<1>3. \A j \in due : fired[j] = 1
  BY <1>1, <1>2
<1>4. PollCounts'
  BY <1>1, <1>2, <1>3 DEF PollCounts
<1>5. TimersSound'
  BY <1>1 DEF ScheduleInv, TimersSound
<1>6. rereads' \in BOOLEAN /\ age' \in Nat
  BY <1>1, Zenon DEF ScheduleInv
<1> QED BY <1>1, <1>4, <1>5, <1>6 DEF ScheduleInv

\* A keep-alive.
LEMMA KeepaliveKeeps ==
    ASSUME ScheduleInv, EmitKeepalive, UNCHANGED rereads
    PROVE  ScheduleInv'
<1>1. stage = "keepalives"
          /\ UNCHANGED <<timers, stage, age, latest, due, fired>>
  BY DEF EmitKeepalive
<1>2. PollCounts'
  BY <1>1 DEF ScheduleInv, PollCounts
<1>3. TimersSound'
  BY <1>1 DEF ScheduleInv, TimersSound
<1>4. rereads' \in BOOLEAN /\ age' \in Nat
  BY <1>1, Zenon DEF ScheduleInv
<1> QED BY <1>1, <1>2, <1>3, <1>4 DEF ScheduleInv

\* The poll ends.
LEMMA PollDoneKeeps ==
    ASSUME ScheduleInv, PollDone, UNCHANGED rereads
    PROVE  ScheduleInv'
<1>1. /\ stage' = "turn" /\ age' = 0 /\ due' = {}
      /\ fired' = [i \in Iface |-> 0] /\ UNCHANGED <<timers, latest>>
  BY DEF PollDone
<1>2. PollCounts'
  BY <1>1 DEF PollCounts
<1>3. TimersSound'
  BY <1>1 DEF ScheduleInv, TimersSound
<1>4. rereads' \in BOOLEAN
  BY Zenon DEF ScheduleInv
<1> QED BY <1>1, <1>2, <1>3, <1>4 DEF ScheduleInv

\* Every step keeps the invariant.
LEMMA ScheduleStep == ScheduleInv /\ [TimerNext]_timerVars => ScheduleInv'
<1> SUFFICES ASSUME ScheduleInv, [TimerNext]_timerVars PROVE ScheduleInv'
  OBVIOUS
<1>1. CASE TimerNext
  <2>1. UNCHANGED rereads
    BY <1>1, Zenon DEF TimerNext
  <2>2. CASE Turn
    BY <2>1, <2>2, TurnKeeps
  <2>3. CASE TimerTick
    BY <2>1, <2>3, TickKeeps
  <2>4. ASSUME NEW flag \in BOOLEAN, handle_ogm(flag) PROVE ScheduleInv'
    BY <2>1, <2>4, HandleOgmKeeps
  <2>5. ASSUME NEW flag \in BOOLEAN, ingest_revocation(flag) PROVE ScheduleInv'
    BY <2>1, <2>5, RequestKeeps, Zenon DEF ingest_revocation
  <2>6. CASE set_local_mcast_groups
    BY <2>1, <2>6, RequestKeeps, Zenon DEF set_local_mcast_groups
  <2>7. ASSUME NEW i \in Iface, set_link_features(i) PROVE ScheduleInv'
    BY <2>1, <2>7, LinkFeaturesKeep
  <2>8. ASSUME NEW i \in Iface, NEW b \in Bounds,
               configure_interface_ogm(i, b)
        PROVE  ScheduleInv'
    BY <2>1, <2>8, ConfigureKeeps
  <2>9. CASE TimerWake
    BY <2>1, <2>9, WakeKeeps
  <2>10. ASSUME NEW stale \in BOOLEAN, EmitOgm(stale) PROVE ScheduleInv'
    BY <2>1, <2>10, EmitKeeps
  <2>11. CASE OgmsDone
    BY <2>1, <2>11, OgmsDoneKeeps
  <2>12. CASE EmitKeepalive
    BY <2>1, <2>12, KeepaliveKeeps
  <2>13. CASE PollDone
    BY <2>1, <2>13, PollDoneKeeps
  <2> QED
    BY <1>1, <2>2, <2>3, <2>4, <2>5, <2>6, <2>7, <2>8, <2>9, <2>10, <2>11,
       <2>12, <2>13, Zenon DEF TimerNext, Receive, Poll
<1>2. CASE UNCHANGED timerVars
  <2>1. UNCHANGED <<rereads, timers, stage, age, due, fired, latest>>
    BY <1>2 DEF timerVars
  <2>2. DueNow' = DueNow
    BY <2>1 DEF DueNow, PollNow, Sampled
  <2>3. PollCounts'
    BY <2>1, <2>2, Zenon DEF ScheduleInv, PollCounts
  <2>4. TimersSound'
    BY <2>1, Zenon DEF ScheduleInv, TimersSound
  <2> QED BY <2>1, <2>3, <2>4, Zenon DEF ScheduleInv
<1> QED BY <1>1, <1>2, Zenon

\* For any interfaces, bounds and lateness: no reset, change of bounds or
\* poll puts the next OGM of an interface off beyond the instant by which it
\* was to speak, and a poll lets no interface speak that was not due, nor one
\* twice (`TrickleTimer::reset`, `poll_due_ogms`, `apply_topology_change`).
THEOREM AlwaysOnSchedule == TimerSpec => []OnSchedule
<1>1. ScheduleInv => OnSchedule
  <2> SUFFICES ASSUME ScheduleInv PROVE OnSchedule
    OBVIOUS
  <2>1. NeverPutOff
    BY Zenon DEF ScheduleInv, TimersSound, NeverPutOff
  <2>2. DueOnce
    <3>1. \A i \in Iface : fired[i] \in {0, 1} /\ (fired[i] = 1 => i \in due)
      BY DEF ScheduleInv, PollCounts
    <3>2. stage = "keepalives" => \A i \in due : fired[i] = 1
      BY Zenon DEF ScheduleInv, PollCounts
    <3> QED BY <3>1, <3>2 DEF DueOnce
  <2> QED BY <2>1, <2>2, Zenon DEF OnSchedule
<1> QED BY <1>1, ScheduleInit, ScheduleStep, PTL DEF TimerSpec
=============================================================================
