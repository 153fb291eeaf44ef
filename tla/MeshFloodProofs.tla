-------------------------- MODULE MeshFloodProofs ---------------------------
(***************************************************************************)
(* The first flood of an OGM leaves no cycle behind, whatever the mesh,    *)
(* the measured qualities, the capacities, the losses and the order in     *)
(* which the copies arrive.                                                *)
(*                                                                         *)
(* The invariant speaks of a function `said`, the frame each node repeats: *)
(* it is fixed when the node first hears of the originator, and outlives   *)
(* the copies.  Along the cached choices the TQ falls, and where it is     *)
(* spent the ttl does; on a cycle neither can.                             *)
(***************************************************************************)
EXTENDS MeshFlood, FiniteSetTheorems, WellFoundedInduction, TLAPS

Heard(n) == Dest \in DOMAIN eng[n].table
Record(n) == eng[n].table[Dest]
Spread(m) == m = Dest \/ (m \in Relay /\ Heard(m))

\* handle_ogm's attenuation by one hop
Attenuated(tq) == IF tq > HopPenalty THEN tq - HopPenalty ELSE 0

Fields == {"last", "best", "maxTq", "hw", "paths"}

OgmFrame ==
    [src : Node, orig : {Dest}, prev : Node \cup {None}, seqno : {seqno},
     tq : Tq, ttl : Int, groups : {{}}]

\* Every engine runs without proofs or keep-alives and has at most the one
\* record; before the flood it has none and nothing is in flight.
Engines ==
    /\ DOMAIN eng = Relay
    /\ \A n \in Relay :
          /\ DOMAIN eng[n] = {"self", "requireProof", "table", "proven",
                              "challenged", "keepalive", "mcast", "changed"}
          /\ eng[n].self = n /\ ~eng[n].requireProof
          /\ DOMAIN eng[n].keepalive = {}
          /\ DOMAIN eng[n].table \subseteq {Dest}
          /\ rounds = 0 => ~Heard(n)
    /\ rounds = 0 => net = {}

\* What each node repeats of the flood, or would if the ttl allowed it.
Script(said) ==
    /\ said \in [Node -> OgmFrame]
    /\ said[Dest].ttl = InitialTtl
    /\ \A m \in Node : said[m].src = m /\ said[m].ttl <= InitialTtl

\* A copy in flight is what its sender, who has heard the flood, repeats,
\* and its receiver has not yet had it.
InFlight(said) ==
    \A c \in net :
        /\ c = Copy(c.to, c.frame)
        /\ c.to \in Relay /\ Spread(c.frame.src)
        /\ {c.to, c.frame.src} \in Links
        /\ c.frame = said[c.frame.src]
        /\ Heard(c.to) =>
              /\ c.frame.src \notin DOMAIN Record(c.to).paths
              /\ c.frame.src # Record(c.to).best

\* A neighbour is worth at most what it repeats, less a hop.
Worth(said, m, tq) ==
    /\ m \in Node /\ Spread(m)
    /\ tq \in Tq /\ tq <= Attenuated(said[m].tq)

\* A node repeats the first copy it hears.  That path is stored; the cached
\* choice is that one, or a strictly better one.
Choice(said, n) ==
    LET r == Record(n)
    IN  /\ DOMAIN r = Fields
        /\ r.hw = Seeded(seqno)
        /\ Worth(said, r.best, r.maxTq)
        /\ \/ r.maxTq > said[n].tq
           \/ r.maxTq = said[n].tq /\ said[n].ttl < said[r.best].ttl
        /\ \A m \in DOMAIN r.paths :
              /\ Worth(said, m, r.paths[m].tq)
              /\ r.paths[m].last = clock /\ r.paths[m].interval = 0
        /\ \E m \in DOMAIN r.paths : r.paths[m].tq = said[n].tq

FirstFlood(said) ==
    /\ Script(said) /\ InFlight(said)
    /\ \A n \in Relay : Heard(n) => Choice(said, n)

Ranges ==
    /\ rounds \in Nat /\ clock \in Stamp /\ seqno \in Seqno
    /\ quality \in [Links -> LinkQuality]

IInv ==
    /\ Ranges
    /\ rounds <= 1 => Engines /\ \E said : FirstFlood(said)

-----------------------------------------------------------------------------
(* Cycles                                                                  *)

\* A nonempty set of numbers has a least one.
LEMMA LeastNat ==
    ASSUME NEW T, T \subseteq Nat, T # {}
    PROVE  \E x \in T : \A y \in T : x <= y
<1> DEFINE R == OpToRel(<, Nat)
<1>1. IsWellFoundedOn(R, Nat)
  BY NatLessThanWellFounded, Zenon
<1>2. \A x, y \in Nat : x < y => <<x, y>> \in R
  BY Zenon DEF OpToRel
<1> HIDE DEF R
<1>3. PICK x \in T : \A y \in T : ~(<<y, x>> \in R)
  BY <1>1, WFMin, Zenon
<1>4. \A y \in T : ~(y < x)
  BY <1>2, <1>3, Zenon
<1> QED BY <1>4

\* A function bounded above takes a greatest value.
LEMMA Greatest ==
    ASSUME NEW S, S # {}, NEW f \in [S -> Int], NEW bound \in Int,
           \A n \in S : f[n] <= bound
    PROVE  \E n \in S : \A m \in S : f[m] <= f[n]
<1> DEFINE T == {bound - f[n] : n \in S}
<1>1. T \subseteq Nat /\ T # {}
  OBVIOUS
<1>2. PICK x \in T : \A y \in T : x <= y
  <2> HIDE DEF T
  <2> QED BY <1>1, LeastNat, Zenon
<1>3. PICK n \in S : x = bound - f[n]
  BY Zenon
<1>4. \A m \in S : bound - f[n] <= bound - f[m]
  BY <1>2, <1>3, Zenon
<1> QED
  BY <1>4

\* The cached choices form no cycle: the greatest TQ on one would be below
\* itself, and where every TQ is zero each choice is the first neighbour
\* heard, whose frame had a greater ttl.
LEMMA ChoicesLoopFree ==
    ASSUME Engines, NEW said, FirstFlood(said), NEW S \in SUBSET Relay,
           BestLoops(S)
    PROVE  FALSE
<1> DEFINE metric == [n \in S |-> Record(n).maxTq]
           hops == [n \in S |-> said[n].ttl]
<1>1. \A n \in S : Heard(n) /\ Choice(said, n) /\ Record(n).best \in S
  BY EngineAssumption, Zenon
     DEF BestLoops, Best, Heard, Record, Relay, FirstFlood
<1>2. \A n \in S : said[n].tq \in Nat /\ said[n].ttl \in Int
  BY EngineAssumption DEF FirstFlood, Script, OgmFrame, Relay, Tq
<1>3. \A n \in S : /\ Record(n).maxTq \in Nat /\ Record(n).maxTq <= MaxTq
                   /\ said[n].tq <= Record(n).maxTq
                   /\ Record(n).maxTq <= Attenuated(said[Record(n).best].tq)
  BY <1>1, <1>2, EngineAssumption DEF Choice, Worth, Tq
<1>4. PICK n \in S : \A m \in S : Record(m).maxTq <= Record(n).maxTq
  <2>1. metric \in [S -> Int] /\ \A m \in S : metric[m] <= MaxTq
    BY <1>3
  <2>2. \E m \in S : \A k \in S : metric[k] <= metric[m]
    <3> HIDE DEF metric
    <3> QED BY <2>1, Greatest, EngineAssumption DEF BestLoops
  <2> QED BY <2>2, Zenon
<1>5. Record(n).maxTq = 0
  BY <1>1, <1>2, <1>3, <1>4, EngineAssumption DEF Attenuated
<1>6. \A m \in S : said[m].ttl < said[Record(m).best].ttl
  BY <1>1, <1>2, <1>3, <1>4, <1>5 DEF Choice
<1>7. PICK m \in S : \A k \in S : said[k].ttl <= said[m].ttl
  <2>1. hops \in [S -> Int] /\ \A k \in S : hops[k] <= InitialTtl
    BY <1>2, Zenon DEF FirstFlood, Script, Relay
  <2>2. \E k \in S : \A l \in S : hops[l] <= hops[k]
    <3> HIDE DEF hops
    <3> QED BY <2>1, Greatest, MeshAssumption DEF BestLoops
  <2> QED BY <2>2, Zenon
<1> QED
  BY <1>1, <1>2, <1>6, <1>7

\* During the first flood no path is stale and no keep-alive is missed: the
\* hot path goes by the stored TQs alone.
LEMMA HotPath ==
    ASSUME Ranges, Engines, NEW said, FirstFlood(said), NEW n \in Relay,
           Heard(n)
    PROVE  Forwards(n) = {m \in DOMAIN Record(n).paths :
                             \A k \in DOMAIN Record(n).paths :
                                 Record(n).paths[k].tq
                                     <= Record(n).paths[m].tq}
<1> DEFINE e == eng[n]
           paths == e.table[Dest].paths
<1>1. Choice(said, n) /\ paths = Record(n).paths
  BY Zenon DEF FirstFlood, Record
<1>2. Elapsed(clock, clock) = 0
  BY BandsAssumption
  DEF Ranges, Stamp, Counter, Elapsed, ElapsedSince, SignedDiff
<1>3. SeedInterval * MaxMissedOgms \in Nat
  BY EngineAssumption
<1>4. \A m \in DOMAIN paths : ~PathStale(clock, paths[m])
  BY <1>1, <1>2, <1>3 DEF Choice, PathStale, IsStale
<1>5. \A m \in DOMAIN paths : m \in Selectable(e, clock)
  BY <1>1, Zenon DEF Choice, Worth, Selectable, ProofCurrent, Engines
<1>6. LivePaths(e, clock, Dest) \cap Selectable(e, clock) = DOMAIN paths
  BY <1>4, <1>5, Zenon DEF LivePaths
<1>7. \A m \in DOMAIN paths :
          EffectiveTq(e, clock, m, paths[m]) = paths[m].tq
  BY Zenon DEF EffectiveTq, KeepaliveMissed, Engines
<1>8. Forwards(n) = MostEffective(e, clock, Dest, DOMAIN paths)
  BY <1>6, Zenon DEF Forwards, NextHop, Heard
<1>9. MostEffective(e, clock, Dest, DOMAIN paths)
        = {m \in DOMAIN paths : \A k \in DOMAIN paths :
              paths[k].tq <= paths[m].tq}
  BY <1>7, Zenon DEF MostEffective
<1> QED
  BY <1>1, <1>8, <1>9, Zenon

\* The hot path turns in a circle only where every TQ is spent: a node's
\* best path is at least what it repeats, and at most what its neighbour
\* repeats less a hop.
LEMMA HotPathsSpent ==
    ASSUME Ranges, Engines, NEW said, FirstFlood(said),
           NEW S \in SUBSET Relay, MayLoop(S)
    PROVE  \A n \in S : PathsSpent(n)
<1> DEFINE hop == [n \in S |-> CHOOSE m \in Forwards(n) \cap S : TRUE]
           metric == [n \in S |-> Record(n).paths[hop[n]].tq]
<1>1. \A n \in S : hop[n] \in Forwards(n) /\ hop[n] \in S
  BY Zenon DEF MayLoop
<1>2. \A n \in S : Heard(n) /\ Choice(said, n)
  BY <1>1, Zenon DEF Forwards, NextHop, Heard, FirstFlood
<1> HIDE DEF hop
<1>3. \A n \in S :
         /\ hop[n] \in DOMAIN Record(n).paths
         /\ \A k \in DOMAIN Record(n).paths :
                Record(n).paths[k].tq <= Record(n).paths[hop[n]].tq
  BY <1>1, <1>2, HotPath, Zenon
<1>4. \A n \in S : /\ said[n].tq \in Nat
                   /\ \A k \in DOMAIN Record(n).paths :
                          Record(n).paths[k].tq \in 0 .. MaxTq
  BY <1>2, EngineAssumption
     DEF FirstFlood, Script, OgmFrame, Relay, Tq, Choice, Worth
<1>5. \A n \in S : /\ metric[n] \in 0 .. MaxTq
                   /\ said[n].tq <= metric[n]
                   /\ metric[n] <= Attenuated(said[hop[n]].tq)
  BY <1>2, <1>3, <1>4, Zenon DEF Choice, Worth
<1>6. metric \in [S -> Int]
  BY <1>3, <1>4
<1>7. \A n \in S : \A k \in DOMAIN Record(n).paths :
          Record(n).paths[k].tq <= metric[n]
  BY <1>3, Zenon
<1> HIDE DEF metric
<1>8. PICK n \in S : \A m \in S : metric[m] <= metric[n]
  <2>1. MaxTq \in Int /\ S # {} /\ \A m \in S : metric[m] <= MaxTq
    BY <1>5, EngineAssumption DEF MayLoop
  <2> QED BY ONLY <1>6, <2>1, Greatest, Zenon
<1>9. metric[n] = 0
  BY <1>1, <1>4, <1>5, <1>8, EngineAssumption DEF Attenuated
<1>10. \A m \in S : \A k \in DOMAIN Record(m).paths :
           Record(m).paths[k].tq = 0
  BY <1>4, <1>5, <1>7, <1>8, <1>9
<1> QED
  BY <1>10, Zenon DEF PathsSpent, Record
-----------------------------------------------------------------------------
(* One OGM at one engine                                                   *)

Plain(e) ==
    /\ DOMAIN e = {"self", "requireProof", "table", "proven", "challenged",
                   "keepalive", "mcast", "changed"}
    /\ ~e.requireProof /\ DOMAIN e.keepalive = {}
    /\ DOMAIN e.table \subseteq {Dest}

\* What handle_ogm computes for a copy it does not drop.
LEMMA OgmTaken ==
    ASSUME NEW e, Plain(e), NEW f, f.orig = Dest, NEW q,
           NEW r \in HandleOgm(e, clock, f, q), ~OgmDropped(e, f)
    PROVE  /\ Plain(r.eng) /\ r.eng.self = e.self
           /\ DOMAIN r.eng.table = {Dest}
           /\ r.eng.table[Dest] = OgmRecord(e, clock, f, ComputedTq(f, q))
           /\ r.out = Reflood(e, f, ComputedTq(f, q),
                              Judged(e, clock, f).adm)
<1> DEFINE tq == ComputedTq(f, q)
           rec == OgmRecord(e, clock, f, tq)
           out == Reflood(e, f, tq, Judged(e, clock, f).adm)
           members == Memberships(e, f, Judged(e, clock, f).adm)
<1>1. PICK table \in Inserted(e.table, Dest, rec, clock),
           mcast \in members :
        r = [eng |-> [e EXCEPT !.table = table, !.mcast = mcast,
                               !.changed = FALSE],
             out |-> out]
  BY Zenon DEF HandleOgm
<1>2. table = With(e.table, Dest, rec)
  <2>1. CASE Dest \in DOMAIN e.table
    BY <1>1, <2>1, Zenon DEF Inserted
  <2>2. CASE Dest \notin DOMAIN e.table
    <3>1. DOMAIN e.table = {}
      BY <2>2, Zenon DEF Plain
    <3>2. Roomy(e.table, clock) = {e.table}
      BY <3>1, FS_EmptySet, EngineAssumption DEF Roomy
    <3> QED
      BY <1>1, <2>2, <3>2, Zenon DEF Inserted
  <2> QED BY <2>1, <2>2, Zenon
<1> HIDE DEF tq, rec, out, members
<1>3. DOMAIN table = {Dest} /\ table[Dest] = rec
  BY <1>2, Zenon DEF With, Plain
<1>4. Plain(r.eng) /\ r.eng.self = e.self /\ r.eng.table = table
  BY <1>1, <1>3, Zenon DEF Plain
<1> QED
  BY <1>1, <1>3, <1>4, Zenon DEF rec, out, tq

\* The TQ learned is one hop worse than the TQ repeated, at best.
LEMMA LearnedTq ==
    ASSUME NEW f, f.tq \in Tq, NEW q \in Tq
    PROVE  /\ ComputedTq(f, q) \in Tq
           /\ ComputedTq(f, q) <= Attenuated(f.tq)
BY EngineAssumption DEF ComputedTq, Attenuated, SmallerOf, Tq

NewPath(f, tq) ==
    [tq |-> tq, seqno |-> f.seqno, last |-> clock, interval |-> 0]

\* The record a copy is folded into.
Judgement(e, f) ==
    [(IF f.orig \in DOMAIN e.table THEN e.table[f.orig]
      ELSE FreshRecord(f.seqno, clock)) EXCEPT !.hw =
          Judged(e, clock, f).entry]

\* What folding in a copy from a neighbour other than the incumbent changes.
LEMMA FoldedFields ==
    ASSUME NEW e, Plain(e), NEW f, NEW tq,
           DOMAIN Judgement(e, f) = Fields, f.src # Judgement(e, f).best,
           Judged(e, clock, f).adm # "DuplicateBehind"
    PROVE  LET r == Judgement(e, f)
               new == OgmRecord(e, clock, f, tq)
           IN  /\ DOMAIN new = Fields
               /\ new.hw = r.hw
               /\ new.paths = Learned(r.paths, f, tq, clock)
               /\ IF r.best = None \/ tq > r.maxTq
                  THEN new.best = f.src /\ new.maxTq = tq
                  ELSE new.best = r.best /\ new.maxTq = r.maxTq
<1> DEFINE r == Judgement(e, f)
           adm == Judged(e, clock, f).adm
           proven == ProofCurrent(e, clock, f.src)
           seen == IF ContentsAreCurrent(adm) THEN [r EXCEPT !.last = clock]
                   ELSE r
           learned == [seen EXCEPT !.paths = Learned(@, f, tq, clock)]
<1>1. OgmRecord(e, clock, f, tq) = Reselected(learned, f.src, tq, proven)
  BY Zenon DEF OgmRecord, Folded, IsStaleCopy, Judgement
<1> HIDE DEF r
<1>2. /\ DOMAIN seen = Fields /\ seen.best = r.best
      /\ seen.maxTq = r.maxTq /\ seen.hw = r.hw /\ seen.paths = r.paths
  BY Zenon DEF Fields, r
<1> HIDE DEF seen
<1>3. /\ DOMAIN learned = Fields /\ learned.best = r.best
      /\ learned.maxTq = r.maxTq /\ learned.hw = r.hw
      /\ learned.paths = Learned(r.paths, f, tq, clock)
  BY <1>2, Zenon DEF Fields
<1> HIDE DEF learned
<1>4. proven
  BY Zenon DEF ProofCurrent, Plain
<1> HIDE DEF proven
<1>5. Reselected(learned, f.src, tq, proven)
        = IF r.best = None \/ tq > r.maxTq
          THEN [learned EXCEPT !.best = f.src, !.maxTq = tq] ELSE learned
  BY <1>3, <1>4, Zenon DEF Reselected, r
<1> QED
  BY <1>1, <1>3, <1>5, Zenon DEF Fields, r

\* The first copy seeds the record, is its only path and its choice.
LEMMA FirstRecord ==
    ASSUME NEW e, Plain(e), Dest \notin DOMAIN e.table,
           NEW f, f.orig = Dest, f.src \in Node, NEW tq
    PROVE  LET new == OgmRecord(e, clock, f, tq)
           IN  /\ Judged(e, clock, f).adm = "Advanced"
               /\ DOMAIN new = Fields
               /\ new.hw = Seeded(f.seqno)
               /\ DOMAIN new.paths = {f.src}
               /\ new.paths[f.src] = NewPath(f, tq)
               /\ new.best = f.src /\ new.maxTq = tq
<1> DEFINE fresh == Judgement(e, f)
<1>1. Judged(e, clock, f).entry = Seeded(f.seqno)
      /\ Judged(e, clock, f).adm = "Advanced"
  BY Zenon DEF Judged, Admitted
<1>2. Learned(<<>>, f, tq, clock) = [m \in {f.src} |-> NewPath(f, tq)]
  <2>1. DOMAIN <<>> = {} /\ Cardinality(DOMAIN <<>>) = 0
    BY FS_EmptySet
  <2>2. Learned(<<>>, f, tq, clock) = With(<<>>, f.src, NewPath(f, tq))
    BY <2>1, EngineAssumption DEF Learned, NewPath
  <2> QED
    BY <2>1, <2>2, Zenon DEF With
<1>3. f.src # None
  BY EngineAssumption, Zenon
<1>4. /\ DOMAIN fresh = Fields /\ fresh.best = None
      /\ fresh.hw = Seeded(f.seqno) /\ fresh.paths = <<>>
  BY <1>1, Zenon DEF Judgement, FreshRecord, Fields
<1> QED
  BY <1>1, <1>2, <1>3, <1>4, FoldedFields

\* A later copy, from a neighbour not heard before, is an exact repeat of
\* the number: it may add a path and take over the choice, nothing else.
LEMMA LaterRecord ==
    ASSUME NEW e, Plain(e), Dest \in DOMAIN e.table,
           NEW f, f.orig = Dest, f.seqno \in Seqno, NEW tq,
           NEW r, r = e.table[Dest], DOMAIN r = Fields,
           r.hw = Seeded(f.seqno), r.best # None,
           f.src \notin DOMAIN r.paths, f.src # r.best
    PROVE  LET new == OgmRecord(e, clock, f, tq)
           IN  /\ ~Advanced(Judged(e, clock, f).adm)
               /\ DOMAIN new = Fields
               /\ new.hw = r.hw
               /\ \/ new.paths = r.paths
                  \/ new.paths = With(r.paths, f.src, NewPath(f, tq))
               /\ IF tq > r.maxTq
                  THEN new.best = f.src /\ new.maxTq = tq
                  ELSE new.best = r.best /\ new.maxTq = r.maxTq
<1> DEFINE old == Judgement(e, f)
<1>1. Judged(e, clock, f).entry = Seeded(f.seqno)
      /\ Judged(e, clock, f).adm = "DuplicateExact"
  <2>1. Classify(f.seqno, f.seqno) = "Duplicate"
    BY BandsAssumption
       DEF Classify, AheadBy, SignedDiff, Seqno, Counter
  <2>2. Judged(e, clock, f) = Admit(Seeded(f.seqno), f.seqno, clock)
    BY Zenon DEF Judged
  <2> QED
    BY <2>1, <2>2 DEF Admit, Admitted, Seeded
<1>2. /\ DOMAIN old = Fields /\ old.best = r.best /\ old.maxTq = r.maxTq
      /\ old.hw = r.hw /\ old.paths = r.paths
  BY <1>1, Zenon DEF Judgement, Fields
<1>3. \/ Learned(r.paths, f, tq, clock) = r.paths
      \/ Learned(r.paths, f, tq, clock)
           = With(r.paths, f.src, NewPath(f, tq))
  BY Zenon DEF Learned, NewPath
<1> QED
  BY <1>1, <1>2, <1>3, FoldedFields DEF Advanced
-----------------------------------------------------------------------------
(* The steps of the first flood                                            *)

\* A node whose record a step leaves alone is still explained, as long as
\* the nodes that had heard the flood repeat what they repeated.
LEMMA ChoiceKept ==
    ASSUME NEW said, NEW again, NEW n \in Relay, Heard(n), Choice(said, n),
           Record(n)' = Record(n), clock' = clock, seqno' = seqno,
           \A m \in Node : Spread(m) => again[m] = said[m] /\ Spread(m)'
    PROVE  Choice(again, n)'
<1>1. \A m, tq : Worth(said, m, tq) => Worth(again, m, tq)'
  BY Zenon DEF Worth
<1>2. again[n] = said[n]
  BY Zenon DEF Spread, Relay
<1>3. again[Record(n).best] = said[Record(n).best]
  BY Zenon DEF Choice, Worth
<1> QED
  BY <1>1, <1>2, <1>3, Zenon DEF Choice

\* A copy that reaches node n, as the steps below use it.
Arrival(c, r) ==
    /\ c \in net
    /\ r \in HandleOgm(eng[c.to], clock, c.frame,
                       quality[{c.to, c.frame.src}])
    /\ eng' = [eng EXCEPT ![c.to] = r.eng]
    /\ net' = (net \ {c}) \cup Copies(c.to, r.out)
    /\ UNCHANGED <<clock, seqno, rounds, quality, changes, losses>>

LEMMA ArrivalFacts ==
    ASSUME Ranges, Engines, NEW said, FirstFlood(said), NEW c, NEW r,
           Arrival(c, r)
    PROVE  /\ c.to \in Relay /\ Plain(eng[c.to]) /\ eng[c.to].self = c.to
           /\ c.frame \in OgmFrame /\ c.frame = said[c.frame.src]
           /\ quality[{c.to, c.frame.src}] \in Tq
           /\ ComputedTq(c.frame, quality[{c.to, c.frame.src}]) \in Tq
           /\ ComputedTq(c.frame, quality[{c.to, c.frame.src}])
                <= Attenuated(said[c.frame.src].tq)
           /\ DOMAIN eng' = Relay /\ eng'[c.to] = r.eng
           /\ \A m \in Relay \ {c.to} : eng'[m] = eng[m]
<1>1. c.to \in Relay /\ Plain(eng[c.to]) /\ eng[c.to].self = c.to
  BY Zenon DEF FirstFlood, InFlight, Arrival, Engines, Plain
<1>2. /\ c.frame = said[c.frame.src] /\ Spread(c.frame.src)
      /\ {c.to, c.frame.src} \in Links
  BY Zenon DEF FirstFlood, InFlight, Arrival
<1>3. c.frame \in OgmFrame
  BY <1>2, MeshAssumption, Zenon DEF FirstFlood, Script, Spread, Relay
<1>4. quality[{c.to, c.frame.src}] \in Tq
  BY <1>2, MeshAssumption, Zenon DEF Ranges
<1>5. c.frame.tq \in Tq
  BY <1>3, Zenon DEF OgmFrame
<1>6. DOMAIN eng' = Relay /\ eng'[c.to] = r.eng
      /\ \A m \in Relay \ {c.to} : eng'[m] = eng[m]
  BY <1>1, Zenon DEF Arrival, Engines
<1> QED
  BY <1>1, <1>2, <1>3, <1>4, <1>5, <1>6, LearnedTq, Zenon

\* Rules 1 and 1b: the copy is gone and nothing else has changed.
LEMMA DroppedStep ==
    ASSUME Ranges, Engines, NEW said, FirstFlood(said), NEW c, NEW r,
           Arrival(c, r), OgmDropped(eng[c.to], c.frame)
    PROVE  Engines' /\ FirstFlood(said)'
<1>1. r.eng = eng[c.to] /\ r.out = {}
  BY DEF Arrival, HandleOgm
<1>2. DOMAIN eng' = Relay /\ \A m \in Relay : eng'[m] = eng[m]
  <2>1. /\ DOMAIN eng' = Relay /\ eng'[c.to] = r.eng
        /\ \A m \in Relay \ {c.to} : eng'[m] = eng[m]
    BY ArrivalFacts, Zenon
  <2> QED BY ONLY <1>1, <2>1, Zenon
<1>3. net' \subseteq net /\ UNCHANGED <<clock, seqno, rounds>>
  BY <1>1 DEF Arrival, Copies
<1>4. \A m \in Relay : /\ Heard(m)' <=> Heard(m)
                       /\ Record(m)' = Record(m)
  BY <1>2, Zenon DEF Heard, Record
<1>5. \A m \in Node : Spread(m) => Spread(m)'
  BY <1>4, Zenon DEF Spread
<1>6. Engines'
  <2>1. rounds' = 0 => net' = {}
    BY <1>3, Zenon DEF Engines
  <2>2. rounds' = rounds
    BY <1>3, Zenon
  <2> QED
    BY <1>2, <1>4, <2>1, <2>2, Zenon DEF Engines
<1>7. Script(said)'
  BY <1>3, Zenon DEF FirstFlood, Script, OgmFrame
<1>8. InFlight(said)'
  <2> SUFFICES ASSUME NEW k \in net'
               PROVE  /\ k = Copy(k.to, k.frame)
                      /\ k.to \in Relay /\ Spread(k.frame.src)'
                      /\ {k.to, k.frame.src} \in Links
                      /\ k.frame = said[k.frame.src]
                      /\ Heard(k.to)' =>
                            /\ k.frame.src \notin DOMAIN Record(k.to)'.paths
                            /\ k.frame.src # Record(k.to)'.best
    BY Zenon DEF InFlight
  <2>1. k \in net
    BY <1>3, Zenon
  <2> QED
    BY <1>4, <1>5, <2>1, MeshAssumption, Zenon
       DEF FirstFlood, InFlight, Spread, Relay
<1>9. \A n \in Relay : Heard(n)' => Choice(said, n)'
  BY <1>3, <1>4, <1>5, ChoiceKept, Zenon DEF FirstFlood
<1> QED
  BY <1>6, <1>7, <1>8, <1>9, Zenon DEF FirstFlood
\* What any copy that is taken leaves as it was.
LEMMA TakenFacts ==
    ASSUME Ranges, Engines, NEW said, FirstFlood(said), NEW c, NEW r,
           Arrival(c, r), ~OgmDropped(eng[c.to], c.frame)
    PROVE  /\ Engines'
           /\ Heard(c.to)'
           /\ Record(c.to)'
                = OgmRecord(eng[c.to], clock, c.frame,
                      ComputedTq(c.frame, quality[{c.to, c.frame.src}]))
           /\ r.out = Reflood(eng[c.to], c.frame,
                      ComputedTq(c.frame, quality[{c.to, c.frame.src}]),
                      Judged(eng[c.to], clock, c.frame).adm)
           /\ \A m \in Relay \ {c.to} : /\ Heard(m)' <=> Heard(m)
                                        /\ Record(m)' = Record(m)
           /\ \A m \in Node : Spread(m) => Spread(m)'
<1> DEFINE n == c.to
           f == c.frame
           q == quality[{c.to, c.frame.src}]
<1>1. /\ n \in Relay /\ Plain(eng[n]) /\ eng[n].self = n
      /\ f \in OgmFrame
      /\ DOMAIN eng' = Relay /\ eng'[n] = r.eng
      /\ \A m \in Relay \ {n} : eng'[m] = eng[m]
  BY ArrivalFacts, Zenon
<1>2. f.orig = Dest /\ r \in HandleOgm(eng[n], clock, f, q)
  BY <1>1, Zenon DEF OgmFrame, Arrival
<1>3. /\ Plain(r.eng) /\ r.eng.self = eng[n].self
      /\ DOMAIN r.eng.table = {Dest}
      /\ r.eng.table[Dest] = OgmRecord(eng[n], clock, f, ComputedTq(f, q))
      /\ r.out = Reflood(eng[n], f, ComputedTq(f, q),
                         Judged(eng[n], clock, f).adm)
  <2> HIDE DEF n, f, q
  <2> QED BY <1>1, <1>2, OgmTaken DEF n, f
<1>4. Heard(n)' /\ Record(n)' = r.eng.table[Dest]
  BY <1>1, <1>3, Zenon DEF Heard, Record
<1>5. \A m \in Relay \ {n} : /\ Heard(m)' <=> Heard(m)
                             /\ Record(m)' = Record(m)
  BY <1>1, Zenon DEF Heard, Record
<1>6. \A m \in Node : Spread(m) => Spread(m)'
  BY <1>4, <1>5, Zenon DEF Spread
<1>7. Engines'
  <2>1. rounds # 0 /\ rounds' = rounds
    BY Zenon DEF Engines, Arrival
  <2>2. \A m \in Relay : Plain(eng'[m]) /\ eng'[m].self = m
    BY <1>1, <1>3 DEF Engines, Plain
  <2> QED
    BY <1>1, <2>1, <2>2, Zenon DEF Engines, Plain
<1> QED
  BY <1>3, <1>4, <1>5, <1>6, <1>7, Zenon

\* The copies a step finds and does not consume stay explained, when the
\* receiver has taken no other neighbour than the sender.
LEMMA OthersInFlight ==
    ASSUME NEW said, FirstFlood(said), NEW again, NEW c \in net,
           NEW k \in net, k # c,
           \A m \in Relay \ {c.to} : /\ Heard(m)' <=> Heard(m)
                                     /\ Record(m)' = Record(m),
           \A m \in Node : Spread(m) => Spread(m)' /\ again[m] = said[m],
           DOMAIN Record(c.to)'.paths
               \subseteq (IF Heard(c.to) THEN DOMAIN Record(c.to).paths
                          ELSE {}) \cup {c.frame.src},
           \/ Record(c.to)'.best = c.frame.src
           \/ Heard(c.to) /\ Record(c.to)'.best = Record(c.to).best
    PROVE  /\ k = Copy(k.to, k.frame)
           /\ k.to \in Relay /\ Spread(k.frame.src)'
           /\ {k.to, k.frame.src} \in Links
           /\ k.frame = again[k.frame.src]
           /\ Heard(k.to)' =>
                 /\ k.frame.src \notin DOMAIN Record(k.to)'.paths
                 /\ k.frame.src # Record(k.to)'.best
<1>1. /\ k = Copy(k.to, k.frame) /\ c = Copy(c.to, c.frame)
      /\ k.to \in Relay /\ Spread(k.frame.src)
      /\ {k.to, k.frame.src} \in Links
      /\ k.frame = said[k.frame.src] /\ c.frame = said[c.frame.src]
      /\ Heard(k.to) =>
            /\ k.frame.src \notin DOMAIN Record(k.to).paths
            /\ k.frame.src # Record(k.to).best
  BY Zenon DEF FirstFlood, InFlight
<1>2. k.frame.src \in Node
  BY <1>1, MeshAssumption, Zenon DEF Spread, Relay
<1>3. CASE k.to # c.to
  BY <1>1, <1>2, <1>3, Zenon
<1>4. CASE k.to = c.to
  <2>1. k.frame.src # c.frame.src
    BY <1>1, <1>4, Zenon
  <2> QED
    BY <1>1, <1>2, <1>4, <2>1, Zenon
<1> QED
  BY <1>3, <1>4, Zenon
\* The choice stays explained when a later copy is folded in.
LEMMA LaterChoice ==
    ASSUME NEW said, FirstFlood(said), NEW n \in Relay, Choice(said, n),
           NEW src \in Node, Spread(src), src \notin DOMAIN Record(n).paths,
           NEW tq \in Tq, tq <= Attenuated(said[src].tq),
           NEW path, path.tq = tq, path.last = clock, path.interval = 0,
           clock' = clock, seqno' = seqno,
           \A m \in Node : Spread(m) => Spread(m)',
           NEW old, Record(n) = old, NEW new, Record(n)' = new,
           DOMAIN new = Fields, new.hw = old.hw,
           new.paths = old.paths \/ new.paths = With(old.paths, src, path),
           IF tq > old.maxTq THEN new.best = src /\ new.maxTq = tq
           ELSE new.best = old.best /\ new.maxTq = old.maxTq
    PROVE  Choice(said, n)'
<1>1. \A m, t : Worth(said, m, t) => Worth(said, m, t)'
  BY Zenon DEF Worth
<1>2. Worth(said, src, tq)'
  BY Zenon DEF Worth
<1>3. \A m \in DOMAIN new.paths :
         /\ Worth(said, m, new.paths[m].tq)'
         /\ new.paths[m].last = clock /\ new.paths[m].interval = 0
  <2>1. \A m \in DOMAIN old.paths :
           /\ Worth(said, m, old.paths[m].tq)'
           /\ old.paths[m].last = clock /\ old.paths[m].interval = 0
    BY <1>1, Zenon DEF Choice
  <2> QED
    BY <1>2, <2>1 DEF With
<1>4. \E m \in DOMAIN new.paths : new.paths[m].tq = said[n].tq
  <2>1. PICK m \in DOMAIN old.paths : old.paths[m].tq = said[n].tq
    BY Zenon DEF Choice
  <2>2. m \in DOMAIN new.paths /\ new.paths[m] = old.paths[m]
    BY <2>1, Zenon DEF With
  <2> QED BY <2>1, <2>2, Zenon
<1>5. Worth(said, new.best, new.maxTq)'
  <2>1. Worth(said, old.best, old.maxTq)'
    BY <1>1, Zenon DEF Choice
  <2> QED BY <1>2, <2>1, Zenon
<1>6. \/ new.maxTq > said[n].tq
      \/ new.maxTq = said[n].tq /\ said[n].ttl < said[new.best].ttl
  <2>1. /\ \/ old.maxTq > said[n].tq
           \/ old.maxTq = said[n].tq /\ said[n].ttl < said[old.best].ttl
        /\ old.maxTq \in Nat /\ tq \in Nat /\ said[n].tq \in Nat
    BY EngineAssumption
       DEF Choice, Worth, Tq, FirstFlood, Script, OgmFrame, Relay
  <2> QED BY <2>1
<1>7. new.hw = Seeded(seqno)
  BY Zenon DEF Choice
<1> QED
  BY <1>3, <1>4, <1>5, <1>6, <1>7, Zenon DEF Choice

\* A copy after the first adds a path or takes over the choice, and is not
\* repeated.
LEMMA LaterStep ==
    ASSUME Ranges, Engines, NEW said, FirstFlood(said), NEW c, NEW r,
           Arrival(c, r), ~OgmDropped(eng[c.to], c.frame), Heard(c.to)
    PROVE  Engines' /\ FirstFlood(said)'
<1> DEFINE n == c.to
           f == c.frame
           tq == ComputedTq(c.frame, quality[{c.to, c.frame.src}])
           old == Record(c.to)
           new == OgmRecord(eng[c.to], clock, c.frame, tq)
<1>1. /\ n \in Relay /\ Plain(eng[n])
      /\ f \in OgmFrame /\ f = said[f.src]
      /\ tq \in Tq /\ tq <= Attenuated(said[f.src].tq)
  BY ArrivalFacts, Zenon
<1>2. /\ Engines' /\ Heard(n)' /\ Record(n)' = new
      /\ r.out = Reflood(eng[n], f, tq, Judged(eng[n], clock, f).adm)
      /\ \A m \in Relay \ {n} : /\ Heard(m)' <=> Heard(m)
                                /\ Record(m)' = Record(m)
      /\ \A m \in Node : Spread(m) => Spread(m)'
  BY TakenFacts, Zenon
<1>3. /\ Choice(said, n) /\ Spread(f.src)
      /\ f.src \notin DOMAIN old.paths /\ f.src # old.best
  BY <1>1, Zenon DEF FirstFlood, InFlight, Arrival
<1>4. f.orig = Dest /\ f.seqno = seqno /\ seqno \in Seqno /\ f.src \in Node
  BY <1>1, Zenon DEF OgmFrame, Ranges
<1>5. /\ old = eng[n].table[Dest] /\ DOMAIN old = Fields
      /\ old.hw = Seeded(f.seqno) /\ old.best # None
      /\ Dest \in DOMAIN eng[n].table
  BY <1>3, <1>4, EngineAssumption, Zenon DEF Record, Choice, Worth, Heard
<1> HIDE DEF n, f, tq, old
<1>6. /\ ~Advanced(Judged(eng[n], clock, f).adm)
      /\ DOMAIN new = Fields /\ new.hw = old.hw
      /\ \/ new.paths = old.paths
         \/ new.paths = With(old.paths, f.src, NewPath(f, tq))
      /\ IF tq > old.maxTq THEN new.best = f.src /\ new.maxTq = tq
         ELSE new.best = old.best /\ new.maxTq = old.maxTq
  <2>1. new = OgmRecord(eng[n], clock, f, tq)
    BY Zenon DEF n, f
  <2> HIDE DEF new
  <2> QED
    BY ONLY <1>1, <1>3, <1>4, <1>5, <2>1, LaterRecord
<1> HIDE DEF new
<1>7. net' = net \ {c} /\ UNCHANGED <<clock, seqno, rounds>>
  BY <1>2, <1>6 DEF Reflood, Arrival, Copies
<1>8. Script(said)'
  BY <1>7, Zenon DEF FirstFlood, Script, OgmFrame
<1>9. DOMAIN new.paths \subseteq DOMAIN old.paths \cup {f.src}
      /\ (new.best = f.src \/ new.best = old.best)
  BY <1>6, Zenon DEF With
<1>10. InFlight(said)'
  <2> SUFFICES ASSUME NEW k \in net'
               PROVE  /\ k = Copy(k.to, k.frame)
                      /\ k.to \in Relay /\ Spread(k.frame.src)'
                      /\ {k.to, k.frame.src} \in Links
                      /\ k.frame = said[k.frame.src]
                      /\ Heard(k.to)' =>
                            /\ k.frame.src \notin DOMAIN Record(k.to)'.paths
                            /\ k.frame.src # Record(k.to)'.best
    BY Zenon DEF InFlight
  <2>1. c \in net /\ k \in net /\ k # c
    BY <1>7, Zenon DEF Arrival
  <2> QED
    BY <1>2, <1>9, <2>1, OthersInFlight, Zenon DEF n, f, old
<1>11. Choice(said, n)'
  <2>1. /\ Record(n) = old /\ Record(n)' = new
        /\ clock' = clock /\ seqno' = seqno
    BY <1>2, <1>7, Zenon DEF old, n
  <2>2. NewPath(f, tq).tq = tq /\ NewPath(f, tq).last = clock
        /\ NewPath(f, tq).interval = 0
    BY Zenon DEF NewPath
  <2>3. /\ n \in Relay /\ tq \in Tq /\ tq <= Attenuated(said[f.src].tq)
        /\ \A m \in Node : Spread(m) => Spread(m)'
    BY <1>1, <1>2, Zenon
  <2> QED
    BY ONLY FirstFlood(said), <1>3, <1>4, <1>6, <2>1, <2>2, <2>3,
            LaterChoice, ZenonT(60)
<1>12. \A m \in Relay \ {n} : Heard(m)' => Choice(said, m)'
  BY <1>2, <1>7, ChoiceKept, Zenon DEF FirstFlood
<1> QED
  BY <1>2, <1>8, <1>10, <1>11, <1>12, Zenon DEF FirstFlood
\* What the receiver of a first copy repeats of it.
Repeated(f, n, tq) ==
    [f EXCEPT !.src = n, !.prev = f.src, !.ttl = @ - 1, !.tq = tq]

LEMMA RepeatedFields ==
    ASSUME NEW f \in OgmFrame, NEW n \in Node, NEW tq \in Tq
    PROVE  /\ Repeated(f, n, tq) \in OgmFrame
           /\ Repeated(f, n, tq).src = n
           /\ Repeated(f, n, tq).tq = tq
           /\ Repeated(f, n, tq).ttl = f.ttl - 1
<1> DEFINE f1 == [f EXCEPT !.src = n]
           f2 == [f1 EXCEPT !.prev = f.src]
           f3 == [f2 EXCEPT !.ttl = f.ttl - 1]
<1>1. f1 \in OgmFrame /\ f1.src = n
  BY Zenon DEF OgmFrame
<1> HIDE DEF f1
<1>2. f2 \in OgmFrame /\ f2.src = n
  BY <1>1, Zenon DEF OgmFrame
<1> HIDE DEF f2
<1>3. f3 \in OgmFrame /\ f3.src = n /\ f3.ttl = f.ttl - 1
  BY <1>2 DEF OgmFrame
<1> HIDE DEF f3
<1>4. Repeated(f, n, tq) = [f3 EXCEPT !.tq = tq]
  BY Zenon DEF Repeated, OgmFrame, f1, f2, f3
<1> QED
  BY <1>3, <1>4, Zenon DEF OgmFrame

\* The choice of a node that has just heard its first copy.
LEMMA FirstChoice ==
    ASSUME NEW said, NEW n \in Relay, NEW src \in Node, Spread(src)',
           NEW tq \in Tq, tq <= Attenuated(said[src].tq),
           said[n].tq = tq, said[src].ttl \in Int,
           said[n].ttl = said[src].ttl - 1,
           NEW path, path.tq = tq, path.last = clock, path.interval = 0,
           clock' = clock,
           NEW new, Record(n)' = new, DOMAIN new = Fields,
           new.hw = Seeded(seqno'), DOMAIN new.paths = {src},
           new.paths[src] = path,
           new.best = src, new.maxTq = tq
    PROVE  Choice(said, n)'
<1>1. Worth(said, src, tq)'
  BY Zenon DEF Worth
<1>2. \A m \in DOMAIN new.paths :
         /\ Worth(said, m, new.paths[m].tq)'
         /\ new.paths[m].last = clock /\ new.paths[m].interval = 0
  BY <1>1, Zenon
<1>3. \E m \in DOMAIN new.paths : new.paths[m].tq = said[n].tq
  BY Zenon
<1>4. said[n].ttl < said[new.best].ttl
  OBVIOUS
<1> QED
  BY <1>1, <1>2, <1>3, <1>4, Zenon DEF Choice

\* The first copy a node hears fixes what it repeats.
LEMMA FirstStep ==
    ASSUME Ranges, Engines, NEW said, FirstFlood(said), NEW c, NEW r,
           Arrival(c, r), ~OgmDropped(eng[c.to], c.frame), ~Heard(c.to)
    PROVE  Engines' /\ \E again : FirstFlood(again)'
<1> DEFINE n == c.to
           f == c.frame
           tq == ComputedTq(c.frame, quality[{c.to, c.frame.src}])
           new == OgmRecord(eng[c.to], clock, c.frame, tq)
<1>1. /\ n \in Relay /\ Plain(eng[n]) /\ eng[n].self = n
      /\ f \in OgmFrame /\ f = said[f.src]
      /\ tq \in Tq /\ tq <= Attenuated(said[f.src].tq)
  BY ArrivalFacts, Zenon
<1>2. /\ Engines' /\ Heard(n)' /\ Record(n)' = new
      /\ r.out = Reflood(eng[n], f, tq, Judged(eng[n], clock, f).adm)
      /\ \A m \in Relay \ {n} : /\ Heard(m)' <=> Heard(m)
                                /\ Record(m)' = Record(m)
      /\ \A m \in Node : Spread(m) => Spread(m)'
  BY TakenFacts, Zenon
<1>3. Spread(f.src) /\ ~Spread(n) /\ n \in Node /\ f.src # n
  <2>1. Spread(f.src)
    BY Zenon DEF FirstFlood, InFlight, Arrival
  <2>2. ~Spread(n) /\ n \in Node
    BY <1>1, Zenon DEF Spread, Relay
  <2> QED BY <2>1, <2>2, Zenon
<1>4. /\ f.orig = Dest /\ f.seqno = seqno /\ f.src \in Node
      /\ Dest \notin DOMAIN eng[n].table
  BY <1>1, Zenon DEF OgmFrame, Heard
<1> HIDE DEF n, f, tq
<1>5. /\ Judged(eng[n], clock, f).adm = "Advanced"
      /\ DOMAIN new = Fields /\ new.hw = Seeded(seqno)
      /\ DOMAIN new.paths = {f.src} /\ new.paths[f.src] = NewPath(f, tq)
      /\ new.best = f.src /\ new.maxTq = tq
  <2>1. new = OgmRecord(eng[n], clock, f, tq)
    BY Zenon DEF n, f
  <2> HIDE DEF new
  <2> QED
    BY ONLY <1>1, <1>4, <2>1, FirstRecord
<1> HIDE DEF new
<1>6. PICK again : again = [said EXCEPT ![n] = Repeated(f, n, tq)]
  BY Zenon
<1>7. /\ again[n] = Repeated(f, n, tq) /\ again[n] \in OgmFrame
      /\ again[n].src = n /\ again[n].tq = tq /\ again[n].ttl = f.ttl - 1
      /\ \A m \in Node \ {n} : again[m] = said[m]
      /\ again \in [Node -> OgmFrame]
  <2>1. said \in [Node -> OgmFrame]
    BY Zenon DEF FirstFlood, Script
  <2> QED
    BY <1>1, <1>3, <1>6, <2>1, RepeatedFields
<1>8. \A m \in Node : Spread(m) => Spread(m)' /\ again[m] = said[m]
  BY <1>2, <1>3, <1>7, Zenon
<1>9. r.out \subseteq {again[n]} /\ UNCHANGED <<clock, seqno, rounds>>
  BY <1>1, <1>2, <1>5, <1>7 DEF Reflood, Repeated, Arrival
<1>10. Script(again)'
  <2>1. /\ f.ttl \in Int /\ f.ttl <= InitialTtl /\ n # Dest
    BY <1>1, <1>4, Zenon DEF FirstFlood, Script, Relay, OgmFrame
  <2>2. \A m \in Node : again[m].src = m /\ again[m].ttl <= InitialTtl
    BY <1>7, <2>1, MeshAssumption DEF FirstFlood, Script
  <2>3. again[Dest].ttl = InitialTtl
    BY <1>7, <2>1, MeshAssumption, Zenon DEF FirstFlood, Script
  <2>4. OgmFrame' = OgmFrame
    BY <1>9, Zenon DEF OgmFrame
  <2> QED
    BY <1>7, <2>2, <2>3, <2>4, Zenon DEF Script
<1>11. InFlight(again)'
  <2> SUFFICES ASSUME NEW k \in net'
               PROVE  /\ k = Copy(k.to, k.frame)
                      /\ k.to \in Relay /\ Spread(k.frame.src)'
                      /\ {k.to, k.frame.src} \in Links
                      /\ k.frame = again[k.frame.src]
                      /\ Heard(k.to)' =>
                            /\ k.frame.src \notin DOMAIN Record(k.to)'.paths
                            /\ k.frame.src # Record(k.to)'.best
    BY Zenon DEF InFlight
  <2>1. CASE k \in net /\ k # c
    <3>1. c \in net
      BY Zenon DEF Arrival
    <3>2. /\ DOMAIN Record(c.to)'.paths \subseteq {c.frame.src}
          /\ Record(c.to)'.best = c.frame.src
      BY <1>2, <1>5, Zenon DEF n, f
    <3>3. /\ DOMAIN Record(c.to)'.paths
               \subseteq (IF Heard(c.to) THEN DOMAIN Record(c.to).paths
                          ELSE {}) \cup {c.frame.src}
          /\ \A m \in Relay \ {c.to} : /\ Heard(m)' <=> Heard(m)
                                       /\ Record(m)' = Record(m)
      BY <1>2, <3>2, Zenon DEF n
    <3> QED
      BY ONLY FirstFlood(said), <1>8, <2>1, <3>1, <3>2, <3>3, OthersInFlight
  <2>2. CASE \E m \in InRange(n) : k = Copy(m, again[n])
    <3>1. PICK m \in InRange(n) : k = Copy(m, again[n])
      BY <2>2, Zenon
    <3>2. /\ k.to = m /\ k.frame = again[n] /\ k.frame.src = n
          /\ m \in Relay /\ {n, m} \in Links /\ k = Copy(k.to, k.frame)
      BY <1>7, <3>1, Zenon DEF Copy, InRange
    <3>3. {m, n} = {n, m} /\ Spread(n)'
      BY <1>1, <1>2, Zenon DEF Spread
    <3>4. Heard(m)' => /\ n \notin DOMAIN Record(m)'.paths
                       /\ n # Record(m)'.best
      <4>1. CASE m = n
        BY <1>2, <1>3, <1>5, <4>1, Zenon
      <4>2. CASE m # n
        <5>1. Heard(m) => Choice(said, m)
          BY <3>2, Zenon DEF FirstFlood
        <5> QED
          BY <1>2, <1>3, <3>2, <4>2, <5>1, Zenon DEF Choice, Worth
      <4> QED BY <4>1, <4>2, Zenon
    <3> QED
      BY <3>2, <3>3, <3>4, Zenon
  <2>3. (k \in net /\ k # c) \/ \E m \in InRange(n) : k = Copy(m, again[n])
    BY <1>9 DEF Arrival, Copies, n
  <2> QED
    BY <2>1, <2>2, <2>3, Zenon
<1>12. Choice(again, n)'
  <2>1. /\ NewPath(f, tq).tq = tq /\ NewPath(f, tq).last = clock
        /\ NewPath(f, tq).interval = 0
    BY Zenon DEF NewPath
  <2>2. again[f.src] = f /\ f.ttl \in Int /\ Spread(f.src)'
    BY <1>1, <1>3, <1>4, <1>8, Zenon DEF OgmFrame
  <2>3. said[f.src] = f /\ tq <= Attenuated(again[f.src].tq)
    BY <1>1, <2>2, Zenon
  <2>4. new.hw = Seeded(seqno') /\ clock' = clock
    BY <1>5, <1>9, Zenon
  <2> QED
    BY <1>1, <1>2, <1>4, <1>5, <1>7, <2>1, <2>2, <2>3, <2>4, FirstChoice,
       Zenon
<1>13. \A m \in Relay \ {n} : Heard(m)' => Choice(again, m)'
  BY <1>2, <1>8, <1>9, ChoiceKept, Zenon DEF FirstFlood
<1>14. FirstFlood(again)'
  BY <1>2, <1>10, <1>11, <1>12, <1>13, Zenon DEF FirstFlood
<1> QED
  BY <1>2, <1>14, Zenon
LEMMA DeliverStep ==
    ASSUME IInv, NEW c \in net, Deliver(c), rounds <= 1
    PROVE  Engines' /\ \E said : FirstFlood(said)'
<1>1. PICK said : FirstFlood(said)
  BY Zenon DEF IInv
<1>2. PICK r : Arrival(c, r)
  <2>1. PICK r \in HandleOgm(eng[c.to], clock, c.frame,
                             quality[{c.to, c.frame.src}]) :
          /\ eng' = [eng EXCEPT ![c.to] = r.eng]
          /\ net' = (net \ {c}) \cup Copies(c.to, r.out)
    BY Zenon DEF Deliver
  <2>2. UNCHANGED <<clock, seqno, rounds, quality, changes, losses>>
    BY Zenon DEF Deliver
  <2>3. Arrival(c, r)
    BY <2>1, <2>2, Zenon DEF Arrival
  <2> QED BY <2>3, Zenon
<1>3. Ranges /\ Engines
  BY Zenon DEF IInv
<1>4. CASE OgmDropped(eng[c.to], c.frame)
  BY <1>1, <1>2, <1>3, <1>4, DroppedStep, Zenon
<1>5. CASE ~OgmDropped(eng[c.to], c.frame) /\ Heard(c.to)
  BY <1>1, <1>2, <1>3, <1>5, LaterStep, Zenon
<1>6. CASE ~OgmDropped(eng[c.to], c.frame) /\ ~Heard(c.to)
  BY <1>1, <1>2, <1>3, <1>6, FirstStep, Zenon
<1> QED
  BY <1>4, <1>5, <1>6, Zenon

\* Before the flood every script explains the tables, which are empty.
Opening(m, s) == [OwnOgm(Dest, s, InitialTtl, {}) EXCEPT !.src = m]

LEMMA OpeningScript ==
    ASSUME NEW s, NEW m \in Node
    PROVE  /\ Opening(m, s)
                \in [src : Node, orig : {Dest}, prev : Node \cup {None},
                     seqno : {s}, tq : Tq, ttl : Int, groups : {{}}]
           /\ Opening(m, s).src = m /\ Opening(m, s).ttl = InitialTtl
           /\ m = Dest => Opening(m, s) = OwnOgm(Dest, s, InitialTtl, {})
<1>1. Opening(m, s) = [src |-> m, orig |-> Dest, prev |-> None,
                       seqno |-> s, tq |-> MaxTq, ttl |-> InitialTtl,
                       groups |-> {}]
  BY DEF Opening, OwnOgm
<1>2. MaxTq \in Tq /\ InitialTtl \in Int
  BY EngineAssumption, MeshAssumption DEF Tq
<1> HIDE DEF Opening
<1>3. /\ Opening(m, s).src = m /\ Opening(m, s).ttl = InitialTtl
      /\ Opening(m, s)
           \in [src : Node, orig : {Dest}, prev : Node \cup {None},
                seqno : {s}, tq : Tq, ttl : Int, groups : {{}}]
  BY <1>1, <1>2, MeshAssumption
<1>4. m = Dest => Opening(m, s) = OwnOgm(Dest, s, InitialTtl, {})
  BY <1>1, Zenon DEF OwnOgm
<1> QED
  BY <1>3, <1>4, Zenon

\* A purge of an engine that knows no originator leaves it so.
LEMMA PurgedPlain ==
    ASSUME NEW e, Plain(e), DOMAIN e.table = {}, NEW now,
           NEW p \in PeriodicPurge(e, now)
    PROVE  Plain(p) /\ p.self = e.self /\ DOMAIN p.table = {}
<1>1. PICK u \in PurgeStale(e, now) : p = [u EXCEPT !.changed = FALSE]
  BY Zenon DEF PeriodicPurge
<1> DEFINE pruned == [o \in DOMAIN e.table |-> LivePathsOnly(e.table[o], now)]
           left == {o \in DOMAIN pruned : DOMAIN pruned[o].paths # {}}
           lost == pruned # e.table \/ left # DOMAIN e.table
<1>2. PICK t \in Recomputed(pruned, Selectable(e, now)) :
        u = [e EXCEPT !.table = Keep(t, left),
                      !.changed = @ \/ lost,
                      !.proven = Recent(@, now),
                      !.challenged = Recent(@, now),
                      !.keepalive = Recent(@, now)]
  BY Zenon DEF PurgeStale
<1>3. DOMAIN Keep(t, left) = {}
  BY Zenon DEF Keep
<1>4. DOMAIN Recent(e.keepalive, now) = {}
  BY Zenon DEF Recent, Keep, Plain
<1> HIDE DEF pruned, left, lost
<1>5. /\ DOMAIN u = DOMAIN e /\ u.self = e.self
      /\ u.requireProof = e.requireProof
      /\ u.table = Keep(t, left) /\ u.keepalive = Recent(e.keepalive, now)
  BY <1>2, Zenon DEF Plain
<1> QED
  BY <1>1, <1>3, <1>4, <1>5, Zenon DEF Plain

LEMMA EmitStep ==
    ASSUME IInv, Emit, rounds' <= 1
    PROVE  Engines' /\ \E said : FirstFlood(said)'
<1>1. rounds = 0 /\ rounds' = 1 /\ Engines
  BY DEF IInv, Ranges, Emit
<1>2. /\ DOMAIN eng' = Relay
      /\ \A n \in Relay : eng'[n] \in PeriodicPurge(eng[n], clock')
  BY Zenon DEF Emit
<1>3. \A n \in Relay : Plain(eng[n]) /\ eng[n].self = n
                       /\ DOMAIN eng[n].table = {}
  BY <1>1, Zenon DEF Engines, Plain, Heard
<1>4. \A n \in Relay : Plain(eng'[n]) /\ eng'[n].self = n
                       /\ DOMAIN eng'[n].table = {}
  BY <1>2, <1>3, PurgedPlain
<1>5. Engines'
  BY <1>1, <1>2, <1>4 DEF Engines, Plain
<1>6. \A n \in Relay : ~Heard(n)'
  BY <1>4, Zenon DEF Heard
<1>7. PICK said : said = [m \in Node |-> Opening(m, seqno')]
  BY Zenon
<1>8. \A m \in Node :
         /\ said[m] \in [src : Node, orig : {Dest}, prev : Node \cup {None},
                         seqno : {seqno'}, tq : Tq, ttl : Int,
                         groups : {{}}]
         /\ said[m].src = m /\ said[m].ttl = InitialTtl
         /\ m = Dest => said[m] = OwnOgm(Dest, seqno', InitialTtl, {})
  BY <1>7, OpeningScript, Zenon
<1>9. Script(said)'
  <2>1. said = [m \in Node |-> said[m]] /\ InitialTtl \in Int
    BY <1>7, MeshAssumption
  <2> QED
    BY <1>8, <2>1, MeshAssumption DEF Script, OgmFrame
<1>10. InFlight(said)'
  <2> SUFFICES ASSUME NEW k \in net'
               PROVE  /\ k = Copy(k.to, k.frame)
                      /\ k.to \in Relay /\ Spread(k.frame.src)'
                      /\ {k.to, k.frame.src} \in Links
                      /\ k.frame = said[k.frame.src]
                      /\ ~Heard(k.to)'
    BY Zenon DEF InFlight
  <2>1. PICK m \in InRange(Dest) :
          k = Copy(m, OwnOgm(Dest, seqno', InitialTtl, {}))
    BY DEF Emit, Copies
  <2>2. k.to = m /\ k.frame = said[Dest] /\ k.frame.src = Dest
        /\ k = Copy(k.to, k.frame)
    BY <1>8, <2>1, MeshAssumption, Zenon DEF Copy
  <2>3. m \in Relay /\ {m, Dest} = {Dest, m} /\ {Dest, m} \in Links
    BY Zenon DEF InRange
  <2> QED
    BY <1>6, <2>2, <2>3, Zenon DEF Spread
<1> QED
  BY <1>5, <1>6, <1>9, <1>10, Zenon DEF FirstFlood

\* A step that only takes copies away leaves the flood explained.
LEMMA StillFirstFlood ==
    ASSUME NEW said, FirstFlood(said), net' \subseteq net,
           UNCHANGED <<eng, clock, seqno, rounds>>
    PROVE  FirstFlood(said)'
<1>1. clock' = clock /\ seqno' = seqno
  BY Zenon
<1>2. \A m : /\ Heard(m)' <=> Heard(m)
             /\ Record(m)' = Record(m)
             /\ Spread(m)' <=> Spread(m)
  BY Zenon DEF Heard, Record, Spread
<1>3. OgmFrame' = OgmFrame
  BY <1>1, Zenon DEF OgmFrame
<1>4. Script(said)'
  BY <1>3, Zenon DEF FirstFlood, Script
<1>5. InFlight(said)'
  BY <1>2, Zenon DEF FirstFlood, InFlight
<1>6. \A n \in Relay : Heard(n)' => Choice(said, n)'
  BY <1>1, <1>2, ChoiceKept, Zenon DEF FirstFlood
<1> QED
  BY <1>4, <1>5, <1>6, Zenon DEF FirstFlood

LEMMA LoseStep ==
    ASSUME IInv, NEW c \in net, Lose(c), rounds <= 1
    PROVE  Engines' /\ \E said : FirstFlood(said)'
<1>1. PICK said : FirstFlood(said)
  BY Zenon DEF IInv
<1>2. Engines /\ net' \subseteq net /\ UNCHANGED <<eng, clock, seqno, rounds>>
  BY Zenon DEF IInv, Lose
<1>3. Engines'
  BY <1>2, Zenon DEF Engines, Heard
<1>4. FirstFlood(said)'
  BY <1>1, <1>2, StillFirstFlood, Zenon
<1> QED BY <1>3, <1>4, Zenon

LEMMA QuietStep ==
    ASSUME IInv, UNCHANGED <<eng, clock, seqno, rounds, net>>, rounds <= 1
    PROVE  Engines' /\ \E said : FirstFlood(said)'
<1>1. PICK said : FirstFlood(said)
  BY Zenon DEF IInv
<1>2. FirstFlood(said)'
  BY <1>1, StillFirstFlood, Zenon
<1>3. Engines'
  BY Zenon DEF IInv, Engines, Heard
<1> QED BY <1>2, <1>3, Zenon

-----------------------------------------------------------------------------

LEMMA InitIInv == Init => IInv
<1> SUFFICES ASSUME Init PROVE IInv
  BY Zenon
<1>1. Ranges
  BY BandsAssumption DEF Init, Ranges, Stamp, Seqno, Counter
<1>2. \A n \in Relay : ~Heard(n)
  BY DEF Init, Heard, NewEngine
<1>3. Engines
  BY <1>2 DEF Init, Engines, NewEngine, Heard
<1>4. PICK said : said = [m \in Node |-> Opening(m, seqno)]
  BY Zenon
<1>5. Script(said)
  <2>1. \A m \in Node : /\ said[m] \in OgmFrame /\ said[m].src = m
                        /\ said[m].ttl = InitialTtl
    BY <1>4, OpeningScript, Zenon DEF OgmFrame
  <2>2. said = [m \in Node |-> said[m]] /\ InitialTtl \in Int
    BY <1>4, MeshAssumption
  <2> QED
    BY <2>1, <2>2, MeshAssumption DEF Script
<1>6. FirstFlood(said)
  BY <1>2, <1>5, Zenon DEF FirstFlood, InFlight, Init
<1> QED
  BY <1>1, <1>3, <1>6, Zenon DEF IInv

LEMMA NextIInv == IInv /\ [Next]_vars => IInv'
<1> SUFFICES ASSUME IInv, [Next]_vars PROVE IInv'
  BY Zenon
<1>1. CASE Emit
  <2>1. Ranges'
    BY <1>1, BandsAssumption
       DEF IInv, Ranges, Emit, WrappingAdd, Stamp, Seqno, Counter
  <2> QED
    BY <1>1, <2>1, EmitStep, Zenon DEF IInv
<1>2. ASSUME NEW c \in net, Deliver(c) PROVE IInv'
  <2>1. Ranges' /\ rounds' = rounds
    BY <1>2, Zenon DEF IInv, Ranges, Deliver
  <2> QED
    BY <1>2, <2>1, DeliverStep, Zenon DEF IInv
<1>3. ASSUME NEW c \in net, Lose(c) PROVE IInv'
  <2>1. Ranges' /\ rounds' = rounds
    BY <1>3, Zenon DEF IInv, Ranges, Lose
  <2> QED
    BY <1>3, <2>1, LoseStep, Zenon DEF IInv
<1>4. ASSUME NEW l \in Links, NEW q \in LinkQuality, ChangeQuality(l, q)
      PROVE  IInv'
  <2>1. Ranges' /\ UNCHANGED <<eng, clock, seqno, rounds, net>>
    BY <1>4, Zenon DEF IInv, Ranges, ChangeQuality
  <2> QED
    BY <2>1, QuietStep, Zenon DEF IInv
<1>5. CASE UNCHANGED vars
  <2>1. Ranges' /\ UNCHANGED <<eng, clock, seqno, rounds, net>>
    BY <1>5, Zenon DEF IInv, Ranges, vars
  <2> QED
    BY <2>1, QuietStep, Zenon DEF IInv
<1> QED
  BY <1>1, <1>2, <1>3, <1>4, <1>5, Zenon DEF Next

LEMMA IInvLoopFree == IInv => FirstFloodLoopFree
BY ChoicesLoopFree, HotPathsSpent, Zenon DEF IInv, FirstFloodLoopFree

\* The routes learned from an originator's first OGM form no cycle, at any
\* moment of its flood: for every mesh, measured qualities, capacities,
\* losses and order of arrival (handle_ogm).
THEOREM FirstFloodAlwaysLoopFree == Spec => []FirstFloodLoopFree
BY InitIInv, NextIInv, IInvLoopFree, PTL DEF Spec

=============================================================================
