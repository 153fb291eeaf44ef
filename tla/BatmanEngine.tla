---------------------------- MODULE BatmanEngine ----------------------------
(***************************************************************************)
(* The routing engine of one node (libs/batman/src/engine.rs) as operators *)
(* on its state, a record e with the fields                                *)
(*   self, requireProof  the node's address; set_require_proof             *)
(*   table               originator_table: originator -> record            *)
(*   proven              neighbour -> when, and on which interface, it     *)
(*                       last answered a challenge                         *)
(*   challenged          neighbour -> when last challenged, and misses     *)
(*   keepalive           neighbour -> when last heard, and its cadence     *)
(*   mcast               mcast_members: pairs <<group, originator>>        *)
(*   changed             topology_changed                                  *)
(* Maps are functions on the set of their keys.  Every time stamp is in a  *)
(* field `last`.  An operation returns the SET of its possible results:    *)
(* one, except where the code breaks a tie between equal TQs or equally    *)
(* old entries by the internal order of a container, which is left open.   *)
(*                                                                         *)
(* Statistics counters, frame sizes and malformed frames (dropped before   *)
(* any state is touched) are not represented.                              *)
(***************************************************************************)
EXTENDS SeqnoBands, FiniteSets

CONSTANTS
    Node, None,
    Group,                \* multicast groups
    Interface,            \* interface indices
    MaxOriginators,       \* capacity of every table keyed by node
    MaxPaths,             \* 4: capacity of OriginatorRecord::paths
    MaxMcastMembers,      \* capacity of mcast_members
    MaxTq, HopPenalty,    \* 255 and 10
    SeedInterval,         \* seed_interval_ms: the largest Trickle i_max
    FloorInterval,        \* the smallest Trickle i_min
    KeepaliveSeed,        \* keepalive_seed_interval_ms
    MaxMissedOgms, MaxMissedKeepalives, MaxMissedProofs,
    StampAgeCeiling       \* STAMP_AGE_CEILING_MS

\* The last conjunct is what the comment on STAMP_AGE_CEILING_MS relies on:
\* a stamp at the ceiling is already stale by its own rule.
ASSUME EngineAssumption ==
    /\ None \notin Node
    /\ MaxOriginators \in Nat \ {0} /\ MaxPaths \in Nat \ {0}
    /\ MaxMcastMembers \in Nat
    /\ MaxTq \in Nat /\ HopPenalty \in Nat \ {0}
    /\ SeedInterval \in Nat \ {0} /\ KeepaliveSeed \in Nat \ {0}
    /\ FloorInterval \in Nat \ {0}
    /\ MaxMissedOgms \in Nat \ {0} /\ MaxMissedKeepalives \in Nat \ {0}
    /\ MaxMissedProofs \in Nat \ {0}
    /\ StampAgeCeiling \in Nat
    /\ SeedInterval * MaxMissedProofs < StampAgeCeiling

Tq == 0 .. MaxTq
PathStats == [tq : Tq, seqno : Seqno, last : Stamp, interval : Nat]
Proof == [last : Stamp, iface : Interface]
Challenge == [last : Stamp, misses : Nat]
KeepAliveStats == [last : Stamp, interval : Nat]

\* A map from some nodes to values in S.
IsMap(f, S) == /\ DOMAIN f \subseteq Node
               /\ f = [n \in DOMAIN f |-> f[n]]
               /\ \A n \in DOMAIN f : f[n] \in S

IsRecord(r) ==
    /\ DOMAIN r = {"last", "best", "maxTq", "hw", "paths"}
    /\ r.last \in Stamp /\ r.best \in Node \cup {None}
    /\ r.maxTq \in Tq /\ r.hw \in SeqnoEntry
    /\ IsMap(r.paths, PathStats)

\* The cached metric is the one of the selected path -- unless every path
\* slot is taken, when handle_ogm may promote a neighbour it could not store.
Tracked(r) ==
    \/ r.best = None /\ r.maxTq = 0
    \/ r.best \in DOMAIN r.paths /\ r.maxTq = r.paths[r.best].tq
    \/ r.best \notin DOMAIN r.paths
       /\ ~(Cardinality(DOMAIN r.paths) < MaxPaths)

TableOK(t) ==
    /\ DOMAIN t \subseteq Node
    /\ t = [o \in DOMAIN t |-> t[o]]
    /\ \A o \in DOMAIN t : IsRecord(t[o])

EngineOK(e) ==
    /\ DOMAIN e = {"self", "requireProof", "table", "proven", "challenged",
                   "keepalive", "mcast", "changed"}
    /\ e.self \in Node
    /\ e.requireProof \in BOOLEAN /\ e.changed \in BOOLEAN
    /\ TableOK(e.table)
    /\ IsMap(e.proven, Proof)
    /\ IsMap(e.challenged, Challenge)
    /\ IsMap(e.keepalive, KeepAliveStats)
    /\ e.mcast \subseteq Group \X Node

Without(f, n) == [m \in DOMAIN f \ {n} |-> f[m]]
With(f, n, v) == [m \in DOMAIN f \cup {n} |-> IF m = n THEN v ELSE f[m]]
Keep(f, S) == [m \in DOMAIN f \cap S |-> f[m]]

-----------------------------------------------------------------------------
(* Ageing *)

IsStale(now, last, interval, seed, maxMissed) ==
    Elapsed(now, last) > (IF interval = 0 THEN seed ELSE interval) * maxMissed

PathStale(now, p) ==
    IsStale(now, p.last, p.interval, SeedInterval, MaxMissedOgms)

KeepaliveMissed(e, now, n) ==
    /\ n \in DOMAIN e.keepalive
    /\ IsStale(now, e.keepalive[n].last, e.keepalive[n].interval,
               KeepaliveSeed, MaxMissedKeepalives)

\* blend_interval_ms: a peak hold that decays by an eighth
BlendInterval(old, gap) ==
    LET decayed == (old * 7) \div 8
    IN  IF old = 0 THEN gap
        ELSE IF decayed >= gap THEN decayed ELSE gap

\* max_by_key on the elapsed time: what a full table evicts
Oldest(f, now) == {n \in DOMAIN f : \A m \in DOMAIN f :
                       Elapsed(now, f[m].last) <= Elapsed(now, f[n].last)}

\* A table with a slot free, and with n set to v evicting only for a new key.
Roomy(f, now) == IF Cardinality(DOMAIN f) >= MaxOriginators
                 THEN {Without(f, n) : n \in Oldest(f, now)} ELSE {f}
Inserted(f, n, v, now) ==
    IF n \in DOMAIN f THEN {With(f, n, v)}
    ELSE {With(g, n, v) : g \in Roomy(f, now)}

-----------------------------------------------------------------------------
(* Proofs and next-hop selection *)

ProofCurrent(e, now, n) ==
    \/ ~e.requireProof
    \/ /\ n \in DOMAIN e.proven
       /\ ~IsStale(now, e.proven[n].last, 0, SeedInterval, MaxMissedProofs)

Selectable(e, now) == {n \in Node : ProofCurrent(e, now, n)}

\* recompute_best: the neighbours of highest TQ among the selectable paths
BestChoices(paths, selectable) ==
    LET live == DOMAIN paths \cap selectable
    IN  IF live = {} THEN {None}
        ELSE {n \in live : \A m \in live : paths[m].tq <= paths[n].tq}

Chosen(r, n) == [r EXCEPT !.best = n,
                          !.maxTq = IF n = None THEN 0 ELSE r.paths[n].tq]

\* recompute_all_best, as the set of tables it may produce
Recomputed(table, selectable) ==
    {[o \in DOMAIN table |-> Chosen(table[o], pick[o])] :
        pick \in {p \in [DOMAIN table -> Node \cup {None}] :
                     \A o \in DOMAIN table :
                         p[o] \in BestChoices(table[o].paths, selectable)}}

RecomputeAllBest(e, now) ==
    {[e EXCEPT !.table = t] : t \in Recomputed(e.table, Selectable(e, now))}

EffectiveTq(e, now, n, p) == IF KeepaliveMissed(e, now, n) THEN 0 ELSE p.tq

LivePaths(e, now, dest) ==
    {n \in DOMAIN e.table[dest].paths :
        ~PathStale(now, e.table[dest].paths[n])}

MostEffective(e, now, dest, S) ==
    {n \in S : \A m \in S :
        EffectiveTq(e, now, m, e.table[dest].paths[m])
            <= EffectiveTq(e, now, n, e.table[dest].paths[n])}

\* next_hop: the possible answers, {} for None
NextHop(e, now, dest) ==
    IF dest \notin DOMAIN e.table THEN {}
    ELSE MostEffective(e, now, dest,
             LivePaths(e, now, dest) \cap Selectable(e, now))

\* Mutant: the cached next hops survive the eviction of a proof.
NoteProvenOnly(e, now, n, iface) ==
    {[e EXCEPT !.proven = proven, !.challenged = Without(@, n)]
        : proven \in Inserted(e.proven, n, [last |-> now, iface |-> iface],
                              now)}

NoteProven(e, now, n, iface) ==
    UNION {RecomputeAllBest(
               [e EXCEPT !.proven = proven, !.challenged = Without(@, n)],
               now)
           : proven \in Inserted(e.proven, n,
                                 [last |-> now, iface |-> iface], now)}

\* retain_proven: returns early when nothing is doomed
RetainProven(e, now, usable) ==
    IF DOMAIN e.proven \subseteq usable THEN {e}
    ELSE RecomputeAllBest([e EXCEPT !.proven = Keep(@, usable)], now)

-----------------------------------------------------------------------------
(* Challenge pacing *)

ProofNeedsRefresh(e, now, n) ==
    \/ n \notin DOMAIN e.proven
    \/ IsStale(now, e.proven[n].last, 0, SeedInterval, 1)

SmallerOf(x, y) == IF x <= y THEN x ELSE y

\* floor * 2^misses, capped; the cap absorbs the code's overflow checks
ChallengeBackoff(misses) ==
    LET floor == SmallerOf(FloorInterval, SeedInterval)
    IN  IF misses >= 32 THEN SeedInterval
        ELSE SmallerOf(floor * 2 ^ misses, SeedInterval)

PathNeighbors(e) == UNION {DOMAIN e.table[o].paths : o \in DOMAIN e.table}

ChallengeCandidates(e, now) ==
    {n \in PathNeighbors(e) :
        /\ e.requireProof
        /\ ProofNeedsRefresh(e, now, n)
        /\ n \in DOMAIN e.challenged =>
              Elapsed(now, e.challenged[n].last)
                  >= ChallengeBackoff(e.challenged[n].misses)}

NoteChallenged(e, now, n) ==
    LET misses == IF n \in DOMAIN e.challenged
                  THEN e.challenged[n].misses + 1 ELSE 0
    IN  {[e EXCEPT !.challenged = c] :
            c \in Inserted(e.challenged, n,
                           [last |-> now, misses |-> misses], now)}

-----------------------------------------------------------------------------
(* Keep-alives *)

NoteKeepalive(e, now, n) ==
    LET interval == IF n \in DOMAIN e.keepalive
                    THEN BlendInterval(e.keepalive[n].interval,
                             Elapsed(now, e.keepalive[n].last))
                    ELSE 0
    IN  {[e EXCEPT !.keepalive = k] :
            k \in Inserted(e.keepalive, n,
                           [last |-> now, interval |-> interval], now)}

\* Only a neighbour an OGM has already introduced is tracked.
HandleKeepalive(e, now, src) ==
    IF src # e.self /\ src \in DOMAIN e.table
    THEN NoteKeepalive(e, now, src) ELSE {e}

-----------------------------------------------------------------------------
(* Withdrawing routes *)

\* Mutant: no purge bounds the age of a stamp.
RecentOrNot(f, now) == f

Recent(f, now) == Keep(f, {n \in Node : n \in DOMAIN f =>
                               Elapsed(now, f[n].last) < StampAgeCeiling})

PathsWithin(r, S) == [r EXCEPT !.paths = Keep(@, S)]

LivePathsOnly(r, now) ==
    PathsWithin(r, {n \in DOMAIN r.paths : ~PathStale(now, r.paths[n])})

\* purge_stale: prune stale paths, recompute, drop originators left with no
\* path, latch topology_changed if anything went, and bound the age of the
\* stamps kept per neighbour.
PurgeStale(e, now) ==
    LET pruned == [o \in DOMAIN e.table |-> LivePathsOnly(e.table[o], now)]
        left == {o \in DOMAIN pruned : DOMAIN pruned[o].paths # {}}
        lost == pruned # e.table \/ left # DOMAIN e.table
    IN  {[e EXCEPT !.table = Keep(t, left),
                   !.changed = @ \/ lost,
                   !.proven = Recent(@, now),
                   !.challenged = Recent(@, now),
                   !.keepalive = Recent(@, now)]
           : t \in Recomputed(pruned, Selectable(e, now))}

\* Mutant: the proof a revoked neighbour gave earlier stands.
RevokeKeepsProof(e, revoked) ==
    LET left == Node \ revoked
    IN  [e EXCEPT !.table = [o \in DOMAIN @ \cap left |->
                                PathsWithin(@[o], left)],
                  !.challenged = Keep(@, left)]

\* revoke_originators: neither best_next_hop nor mcast_members is revisited
RevokeOriginators(e, revoked) ==
    LET left == Node \ revoked
    IN  [e EXCEPT !.table = [o \in DOMAIN @ \cap left |->
                                PathsWithin(@[o], left)],
                  !.proven = Keep(@, left),
                  !.challenged = Keep(@, left)]

\* What the router does when a revocation takes effect: drop the revoked
\* nodes, then purge_stale (CentralRouter::ingest_revocation, and the
\* OGM-carried case in handle_frame_with_metrics).
RevokeAndPurge(e, now, revoked) ==
    PurgeStale(RevokeOriginators(e, revoked), now)

\* BatmanEngine::reset: keep-alives, counters and timers survive
Reset(e) == [e EXCEPT !.table = <<>>, !.mcast = {},
                      !.proven = <<>>, !.challenged = <<>>]

\* CentralRouter::set_auth, the part that concerns the engine
SetAuth(e) == Reset([e EXCEPT !.requireProof = TRUE])

-----------------------------------------------------------------------------
(* OGMs.  A frame f has the link source src, the originator orig, the      *)
(* address prev the relay heard it from (None on an original), and the     *)
(* originator's seqno, tq, ttl and multicast groups.                       *)

\* update_mcast_membership: replace orig's memberships, as many as fit
McastUpdates(mcast, orig, groups) ==
    LET others == {m \in mcast : m[2] # orig}
        room == MaxMcastMembers - Cardinality(others)
    IN  {others \cup {<<g, orig>> : g \in S} :
            S \in {S \in SUBSET groups :
                      Cardinality(S) = SmallerOf(room, Cardinality(groups))}}

ComputedTq(f, quality) ==
    LET attenuated == IF f.tq > HopPenalty THEN f.tq - HopPenalty ELSE 0
    IN  IF quality = None THEN attenuated ELSE SmallerOf(attenuated, quality)

\* The path via f.src: refreshed, or added while there is room.  The cadence
\* is measured only across a number higher as a plain u32.
Learned(paths, f, tq, now) ==
    LET src == f.src
        interval ==
            IF src \notin DOMAIN paths THEN 0
            ELSE IF f.seqno > paths[src].seqno
                 THEN BlendInterval(paths[src].interval,
                                    Elapsed(now, paths[src].last))
                 ELSE paths[src].interval
    IN  IF src \in DOMAIN paths \/ Cardinality(DOMAIN paths) < MaxPaths
        THEN With(paths, src, [tq |-> tq, seqno |-> f.seqno, last |-> now,
                               interval |-> interval])
        ELSE paths

\* Mutant: the incumbent's metric is not refreshed.
ReselectedStale(r, src, tq, srcProven) ==
    IF srcProven /\ (r.best = None \/ tq > r.maxTq)
    THEN [r EXCEPT !.best = src, !.maxTq = tq] ELSE r

\* Hysteresis under the proof gate: refresh or demote the incumbent, promote
\* another neighbour only on a strictly better TQ.
Reselected(r, src, tq, srcProven) ==
    IF r.best = src
    THEN IF srcProven THEN [r EXCEPT !.maxTq = tq]
         ELSE [r EXCEPT !.best = None, !.maxTq = 0]
    ELSE IF srcProven /\ (r.best = None \/ tq > r.maxTq)
         THEN [r EXCEPT !.best = src, !.maxTq = tq]
         ELSE r

FreshRecord(seqno, now) ==
    [last |-> now, best |-> None, maxTq |-> 0, hw |-> Seeded(seqno),
     paths |-> <<>>]

\* The originator's record after f has been folded in.
Folded(r, f, tq, now, adm, srcProven) ==
    LET seen == IF ContentsAreCurrent(adm) THEN [r EXCEPT !.last = now] ELSE r
        learned == [seen EXCEPT !.paths = Learned(@, f, tq, now)]
    IN  IF IsStaleCopy(adm) THEN r
        ELSE Reselected(learned, f.src, tq, srcProven)

\* Mutants: every copy is repeated as it came; the TQ received is passed on.
RefloodEveryCopy(e, f, tq, adm) ==
    {[f EXCEPT !.src = e.self, !.prev = f.src]}
RefloodClaimed(e, f, tq, adm) ==
    IF Advanced(adm) /\ f.ttl > 1
    THEN {[f EXCEPT !.src = e.self, !.prev = f.src, !.ttl = @ - 1]}
    ELSE {}

\* The re-flood: one hop less, our TQ, and who we heard it from.
Reflood(e, f, tq, adm) ==
    IF Advanced(adm) /\ f.ttl > 1
    THEN {[f EXCEPT !.src = e.self, !.prev = f.src, !.ttl = @ - 1,
                    !.tq = tq]}
    ELSE {}

\* Rules 1 and 1b: our own OGM, or one we forwarded, coming back.
OgmDropped(e, f) == f.orig = e.self \/ f.prev = e.self

\* The verdict on the sequence number; a first sighting seeds the high-water.
Judged(e, now, f) ==
    IF f.orig \in DOMAIN e.table
    THEN Admit(e.table[f.orig].hw, f.seqno, now)
    ELSE Admitted(Seeded(f.seqno), "Advanced")

OgmRecord(e, now, f, tq) ==
    LET old == IF f.orig \in DOMAIN e.table THEN e.table[f.orig]
               ELSE FreshRecord(f.seqno, now)
    IN  Folded([old EXCEPT !.hw = Judged(e, now, f).entry], f, tq, now,
               Judged(e, now, f).adm, ProofCurrent(e, now, f.src))

Memberships(e, f, adm) ==
    IF ContentsAreCurrent(adm) THEN McastUpdates(e.mcast, f.orig, f.groups)
    ELSE {e.mcast}

\* handle_ogm: the possible [eng, out] with out the frames to re-flood.
\* apply_topology_change, at the end, consumes the latch.
HandleOgm(e, now, f, quality) ==
    LET tq == ComputedTq(f, quality)
        adm == Judged(e, now, f).adm
    IN  IF OgmDropped(e, f) THEN {[eng |-> e, out |-> {}]}
        ELSE UNION {{[eng |-> [e EXCEPT !.table = table, !.mcast = members,
                                        !.changed = FALSE],
                      out |-> Reflood(e, f, tq, adm)]
                        : members \in Memberships(e, f, adm)}
                    : table \in Inserted(e.table, f.orig,
                                         OgmRecord(e, now, f, tq), now)}

\* A node's own OGM: produce_periodic_broadcast purges, then announces.
OwnOgm(self, seqno, ttl, groups) ==
    [src |-> self, orig |-> self, prev |-> None, seqno |-> seqno,
     tq |-> MaxTq, ttl |-> ttl, groups |-> groups]
PeriodicPurge(e, now) == {[p EXCEPT !.changed = FALSE] : p \in PurgeStale(e, now)}
=============================================================================
