----------------------------- MODULE RouteTable -----------------------------
(***************************************************************************)
(* One node's routing state over time: the engine of BatmanEngine driven   *)
(* by the frames its neighbours send, the proofs they give, the router's   *)
(* key sweeps and revocations, and the periodic tick.                      *)
(*                                                                         *)
(* The authentication layer is seen through what it lets through.         *)
(* `revoked` are the nodes it shuns (is_shunned) since their revocation    *)
(* was applied: everything they send is dropped but OGMs, which            *)
(* verify_ogm judges by the originator's certificate, not the relay's -- a *)
(* good originator's OGM relayed by a revoked node does reach the engine,  *)
(* and an OGM of the revoked node itself does once it carries a newer      *)
(* certificate, which re-admits it.                                        *)
(***************************************************************************)
EXTENDS BatmanEngine

CONSTANTS
    Self,            \* this node
    Neighbor,        \* the nodes in range
    Revocable,       \* the nodes a revocation may name
    OgmFrames,       \* the OGMs that may arrive
    Quality,         \* local_quality readings, None when unmeasured
    Authenticated,   \* does the node start with a credential?
    PurgePeriod,     \* most ticks between two periodic purges
    MaxEvents,       \* bound on the frames and calls of a behaviour
    LastTick         \* the clock stops here; None lets it wrap for ever

OgmFrame == [src : Neighbor, orig : Node, prev : Node \cup {None},
             seqno : Seqno, tq : Tq, ttl : Nat, groups : SUBSET Group]

\* The last conjunct: a day and one Trickle interval are well within the
\* 24.8 days that half the range of a millisecond stamp spans.
ASSUME RouteTableAssumption ==
    /\ Self \in Node /\ Neighbor \subseteq Node \ {Self}
    /\ Revocable \subseteq Node
    /\ OgmFrames \subseteq OgmFrame
    /\ Authenticated \in BOOLEAN
    /\ PurgePeriod \in Nat \ {0} /\ MaxEvents \in Nat
    /\ LastTick \in Stamp \cup {None}
    /\ Quality \subseteq Tq \cup {None}
    /\ StampAgeCeiling + PurgePeriod <= HalfClock

VARIABLES
    eng,       \* the BatmanEngine
    clock,     \* now
    revoked,   \* nodes whose revocation has been applied
    locked,    \* self_revoked(): inert until re-enrolled
    sincePurge,
    events,
    proofAge   \* history: true age of each proof held

vars == <<eng, clock, revoked, locked, sincePurge, events, proofAge>>

\* Saturation of proofAge.
AgeCap == 2 * HalfClock + 1

TypeOK ==
    /\ EngineOK(eng) /\ eng.self = Self
    /\ clock \in Stamp /\ revoked \subseteq Node /\ locked \in BOOLEAN
    /\ sincePurge \in 0 .. PurgePeriod /\ events \in 0 .. MaxEvents
    /\ proofAge \in [Node -> 0 .. AgeCap]

NewEngine ==
    [self |-> Self, requireProof |-> Authenticated, table |-> <<>>,
     proven |-> <<>>, challenged |-> <<>>, keepalive |-> <<>>,
     mcast |-> {}, changed |-> FALSE]

Init ==
    /\ eng = NewEngine /\ clock = 0 /\ revoked = {} /\ locked = FALSE
    /\ sincePurge = 0 /\ events = 0
    /\ proofAge = [n \in Node |-> 0]

Event == events < MaxEvents /\ events' = events + 1

Unchanged == UNCHANGED <<clock, sincePurge, proofAge>>

\* handle_frame_with_metrics on an OGM that verify_ogm let through: `newly`
\* are the nodes revoked by the records it carries (never its originator's
\* own, which ingest_revocation keeps out of what a node floods).  They take
\* effect before handle_ogm runs.
RxOgm(f, quality, newly) ==
    /\ Event /\ ~locked
    /\ newly # {} \/ f.orig \in revoked => eng.requireProof
    /\ revoked' = (revoked \ {f.orig}) \cup newly
    /\ \E e \in IF newly = {} THEN {eng}
                ELSE RevokeAndPurge(eng, clock, revoked') :
          \E r \in HandleOgm(e, clock, f, quality) : eng' = r.eng
    /\ UNCHANGED locked /\ Unchanged

RxKeepalive(n) ==
    /\ Event /\ ~locked /\ n \notin revoked
    /\ eng' \in HandleKeepalive(eng, clock, n)
    /\ UNCHANGED <<revoked, locked>> /\ Unchanged

\* A NextHopResponse that verifies reaches note_proven.
RxProof(n, iface) ==
    /\ Event /\ ~locked /\ n \notin revoked
    /\ eng' \in NoteProven(eng, clock, n, iface)
    /\ proofAge' = [proofAge EXCEPT ![n] = 0]
    /\ UNCHANGED <<clock, revoked, locked, sincePurge>>

\* CentralRouter::poll_challenge: the candidate is stamped before the frame
\* is built, so a neighbour with no key backs off too.
PollChallenge(n) ==
    /\ Event /\ ~locked
    /\ n \in ChallengeCandidates(eng, clock)
    /\ eng' \in NoteChallenged(eng, clock, n)
    /\ UNCHANGED <<revoked, locked>> /\ Unchanged

\* CentralRouter::set_auth_time found that keys went: usable are those left.
SweepKeys(usable) ==
    /\ Event /\ eng.requireProof
    /\ eng' \in RetainProven(eng, clock, usable)
    /\ UNCHANGED <<revoked, locked>> /\ Unchanged

\* CentralRouter::ingest_revocation, from the management port
IngestRevocation(n) ==
    /\ Event /\ ~locked /\ eng.requireProof
    /\ revoked' = revoked \cup {n}
    /\ eng' \in RevokeAndPurge(eng, clock, revoked')
    /\ UNCHANGED locked /\ Unchanged

\* apply_self_revocation, wherever it is called: the node goes inert.
SelfRevoked ==
    /\ Event /\ ~locked /\ eng.requireProof
    /\ locked' = TRUE /\ revoked' = {}
    /\ eng' = Reset(eng)
    /\ Unchanged

\* CentralRouter::set_auth: the mesh is learned afresh under an OgmAuth that
\* knows of no revocation.  A certificate the node's own revocation cancels
\* leaves it locked.
InstallAuth(cancelled) ==
    /\ Event
    /\ cancelled => locked
    /\ locked' = cancelled /\ revoked' = {}
    /\ eng' = SetAuth(eng)
    /\ Unchanged

\* produce_periodic_broadcast
PeriodicTick ==
    /\ sincePurge > 0 /\ ~locked
    /\ eng' \in PeriodicPurge(eng, clock)
    /\ sincePurge' = 0
    /\ UNCHANGED <<clock, revoked, locked, events, proofAge>>

\* The Trickle timers keep the periodic purge within PurgePeriod ticks; an
\* inert node does not purge.
Tick ==
    /\ sincePurge < PurgePeriod \/ locked
    /\ clock # LastTick
    /\ clock' = WrappingAdd(clock, 1, HalfClock)
    /\ sincePurge' = IF sincePurge < PurgePeriod THEN sincePurge + 1
                     ELSE PurgePeriod
    /\ proofAge' = [n \in Node |-> IF n \notin DOMAIN eng.proven THEN 0
                        ELSE IF proofAge[n] < AgeCap THEN proofAge[n] + 1
                        ELSE AgeCap]
    /\ UNCHANGED <<eng, revoked, locked, events>>

Next ==
    \/ \E f \in OgmFrames, q \in Quality :
          \E newly \in {{}} \cup {{n} : n \in Revocable \ {f.orig}} :
              RxOgm(f, q, newly)
    \/ \E n \in Neighbor : RxKeepalive(n)
    \/ \E n \in Neighbor, i \in Interface : RxProof(n, i)
    \/ \E n \in Neighbor : PollChallenge(n)
    \/ \E usable \in SUBSET Neighbor : SweepKeys(usable)
    \/ \E n \in Revocable : IngestRevocation(n)
    \/ SelfRevoked
    \/ \E cancelled \in BOOLEAN : InstallAuth(cancelled)
    \/ PeriodicTick
    \/ Tick

Spec == Init /\ [][Next]_vars

-----------------------------------------------------------------------------
\* No cached next hop without a proof on record: on an authenticated mesh a
\* neighbour that never answered a challenge, or whose proof was swept,
\* evicted or revoked, is not selected (best_next_hop: "that state cannot be
\* skipped").
BestBacked ==
    eng.requireProof =>
        \A o \in DOMAIN eng.table :
            eng.table[o].best \in DOMAIN eng.proven \cup {None}

\* Every record's cached metric stays that of the path its cached next hop
\* names, through refreshes, demotions, promotions, purges and revocations
\* (OriginatorRecord::max_tq; Tracked states the one exception).
BestTracked == \A o \in DOMAIN eng.table : Tracked(eng.table[o])

\* A revoked node is out of the routing state until it is re-admitted: no
\* route leads to it, and none through it, not even one re-learned from an
\* OGM it relays after the revocation was applied.
RevokedGone ==
    /\ DOMAIN eng.table \cap revoked = {}
    /\ DOMAIN eng.proven \cap revoked = {}
    /\ \A o \in DOMAIN eng.table :
          /\ eng.table[o].best \notin revoked
          /\ NextHop(eng, clock, o) \cap revoked = {}

\* A proof is never honoured past its budget, however long the neighbour has
\* been away: the purge removes the stamp before the 32-bit clock makes it
\* look young again (STAMP_AGE_CEILING_MS).
ProofExpires ==
    \A n \in DOMAIN eng.proven :
        eng.requireProof /\ proofAge[n] > SeedInterval * MaxMissedProofs
            => ~ProofCurrent(eng, clock, n)
=============================================================================
