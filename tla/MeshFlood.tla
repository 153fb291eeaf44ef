----------------------------- MODULE MeshFlood ------------------------------
(***************************************************************************)
(* A mesh of engines learning the route to one destination from the OGMs   *)
(* it floods: produce_periodic_broadcast at the destination, handle_ogm    *)
(* and the re-flood at everyone else, each OGM delivered to every node in  *)
(* range in any order.  Between two rounds a link's measured quality may   *)
(* change, which clamps the TQ learned over it.                            *)
(*                                                                         *)
(* Only frames about Dest are represented, and none is delivered to Dest,  *)
(* which drops its own OGM (rule 1 of handle_ogm).                         *)
(***************************************************************************)
EXTENDS BatmanEngine

CONSTANTS
    Dest,        \* the originator
    Links,       \* undirected links, as sets of two nodes
    LinkQuality, \* the values a measured quality takes
    InitialTtl,  \* 50 in produce_periodic_broadcast
    MaxRounds,   \* bound on the OGMs Dest floods
    MaxChanges,  \* bound on changes of link quality
    MaxLosses    \* bound on copies lost

ASSUME MeshAssumption ==
    /\ Dest \in Node /\ LinkQuality \subseteq Tq
    /\ \A l \in Links : l \subseteq Node /\ Cardinality(l) = 2
    /\ InitialTtl \in Nat \ {0} /\ MaxRounds \in Nat
    /\ MaxChanges \in Nat /\ MaxLosses \in Nat

VARIABLES
    eng,      \* the engine of each node
    clock,    \* one OGM interval per round
    seqno,    \* sequence_number of Dest
    rounds,   \* OGMs flooded so far
    net,      \* copies in flight: [to, frame]
    quality,  \* [Links -> LinkQuality]
    changes, losses

vars == <<eng, clock, seqno, rounds, net, quality, changes, losses>>

Relay == Node \ {Dest}
Copy(n, f) == [to |-> n, frame |-> f]
InRange(n) == {m \in Relay : {n, m} \in Links}
Copies(n, out) == {Copy(m, f) : m \in InRange(n), f \in out}

TypeOK ==
    /\ DOMAIN eng = Relay
    /\ \A n \in Relay :
          /\ EngineOK(eng[n]) /\ eng[n].self = n
          /\ DOMAIN eng[n].table \subseteq {Dest}
    /\ clock \in Stamp /\ seqno \in Seqno /\ rounds \in 0 .. MaxRounds
    /\ \A c \in net : c.to \in Relay /\ c.frame.ttl \in 1 .. InitialTtl
    /\ quality \in [Links -> LinkQuality]
    /\ changes \in 0 .. MaxChanges /\ losses \in 0 .. MaxLosses

NewEngine(n) ==
    [self |-> n, requireProof |-> FALSE, table |-> <<>>, proven |-> <<>>,
     challenged |-> <<>>, keepalive |-> <<>>, mcast |-> {},
     changed |-> FALSE]

Init ==
    /\ eng = [n \in Relay |-> NewEngine(n)]
    /\ clock = 0 /\ seqno = 0 /\ rounds = 0 /\ net = {}
    /\ quality \in [Links -> LinkQuality]
    /\ changes = 0 /\ losses = 0

\* Dest floods its next OGM once the previous round has settled; every node
\* ran its own periodic purge in the meantime.
Emit ==
    LET next == WrappingAdd(seqno, 1, HalfSeq)
        f == OwnOgm(Dest, next, InitialTtl, {})
        now == WrappingAdd(clock, 1, HalfClock)
    IN  /\ rounds < MaxRounds /\ net = {}
        /\ seqno' = next /\ rounds' = rounds + 1 /\ clock' = now
        /\ net' = Copies(Dest, {f})
        /\ \E after \in [Relay -> UNION {PeriodicPurge(eng[n], now)
                                            : n \in Relay}] :
              /\ \A n \in Relay : after[n] \in PeriodicPurge(eng[n], now)
              /\ eng' = after
        /\ UNCHANGED <<quality, changes, losses>>

\* handle_ogm with the quality measured on the link it came over
Deliver(c) ==
    LET n == c.to
    IN  /\ \E r \in HandleOgm(eng[n], clock, c.frame,
                              quality[{n, c.frame.src}]) :
              /\ eng' = [eng EXCEPT ![n] = r.eng]
              /\ net' = (net \ {c}) \cup Copies(n, r.out)
        /\ UNCHANGED <<clock, seqno, rounds, quality, changes, losses>>

Lose(c) ==
    /\ losses < MaxLosses /\ losses' = losses + 1
    /\ net' = net \ {c}
    /\ UNCHANGED <<eng, clock, seqno, rounds, quality, changes>>

ChangeQuality(l, q) ==
    /\ net = {} /\ rounds > 0
    /\ changes < MaxChanges /\ changes' = changes + 1
    /\ quality[l] # q /\ quality' = [quality EXCEPT ![l] = q]
    /\ UNCHANGED <<eng, clock, seqno, rounds, net, losses>>

Next ==
    \/ Emit
    \/ \E c \in net : Deliver(c)
    \/ \E c \in net : Lose(c)
    \/ \E l \in Links, q \in LinkQuality : ChangeQuality(l, q)

\* A node that has received a frame processes it.
Fairness == WF_vars(\E c \in net : Deliver(c))

Spec == Init /\ [][Next]_vars /\ Fairness

-----------------------------------------------------------------------------
Best(n) == IF Dest \in DOMAIN eng[n].table THEN eng[n].table[Dest].best
           ELSE None
Forwards(n) == NextHop(eng[n], clock, Dest)
PathsSpent(n) == \A m \in DOMAIN eng[n].table[Dest].paths :
                     eng[n].table[Dest].paths[m].tq = 0

\* A nonempty set of relays none of which forwards out of it holds a cycle.
\* The cached choice, the hot path with its ties broken in favour of a cycle,
\* and the hot path when there is no tie to break.
BestLoops(S) == S # {} /\ \A n \in S : Best(n) \in S
MayLoop(S) == S # {} /\ \A n \in S : Forwards(n) \cap S # {}
MustLoop(S) ==
    S # {} /\ \A n \in S : Forwards(n) # {} /\ Forwards(n) \subseteq S

\* The routes learned from the first flood never form a cycle, at any moment
\* of the flood, whatever the links, the order of the copies and the losses:
\* handle_ogm attenuates by at least one hop, repeats a sequence number once
\* and refuses its own echo.  The hot path breaks ties as it pleases, so it
\* may turn in a circle only where the TQ of every path is spent.
FirstFloodLoopFree ==
    rounds <= 1 => \A S \in SUBSET Relay :
        /\ ~BestLoops(S)
        /\ MayLoop(S) => \A n \in S : PathsSpent(n)

\* Every flood dies out: a node repeats each (originator, sequence number)
\* once, so copies do not circulate ("OGMs must stop after a converged mesh
\* floods one round").
FloodsSettle == []<>(net = {})

\* "Assert the mesh's data plane is loop-free" once the mesh has settled
\* (integration_tests.rs, assert_forwarding_graph_loop_free): with every copy
\* of every OGM delivered, no destination is forwarded to in a circle.
SettledLoopFree ==
    net = {} => \A S \in SUBSET Relay : ~MustLoop(S)
=============================================================================
