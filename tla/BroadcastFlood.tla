--------------------------- MODULE BroadcastFlood ---------------------------
(***************************************************************************)
(* Flooded broadcasts over a mesh: CentralRouter::handle_local with the    *)
(* broadcast destination at the sender, BatmanEngine::handle_broadcast at  *)
(* every receiver.  The medium may lose, duplicate, delay and reorder      *)
(* frames; nodes may reboot (the counter and the dedup table are volatile) *)
(* and the dedup table is bounded and evicts.                              *)
(*                                                                         *)
(* A frame carries the history identity `id` of the broadcast it is a copy *)
(* of: the originator, its incarnation and the number.  The code sees only *)
(* orig, seqno and ttl.                                                    *)
(***************************************************************************)
EXTENDS SeqnoBands, FiniteSets

CONSTANTS
    Node,            \* the mesh
    Origin,          \* the nodes that originate broadcasts
    Adjacent,        \* [Node -> SUBSET Node]: who hears a node's transmission
    MaxOriginators,  \* capacity of broadcast_seqno
    InitialTtl,      \* 50 in handle_local
    Overlap,         \* may a broadcast start while an earlier one circulates?
    MaxSends,        \* bound on the broadcasts of one originator
    MaxReboots,      \* bound on reboots
    MaxDups,         \* bound on frames the medium duplicates
    MaxLosses,       \* bound on frames the medium loses
    MaxClock         \* bound on the clock

ASSUME FloodAssumption ==
    /\ Origin \subseteq Node /\ Adjacent \in [Node -> SUBSET Node]
    /\ MaxOriginators \in Nat \ {0} /\ InitialTtl \in Nat \ {0}
    /\ Overlap \in BOOLEAN /\ MaxSends \in Nat /\ MaxReboots \in Nat
    /\ MaxDups \in Nat /\ MaxLosses \in Nat
    /\ MaxClock \in Nat /\ MaxClock < 2 * HalfClock

VARIABLES
    clock,      \* now
    counter,    \* broadcast_sequence_number of each node
    boot,       \* history: incarnation of each node
    sends,      \* broadcasts originated so far
    flooded,    \* history: the broadcasts put on the air
    dedup,      \* broadcast_seqno of each node: a map from originator
    net,        \* copies in flight
    delivered,  \* history: what each node delivered since its entry for the
                \*   originator was last seeded or rewound
    everSeen,   \* history: what each node has ever delivered
    again,      \* history: a node delivered the same broadcast twice
    reboots, dups, losses

vars == <<clock, counter, boot, sends, flooded, dedup, net, delivered,
          everSeen, again, reboots, dups, losses>>

Id == [orig : Node, boot : 0 .. MaxReboots, seqno : Seqno]
Frame == [to : Node, orig : Node, seqno : Seqno, ttl : 1 .. InitialTtl,
          id : Id]
DedupEntry == [hw : SeqnoEntry, lastUpdated : Stamp]

TypeOK ==
    /\ clock \in 0 .. MaxClock
    /\ counter \in [Node -> Seqno] /\ boot \in [Node -> 0 .. MaxReboots]
    /\ sends \in [Node -> 0 .. MaxSends]
    /\ \A n \in Node :
          /\ DOMAIN dedup[n] \subseteq Node
          /\ Cardinality(DOMAIN dedup[n]) <= MaxOriginators
          /\ \A o \in DOMAIN dedup[n] : dedup[n][o] \in DedupEntry
    /\ net \subseteq Frame /\ flooded \subseteq Id
    /\ delivered \in [Node -> SUBSET Id] /\ everSeen \in [Node -> SUBSET Id]
    /\ again \in BOOLEAN
    /\ reboots \in 0 .. MaxReboots
    /\ dups \in 0 .. MaxDups /\ losses \in 0 .. MaxLosses

-----------------------------------------------------------------------------
Without(table, o) == [p \in DOMAIN table \ {o} |-> table[p]]
With(table, o, e) == [p \in DOMAIN table \cup {o} |->
                          IF p = o THEN e ELSE table[p]]

\* The least recently updated entries, by elapsed time: the eviction key.
Oldest(table) == {o \in DOMAIN table : \A p \in DOMAIN table :
                      Elapsed(clock, table[p].lastUpdated)
                          <= Elapsed(clock, table[o].lastUpdated)}

\* Making room: a full table evicts one of the oldest entries.
Roomy(table) == IF Cardinality(DOMAIN table) >= MaxOriginators
                THEN {Without(table, o) : o \in Oldest(table)}
                ELSE {table}

\* One transmission reaches every neighbour, the one it came from included.
Transmit(n, orig, seqno, ttl, id) ==
    {[to |-> m, orig |-> orig, seqno |-> seqno, ttl |-> ttl, id |-> id]
        : m \in Adjacent[n]}

InFlight(o) == \E f \in net : f.orig = o

\* handle_local(BROADCAST): allocate a number and flood.  A payload too big
\* for the transmit buffer burns the number.
Send(n, fits) ==
    LET seqno == WrappingAdd(counter[n], 1, HalfSeq)
        id == [orig |-> n, boot |-> boot[n], seqno |-> seqno]
    IN  /\ sends[n] < MaxSends
        /\ Overlap \/ ~InFlight(n)
        /\ counter' = [counter EXCEPT ![n] = seqno]
        /\ sends' = [sends EXCEPT ![n] = @ + 1]
        /\ IF fits
           THEN /\ net' = net \cup Transmit(n, n, seqno, InitialTtl, id)
                /\ flooded' = flooded \cup {id}
           ELSE UNCHANGED <<net, flooded>>
        /\ UNCHANGED <<clock, boot, dedup, delivered, everSeen, again,
                       reboots, dups, losses>>

\* Mutant: the last hop the TTL allows is not taken.
DeliverShort(n, f, rest, base) ==
    /\ net' = IF f.ttl <= 2 THEN rest
              ELSE rest \cup Transmit(n, f.orig, f.seqno, f.ttl - 1, f.id)
    /\ again' = (again \/ f.id \in base)
    /\ delivered' = [delivered EXCEPT ![n] = base \cup {f.id}]
    /\ everSeen' = [everSeen EXCEPT ![n] = @ \cup {f.id}]

\* Rules 3 and 4: deliver locally, and re-flood while the TTL lasts.
DeliverAndReflood(n, f, rest, base) ==
    /\ net' = IF f.ttl <= 1 THEN rest
              ELSE rest \cup Transmit(n, f.orig, f.seqno, f.ttl - 1, f.id)
    /\ again' = (again \/ f.id \in base)
    /\ delivered' = [delivered EXCEPT ![n] = base \cup {f.id}]
    /\ everSeen' = [everSeen EXCEPT ![n] = @ \cup {f.id}]

\* The history kept for an originator starts afresh when its entry does.
Forgetting(n, origs) == {id \in delivered[n] : id.orig \notin origs}

\* Rule 2, a known originator: BroadcastSeqnoEntry::admit
RxKnown(n, f, rest) ==
    LET old == dedup[n][f.orig]
        result == Admit(old.hw, f.seqno, clock)
        written == HighWaterWritten(result.adm)
    IN  /\ f.orig \in DOMAIN dedup[n]
        /\ dedup' = [dedup EXCEPT ![n][f.orig] =
                        [hw |-> result.entry,
                         lastUpdated |-> IF written THEN clock
                                         ELSE old.lastUpdated]]
        /\ IF Advanced(result.adm)
           THEN DeliverAndReflood(n, f, rest,
                    IF result.adm = "Advanced" THEN delivered[n]
                    ELSE Forgetting(n, {f.orig}))
           ELSE /\ net' = rest
                /\ delivered' = IF result.adm \in Resynchronised
                                THEN [delivered EXCEPT ![n] =
                                         Forgetting(n, {f.orig})]
                                ELSE delivered
                /\ UNCHANGED <<again, everSeen>>

\* Rule 2, an originator not in the table: make room and seed.
RxUnknown(n, f, rest) ==
    /\ f.orig \notin DOMAIN dedup[n]
    /\ \E table \in Roomy(dedup[n]) :
          /\ dedup' = [dedup EXCEPT ![n] =
                          With(table, f.orig, [hw |-> Seeded(f.seqno),
                                               lastUpdated |-> clock])]
          /\ DeliverAndReflood(n, f, rest,
                 Forgetting(n, (DOMAIN dedup[n] \ DOMAIN table)
                                   \cup {f.orig}))

\* handle_broadcast: rule 1 drops our own broadcast looping back.
Rx(f, dup) ==
    LET n == f.to
        rest == IF dup THEN net ELSE net \ {f}
    IN  /\ dup => dups < MaxDups
        /\ dups' = IF dup THEN dups + 1 ELSE dups
        /\ \/ /\ f.orig = n
              /\ net' = rest
              /\ UNCHANGED <<dedup, delivered, everSeen, again>>
           \/ f.orig # n /\ RxKnown(n, f, rest)
           \/ f.orig # n /\ RxUnknown(n, f, rest)
        /\ UNCHANGED <<clock, counter, boot, sends, flooded, reboots, losses>>

Lose(f) ==
    /\ losses < MaxLosses /\ losses' = losses + 1
    /\ net' = net \ {f}
    /\ UNCHANGED <<clock, counter, boot, sends, flooded, dedup, delivered,
                   everSeen, again, reboots, dups>>

\* Nothing of this survives a restart.
Reboot(n) ==
    /\ reboots < MaxReboots /\ reboots' = reboots + 1
    /\ boot' = [boot EXCEPT ![n] = @ + 1]
    /\ counter' = [counter EXCEPT ![n] = 0]
    /\ dedup' = [dedup EXCEPT ![n] = <<>>]
    /\ delivered' = [delivered EXCEPT ![n] = {}]
    /\ everSeen' = [everSeen EXCEPT ![n] = {}]
    /\ UNCHANGED <<clock, sends, flooded, net, again, dups,
                   losses>>

Tick ==
    /\ clock < MaxClock /\ clock' = clock + 1
    /\ UNCHANGED <<counter, boot, sends, flooded, dedup, net, delivered,
                   everSeen, again, reboots, dups, losses>>

\* A node that has been up for long may be close to the counter's wrap.
Init ==
    /\ clock = 0
    /\ \E start \in {0, 2 * HalfSeq - 2} : counter = [n \in Node |-> start]
    /\ boot = [n \in Node |-> 0] /\ sends = [n \in Node |-> 0]
    /\ dedup = [n \in Node |-> <<>>]
    /\ net = {} /\ flooded = {}
    /\ delivered = [n \in Node |-> {}] /\ everSeen = [n \in Node |-> {}]
    /\ again = FALSE
    /\ reboots = 0 /\ dups = 0 /\ losses = 0

Next ==
    \/ \E n \in Origin, fits \in BOOLEAN : Send(n, fits)
    \/ \E f \in net, dup \in BOOLEAN : Rx(f, dup)
    \/ \E f \in net : Lose(f)
    \/ \E n \in Node : Reboot(n)
    \/ Tick

Spec == Init /\ [][Next]_vars

-----------------------------------------------------------------------------
\* A node delivers, and re-floods, each broadcast at most once for as long
\* as its dedup entry for the originator is neither evicted nor rewound
\* ("a broadcast arriving via several paths must be flooded onward only
\* once, or it would circulate forever on a cyclic mesh").
AtMostOnce == ~again

\* Once a flood has died out without loss, reboot or overlap, every node of
\* a connected mesh no wider than the TTL has delivered it: the dedup table
\* suppressed copies, never the broadcast.
Coverage ==
    (net = {} /\ losses = 0 /\ reboots = 0 /\ ~Overlap) =>
        \A id \in flooded : \A n \in Node \ {id.orig} : id \in everSeen[n]
=============================================================================
