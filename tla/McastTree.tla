------------------------------ MODULE McastTree ------------------------------
(***************************************************************************)
(* A multicast frame on its way to a set of listeners: the sender and      *)
(* every relay split the destination list by next hop and send one frame   *)
(* for each (handle_local_mcast, handle_mcast), and a relay's driver may   *)
(* collapse the frames for neighbours on one broadcast medium into a       *)
(* single signed one (flush_mcast_groups).                                 *)
(*                                                                         *)
(* Routes may change while frames are under way, and frames may be lost or *)
(* refused by a full sink.                                                 *)
(***************************************************************************)
EXTENDS Option, Naturals, FiniteSets

CONSTANTS
    Station,     \* the nodes of the mesh
    source,      \* the one that sends
    Medium,      \* the medium of each pair of neighbours <<n, m>>
    Threshold,   \* of each medium: FanOut::threshold, 0 for no FanOut
    Span,        \* of each medium: destinations that fit its max_frame_len
    Gated,       \* media whose transmit gate is closed for data
    Room,        \* of each node: destinations that fit its buffer
    MaxDests,    \* of each node: MAX_MCAST_DESTS
    Routes,      \* tables of next hops to begin with
    MaxTtl,      \* the ttl a frame leaves with
    MaxUpsets    \* bound: routes changed, frames lost or refused

Neighbor(n) == {m \in Station : <<n, m>> \in DOMAIN Medium}

\* A next hop is a neighbour: the engine learns routes from the neighbours it
\* hears.
ASSUME McastAssumption ==
    /\ source \in Station /\ None \notin Station
    /\ \A table \in Routes :
        /\ table \in [Station -> [Station -> Station \cup {None}]]
        /\ \A n, d \in Station : table[n][d] \in Neighbor(n) \cup {None}

VARIABLES
    hop,      \* next_hop: for each node and destination
    wanted,   \* the listeners the frame was sent for
    frames,   \* frames under way
    got,      \* copies handed to the host at each node
    gone,     \* ghost: listeners whose copy was dropped
    upsets

mcastVars == <<hop, wanted, frames, got, gone, upsets>>

Copy(to, ttl, form, dests) ==
    [to |-> to, ttl |-> ttl, form |-> form, dests |-> dests]

\* The listeners a frame under way is the copy for: a directed one for all of
\* its list, a signed one for the hearer only.
Serves(f) == IF f.form = "Tag" THEN f.dests ELSE f.dests \cap {f.to}

\* The lists of next hops, and the list of one.
Routed(n, dests) == {d \in dests \ {n} : hop[n][d] # None}

Hops(n, dests) == {hop[n][d] : d \in Routed(n, dests)}

Group(n, dests, m) == {d \in Routed(n, dests) : hop[n][d] = m}

Union(n, dests, hops) == UNION {Group(n, dests, m) : m \in hops}

\* write_mcast has room for the group.
Fits(n, dests) == Cardinality(dests) <= Room[n]

\* plan_dispatch: a frame for a gated medium is dropped.
Ungated(n, m) == Medium[<<n, m>>] \notin Gated

Directed(n, dests, hops, ttl) ==
    {Copy(m, ttl, "Tag", Group(n, dests, m)) :
        m \in {x \in hops : Ungated(n, x)}}

----------------------------------------------------------------------------
\* handle_local_mcast: groups are emitted in the order of the list until one
\* does not fit, which ends the call; `refused` are those the sink had no
\* room for.
handle_local_mcast(dests) ==
    LET hops == Hops(source, dests)
        fit == {m \in hops : Fits(source, Group(source, dests, m))}
    IN  /\ wanted = {}
        /\ dests # {} /\ source \notin dests
        /\ wanted' = dests
        /\ \E emitted \in SUBSET fit :
              /\ emitted = fit \/ fit # hops \/ upsets < MaxUpsets
              /\ upsets' = IF emitted = fit \/ fit # hops THEN upsets
                           ELSE upsets + 1
              /\ LET left == {m \in emitted : Ungated(source, m)}
                 IN  /\ frames' = Directed(source, dests, left, MaxTtl)
                     /\ gone' = dests \ Union(source, dests, left)
        /\ UNCHANGED <<hop, got>>

\* flush_mcast_groups at node n: the neighbours on medium M that are the
\* whole of their groups.
Terminal(n, dests, M) ==
    {m \in Hops(n, dests) : Group(n, dests, m) = {m} /\ Medium[<<n, m>>] = M}

Collapsible(n, dests, M) ==
    LET peers == Terminal(n, dests, M)
    IN  /\ Threshold[M] # 0 /\ M \notin Gated
        /\ Cardinality(peers) >= Threshold[M]
        /\ Fits(n, peers)
        /\ Cardinality(peers) <= Span[M]

\* One signed frame, which every neighbour on the medium hears.
Signed(n, dests, M, ttl) ==
    {Copy(m, ttl, "Signature", Terminal(n, dests, M)) :
        m \in {x \in Neighbor(n) : Medium[<<n, x>>] = M}}

Media == {Medium[p] : p \in DOMAIN Medium}

\* Mutant: the last hop the ttl allows is not taken.
RelaysTooFew(f) == f.form = "Tag" /\ f.ttl > 2

\* Mutant: forwards a signed frame like a directed one.
Forwards(f) == f.ttl > 1

\* Only a directed frame is forwarded, and only while its ttl lasts.
Relayed(f) == f.form = "Tag" /\ f.ttl > 1

\* handle_mcast and the flush that follows it.
handle_mcast(n, f) ==
    LET whole == Cardinality(f.dests) <= MaxDests[n]
        dests == IF Relayed(f) /\ whole THEN f.dests ELSE {}
        hops == Hops(n, dests)
        ready == {M \in Media : Collapsible(n, dests, M)}
    IN  /\ f.to = n
        /\ got' = IF whole /\ n \in f.dests THEN [got EXCEPT ![n] = @ + 1]
                  ELSE got
        /\ \E taken \in SUBSET ready, refused \in SUBSET hops :
              LET merged == UNION {Terminal(n, dests, M) : M \in taken}
                  left == {m \in hops \ (merged \cup refused) :
                              Fits(n, Group(n, dests, m)) /\ Ungated(n, m)}
                  clean == taken = ready /\ refused = {}
              IN  /\ clean \/ upsets < MaxUpsets
                  /\ upsets' = IF clean THEN upsets ELSE upsets + 1
                  /\ frames' = (frames \ {f})
                              \cup Directed(n, dests, left, f.ttl - 1)
                              \cup UNION {Signed(n, dests, M, f.ttl - 1) :
                                             M \in taken}
                  /\ gone' = gone \cup (Serves(f) \ (merged
                                \cup Union(n, dests, left)
                                \cup (IF whole THEN {n} ELSE {})))
        /\ UNCHANGED <<hop, wanted>>

LoseCopy(f) ==
    /\ upsets < MaxUpsets
    /\ upsets' = upsets + 1
    /\ frames' = frames \ {f}
    /\ gone' = gone \cup Serves(f)
    /\ UNCHANGED <<hop, wanted, got>>

\* The best route of n to d changes or goes while a copy for d is under way.
Reroute(n, d) ==
    /\ \E f \in frames : d \in Serves(f)
    /\ upsets < MaxUpsets
    /\ upsets' = upsets + 1
    /\ \E m \in Neighbor(n) \cup {None} : hop' = [hop EXCEPT ![n][d] = m]
    /\ UNCHANGED <<wanted, frames, got, gone>>

McastInit ==
    /\ hop \in Routes
    /\ wanted = {} /\ frames = {}
    /\ got = [n \in Station |-> 0]
    /\ gone = {}
    /\ upsets = 0

McastNext ==
    \/ \E dests \in SUBSET (Station \ {source}) : handle_local_mcast(dests)
    \/ \E n \in Station : \E f \in frames : handle_mcast(n, f)
    \/ \E f \in frames : LoseCopy(f)
    \/ \E n \in Station : \E d \in Station \ {n} : Reroute(n, d)

McastSpec == McastInit /\ [][McastNext]_mcastVars

----------------------------------------------------------------------------
McastTypeOK ==
    /\ hop \in [Station -> [Station -> Station \cup {None}]]
    /\ wanted \subseteq Station \ {source}
    /\ \A f \in frames : /\ f.to \in Station /\ f.ttl \in 0..MaxTtl
                      /\ f.form \in {"Tag", "Signature"}
                      /\ f.dests \in SUBSET wanted \ {{}}
    /\ got \in [Station -> 0..1]
    /\ gone \subseteq wanted
    /\ upsets \in 0..MaxUpsets

\* Every listener's copy is in one place: handed to its host, dropped, or in
\* one frame under way, however routes change and whatever is collapsed
\* (`handle_mcast`, `flush_mcast_groups`).
OnePlace ==
    /\ \A f, g \in frames : f # g => Serves(f) \cap Serves(g) = {}
    /\ \A d \in wanted :
          LET flying == \E f \in frames : d \in Serves(f)
          IN  \/ got[d] = 1 /\ d \notin gone /\ ~flying
              \/ got[d] = 0 /\ d \in gone /\ ~flying
              \/ got[d] = 0 /\ d \notin gone /\ flying
    /\ \A n \in Station \ wanted : got[n] = 0

\* The nodes that d's next hops lead from over open media, in k steps.
Leads(d) ==
    LET from[k \in 0..MaxTtl] ==
            IF k = 0 THEN {d}
            ELSE from[k - 1] \cup
                 {n \in Station : /\ hop[n][d] \in from[k - 1]
                               /\ Ungated(n, hop[n][d])}
    IN  from[MaxTtl]

\* A frame that met no fault has, once nothing of it is under way, been
\* handed to every listener the source has a route to, if the nodes can hold
\* the list: neither the split by next hop nor the collapse into signed
\* frames leaves a listener out (`handle_mcast`, `flush_mcast_groups`).
Reaches ==
    frames = {} /\ upsets = 0 =>
        \A d \in wanted :
            (/\ source \in Leads(d)
             /\ \A n \in Station : /\ Cardinality(wanted) <= Room[n]
                               /\ Cardinality(wanted) <= MaxDests[n])
              => got[d] = 1
=============================================================================
