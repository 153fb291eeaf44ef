---------------------------- MODULE MCRouteTable ----------------------------
(* Frames and symmetries for the instances of RouteTable. *)
EXTENDS RouteTable, TLC

CONSTANTS s, x, y, z, g

Ogm(src, orig, prev, seqno, tq, groups) ==
    [src |-> src, orig |-> orig, prev |-> prev, seqno |-> seqno, tq |-> tq,
     ttl |-> 1, groups |-> groups]

\* An OGM of ours looping back, and the echo of one we forwarded.
Looped == {Ogm(n, s, None, 0, 3, {}) : n \in {y, z}}
              \cup {Ogm(n, x, s, 1, 3, {}) : n \in {y, z}}

\* One originator heard directly and through either of two relays.
OneOrigin == {Ogm(n, x, None, q, tq, {}) : n \in {x, y, z},
                                           q \in {0, 1}, tq \in {2, 3}}
                 \cup Looped

\* Two originators, each heard directly and through the other, one a
\* multicast listener.
TwoOrigins == {Ogm(n, o, None, 0, 3, {}) : n \in {x, y}, o \in {x, y}}
                  \cup {Ogm(n, n, None, 1, 3, {g}) : n \in {x, y}}

Relays == Permutations({y, z})
=============================================================================
