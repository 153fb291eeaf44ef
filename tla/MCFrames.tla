------------------------------ MODULE MCFrames -------------------------------
(***************************************************************************)
(* Frames that must come out once and whole, in one instance: a behaviour  *)
(* is that of broadcasts over a ring of four nodes ("ring"), of broadcasts *)
(* between two nodes that reboot ("pair"), of frames cut into fragments on *)
(* a small link ("fragments"), or of one multicast frame ("multicast").    *)
(*                                                                         *)
(* The multicast mesh: a source s, a relay r it reaches over a wire, and   *)
(* three listeners on r's radio.  One of them, x, is also in reach of s,   *)
(* over a link whose transmit gate is closed.                              *)
(***************************************************************************)
EXTENDS BroadcastFlood, McastTree, TLC

CONSTANTS
    a, b, c, d,
    e, f, stranger,
    s, r, x, y, z,
    Recut, Interleave    \* Reassembly's Recut and Overlap

VARIABLES
    part,
    sent, air, entries, out, whole, spoilt, opened, faults

floodVars ==
    <<clock, counter, boot, sends, flooded, dedup, net, delivered, everSeen,
      again, reboots, dups, losses>>

fragmentVars == <<sent, air, entries, out, whole, spoilt, opened, faults>>

----------------------------------------------------------------------------
\* A ring of four: two disjoint paths to the far corner.
RingOfFour == (a :> {b, d} @@ b :> {a, c} @@ c :> {b, d} @@ d :> {a, c})

\* Two nodes in range of each other: loss, a reboot, overlapping floods.
Pair ==
    INSTANCE BroadcastFlood WITH
        Node <- {a, b}, Origin <- {a}, Adjacent <- (a :> {b} @@ b :> {a}),
        Overlap <- TRUE, MaxSends <- 4, MaxReboots <- 1, MaxLosses <- 1,
        MaxClock <- 2

\* Fragments of two bytes, frames of up to five.  The strays: a count larger
\* than any frame needs, a short fragment that is not the last, and an index
\* past the count.
Link ==
    INSTANCE Reassembly WITH
        Sender <- {e, f}, Lengths <- {3, 5},
        Strays <- {[key |-> <<stranger, 0>>, index |-> 0, count |-> 4,
                    body |-> <<None, None>>],
                   [key |-> <<stranger, 0>>, index |-> 0, count |-> 2,
                    body |-> <<None>>],
                   [key |-> <<stranger, 0>>, index |-> 1, count |-> 1,
                    body |-> <<None, None>>]},
        FRAG_PAYLOAD <- 2, MAX_FRAGMENTS <- 3, MAX_REASSEMBLED_LEN <- 5,
        MAX_REASSEMBLIES <- 2, MsgIds <- 2, Overlap <- Interleave,
        MaxSends <- 3, MaxFaults <- 1, clock <- opened

OnRadio == {r, x, y, z}

Mesh == OnRadio \cup {s}

Reach ==
    [p \in {<<s, r>>, <<r, s>>, <<s, x>>, <<x, s>>}
            \cup {q \in OnRadio \X OnRadio : q[1] # q[2]} |->
        IF {p[1], p[2]} = {s, r} THEN "wire"
        ELSE IF {p[1], p[2]} = {s, x} THEN "side" ELSE "radio"]

Thresholds == [wire |-> 0, side |-> 0, radio |-> 2]

Spans == [wire |-> 4, side |-> 4, radio |-> 2]

Rooms == [n \in Mesh |-> IF n = s THEN 4 ELSE 3]

Dests == [n \in Mesh |-> IF n = r THEN 3 ELSE 4]

ViaRelay ==
    [n \in Mesh |-> [m \in Mesh |->
        IF n = m THEN None
        ELSE IF n = s THEN r
        ELSE IF m # s THEN m
        ELSE IF n = r THEN s ELSE r]]

\* Everything through r; x reached directly; y behind x.
RouteTables ==
    {ViaRelay, [ViaRelay EXCEPT ![s][x] = x], [ViaRelay EXCEPT ![r][y] = x]}

----------------------------------------------------------------------------
\* The parts a behaviour is not about rest in an initial state.
MCInit ==
    /\ part \in {"ring", "pair", "fragments", "multicast"}
    /\ IF part = "pair" THEN Pair!Init ELSE Init
    /\ part \notin {"ring", "pair"} => counter = [n \in Node |-> 0]
    /\ Link!Init
    /\ McastInit /\ (part # "multicast" => hop = ViaRelay)

MCNext ==
    /\ \/ part = "ring" /\ Next /\ UNCHANGED <<fragmentVars, mcastVars>>
       \/ part = "pair" /\ Pair!Next /\ UNCHANGED <<fragmentVars, mcastVars>>
       \/ part = "fragments" /\ Link!Next /\ UNCHANGED <<floodVars, mcastVars>>
       \/ part = "multicast" /\ McastNext /\ UNCHANGED <<floodVars, fragmentVars>>
    /\ UNCHANGED part

MCSpec == MCInit /\ [][MCNext]_<<floodVars, fragmentVars, mcastVars, part>>

Senders == Permutations({e, f})

----------------------------------------------------------------------------
\* A flood that has died out without loss has reached every node of the ring
\* (`handle_broadcast`).
FloodCovers == part = "ring" => Coverage

\* What the receiver hands up is a frame some sender sent, whole and in
\* order (`Reassembler::accept`).
Intact == Link!Intact

\* Once the medium is quiet, every frame was handed up, lost a fragment or
\* was displaced as the oldest of a full table (`Reassembler::accept`).
Accounted == Link!Accounted
=============================================================================
