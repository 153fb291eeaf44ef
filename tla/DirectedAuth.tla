---------------------------- MODULE DirectedAuth ----------------------------
(***************************************************************************)
(* The pairwise data plane between authenticated neighbours (OgmAuth in    *)
(* wayfinder/src/auth): frames under a replay counter, and the next-hop    *)
(* proof, a challenge and its response, which are directed frames too.     *)
(*                                                                         *)
(* A node's counters live in memory.  When its OgmAuth is built anew (a    *)
(* reboot, or a SetAuth on a running node) they start from zero while its  *)
(* neighbours still hold the old high-water, and refuse what it sends.     *)
(* The proof is the way back: a response that answers an outstanding nonce *)
(* is let past the counter and re-anchors it.                              *)
(*                                                                         *)
(* Frames are lost, duplicated and reordered.  Every fault is paid for out *)
(* of a budget; what is left when it is spent must recover.                *)
(***************************************************************************)
EXTENDS Naturals, FiniteSets, Sequences

CONSTANTS
    Node,
    Link,            \* pairs <<n, m>>: n hears m
    Restarts,        \* nodes that may be restarted
    Lapses,          \* nodes whose certificate may lapse or be revoked
    Capacity,        \* MAX_NEIGHBOR_KEYS
    ProofCapacity,   \* MAX_IN_PROGRESS_PROOF
    MaxData,         \* bound: data frames and keep-alives
    MaxRenewals,     \* bound: proofs renewed while nothing is wrong
    MaxFaults,       \* bound: faults of all kinds
    MaxSent          \* bound: counters of one life

VARIABLES
    life,       \* how often each node has been restarted
    sent,       \* send_counter
    asked,      \* challenge_counter, which the nonce is derived from
    neighbors,  \* the members whose keys are cached, in slot order
    rows,       \* recv_counters: the high-water of each sender, 0 for no row
    open,       \* in_progress: the nonce each neighbour owes, 0 for none
    proven,     \* the engine's proof table
    unswept,    \* key_generation differs from swept_key_generation
    air,        \* frames on the medium
    credit,     \* ghost: the newest nonce of this life credited as proof
    disorder,   \* ghost: one was credited that is not newer than the last
    data, renewals, faults

auths == <<sent, asked, neighbors, rows, open>>

budgets == <<data, renewals, faults>>

vars == <<life, auths, proven, unswept, air, credit, disorder, budgets>>

Peers(n) == {m \in Node : <<n, m>> \in Link}

\* A nonce is a function of the challenger's key, its challenge counter and
\* the neighbour, so the counter stands for it.  `era`, the challenger's
\* life, is not on the wire.
Frame(kind, from, to, nonce, era) ==
    [kind |-> kind, from |-> from, to |-> to, count |-> sent[from] + 1,
     nonce |-> nonce, era |-> era]

has_live_key(n, m) == \E i \in DOMAIN neighbors[n] : neighbors[n][i] = m

\* tag_directed, sign_fanout and augment_keepalive draw on one sequence.
next_send_counter(n) ==
    /\ sent[n] < MaxSent
    /\ sent' = [sent EXCEPT ![n] = @ + 1]

\* Of the recv_counters of node n.
SlotFree(n) == Cardinality({m \in Node : rows[n][m] # 0}) < Capacity

accept_recv_counter(n, m, count) ==
    IF rows[n][m] # 0
    THEN IF count <= rows[n][m] THEN "Stale" ELSE "Accepted"
    ELSE IF SlotFree(n) THEN "Accepted" ELSE "NoSlot"

SetRow(n, m, count) == rows' = [rows EXCEPT ![n][m] = count]

\* A frame is consumed, or a second copy of it stays on the medium.
Taken(f, more) ==
    \/ air' = (air \ {f}) \cup more /\ UNCHANGED faults
    \/ /\ faults < MaxFaults
       /\ faults' = faults + 1
       /\ air' = air \cup more

----------------------------------------------------------------------------
(* The key cache.                                                          *)

\* cache_neighbor, when an OGM of m verifies: a full cache overwrites its
\* first slot, and the proof of the member that was in it is not swept yet.
cache_neighbor(n, m) ==
    /\ ~has_live_key(n, m)
    /\ IF Len(neighbors[n]) < Capacity
       THEN /\ neighbors' = [neighbors EXCEPT ![n] = Append(@, m)]
            /\ UNCHANGED unswept
       ELSE /\ neighbors' = [neighbors EXCEPT ![n][1] = m]
            /\ unswept' = [unswept EXCEPT ![n] = TRUE]
    /\ UNCHANGED <<life, sent, asked, rows, open, proven, air, credit,
                   disorder, budgets>>

\* Vec::retain keeps the order of the slots, Vec::swap_remove fills the gap
\* from the end.
retain(s, gone) ==
    LET left == {i \in DOMAIN s : s[i] \notin gone}
        at(j) == CHOOSE i \in left : Cardinality({k \in left : k <= i}) = j
    IN  [j \in 1..Cardinality(left) |-> s[at(j)]]

swap_remove(s, m) ==
    LET i == CHOOSE i \in DOMAIN s : s[i] = m
    IN  [j \in 1..(Len(s) - 1) |-> IF j = i THEN s[Len(s)] ELSE s[j]]

\* Mutant: sweeps the proofs before the lapsed certificates are evicted.
SweepFirst(n, lapsed) ==
    /\ lapsed \subseteq Lapses
    /\ \A m \in lapsed : has_live_key(n, m)
    /\ unswept[n] \/ lapsed # {}
    /\ faults + Cardinality(lapsed) <= MaxFaults
    /\ faults' = faults + Cardinality(lapsed)
    /\ neighbors' = [neighbors EXCEPT ![n] = retain(@, lapsed)]
    /\ proven' = [proven EXCEPT ![n] = {m \in @ : has_live_key(n, m)}]
    /\ unswept' = [unswept EXCEPT ![n] = FALSE]
    /\ UNCHANGED <<life, sent, asked, rows, open, air, credit, disorder, data,
                   renewals>>

\* A pass of the driver: certificates that have lapsed leave the cache, and
\* if any key has gone since the last pass, its proof goes too.
set_auth_time(n, lapsed) ==
    /\ lapsed \subseteq Lapses
    /\ \A m \in lapsed : has_live_key(n, m)
    /\ unswept[n] \/ lapsed # {}
    /\ faults + Cardinality(lapsed) <= MaxFaults
    /\ faults' = faults + Cardinality(lapsed)
    /\ neighbors' = [neighbors EXCEPT ![n] = retain(@, lapsed)]
    /\ proven' = [proven EXCEPT ![n] =
                     {m \in @ : has_live_key(n, m) /\ m \notin lapsed}]
    /\ unswept' = [unswept EXCEPT ![n] = FALSE]
    /\ UNCHANGED <<life, sent, asked, rows, open, air, credit, disorder, data,
                   renewals>>

\* evict_neighbor, when a revocation of m arrives: the key and the counter
\* go, and the router has the engine forget m.
evict_neighbor(n, m) ==
    /\ m \in Lapses
    /\ has_live_key(n, m)
    /\ faults < MaxFaults
    /\ faults' = faults + 1
    /\ neighbors' = [neighbors EXCEPT ![n] = swap_remove(@, m)]
    /\ SetRow(n, m, 0)
    /\ proven' = [proven EXCEPT ![n] = @ \ {m}]
    /\ unswept' = [unswept EXCEPT ![n] = TRUE]
    /\ UNCHANGED <<life, sent, asked, open, air, credit, disorder, data,
                   renewals>>

----------------------------------------------------------------------------
(* Sending.                                                                *)

\* A data frame to a proven next hop.
tag_directed(n, m) ==
    /\ data < MaxData
    /\ data' = data + 1
    /\ m \in proven[n]
    /\ has_live_key(n, m)
    /\ next_send_counter(n)
    /\ air' = air \cup {Frame("data", n, m, 0, 0)}
    /\ UNCHANGED <<life, asked, neighbors, rows, open, proven, unswept,
                   credit, disorder, renewals, faults>>

\* A keep-alive, which every neighbour hears under the same counter.
augment_keepalive(n) ==
    /\ data < MaxData
    /\ data' = data + 1
    /\ next_send_counter(n)
    /\ air' = air \cup {Frame("data", n, m, 0, 0) :
                           m \in {x \in Node : n \in Peers(x)}}
    /\ UNCHANGED <<life, asked, neighbors, rows, open, proven, unswept,
                   credit, disorder, renewals, faults>>

\* issue_challenge: the newest nonce replaces an older one, and in a full
\* table the least recently issued is given up.
Issued(n, m, seq) ==
    LET owed == {x \in Node : open[n][x] # 0}
        oldest == CHOOSE x \in owed : \A y \in owed : open[n][x] <= open[n][y]
    IN  IF open[n][m] # 0 \/ Cardinality(owed) < ProofCapacity
        THEN [open[n] EXCEPT ![m] = seq]
        ELSE [open[n] EXCEPT ![oldest] = 0, ![m] = seq]

\* A renewal that will find nothing wrong changes no more than counters, so
\* those are bounded.
InStep(n, m) == rows[n][m] <= sent[m]

\* Mutant: a neighbour whose answer is outstanding is no candidate.
AsksOnce(n, m) ==
    /\ open[n][m] = 0
    /\ m \notin proven[n] \/ ~InStep(n, m) \/ renewals < MaxRenewals

Renewable(n, m) ==
    \/ m \notin proven[n] \/ ~InStep(n, m)
    \/ renewals < MaxRenewals

\* An attempt while an earlier one is on its way, or at a peer that has no
\* key to answer with, is wasted.
Wasted(n, m) ==
    \/ ~has_live_key(m, n)
    \/ \E f \in air : /\ {f.from, f.to} = {n, m}
                      /\ f.kind \in {"challenge", "response"}

\* poll_challenge and the tag its frame leaves under.
poll_challenge(n, m) ==
    /\ Renewable(n, m)
    /\ has_live_key(n, m)
    /\ faults + (IF Wasted(n, m) THEN 1 ELSE 0) <= MaxFaults
    /\ faults' = faults + (IF Wasted(n, m) THEN 1 ELSE 0)
    /\ renewals' = IF m \in proven[n] /\ InStep(n, m) THEN renewals + 1
                   ELSE renewals
    /\ asked' = [asked EXCEPT ![n] = @ + 1]
    /\ open' = [open EXCEPT ![n] = Issued(n, m, asked[n] + 1)]
    /\ next_send_counter(n)
    /\ air' = air \cup {Frame("challenge", n, m, asked[n] + 1, life[n])}
    /\ UNCHANGED <<life, neighbors, rows, proven, unswept, credit, disorder,
                   data>>

----------------------------------------------------------------------------
(* Receiving.  strip_directed admits a frame or drops it.                  *)

Admits(f) ==
    /\ has_live_key(f.to, f.from)
    /\ accept_recv_counter(f.to, f.from, f.count) = "Accepted"

\* verify_directed, verify_fanout, verify_keepalive: nothing is sent back.
verify_directed(f) ==
    /\ f.kind = "data"
    /\ Admits(f)
    /\ SetRow(f.to, f.from, f.count)
    /\ Taken(f, {})
    /\ UNCHANGED <<life, sent, asked, neighbors, open, proven, unswept,
                   credit, disorder, data, renewals>>

answer_challenge(f) ==
    /\ f.kind = "challenge"
    /\ Admits(f)
    /\ SetRow(f.to, f.from, f.count)
    /\ next_send_counter(f.to)
    /\ Taken(f, {Frame("response", f.to, f.from, f.nonce, f.era)})
    /\ UNCHANGED <<life, asked, neighbors, open, proven, unswept, credit,
                   disorder, data, renewals>>

\* verify_directed_nonce_fresh, which tolerates a stale counter while a
\* challenge is outstanding, and then verify_challenge_response, which
\* re-anchors the counter if the nonce is the outstanding one.
Tolerated(f) ==
    /\ has_live_key(f.to, f.from)
    /\ accept_recv_counter(f.to, f.from, f.count) = "Stale"
    /\ open[f.to][f.from] # 0

Answers(f) == open[f.to][f.from] = f.nonce

\* Mutant: the challenge stays outstanding once it is answered.
ResponseKept(f) ==
    LET n == f.to
        m == f.from
    IN  /\ f.kind = "response"
        /\ Admits(f) \/ Tolerated(f)
        /\ IF Admits(f) \/ Answers(f) THEN SetRow(n, m, f.count)
                                      ELSE UNCHANGED rows
        /\ IF Answers(f)
           THEN /\ proven' = [proven EXCEPT ![n] = @ \cup {m}]
                /\ IF f.era = life[n]
                   THEN /\ credit' = [credit EXCEPT ![n][m] = f.nonce]
                        /\ disorder' = (disorder \/ f.nonce <= credit[n][m])
                   ELSE UNCHANGED <<credit, disorder>>
           ELSE UNCHANGED <<proven, credit, disorder>>
        /\ Taken(f, {})
        /\ UNCHANGED <<life, sent, asked, neighbors, open, unswept, data,
                       renewals>>

verify_challenge_response(f) ==
    LET n == f.to
        m == f.from
    IN  /\ f.kind = "response"
        /\ Admits(f) \/ Tolerated(f)
        /\ IF Admits(f) \/ Answers(f) THEN SetRow(n, m, f.count)
                                      ELSE UNCHANGED rows
        /\ IF Answers(f)
           THEN /\ open' = [open EXCEPT ![n][m] = 0]
                /\ proven' = [proven EXCEPT ![n] = @ \cup {m}]
                /\ IF f.era = life[n]
                   THEN /\ credit' = [credit EXCEPT ![n][m] = f.nonce]
                        /\ disorder' = (disorder \/ f.nonce <= credit[n][m])
                   ELSE UNCHANGED <<credit, disorder>>
           ELSE UNCHANGED <<open, proven, credit, disorder>>
        /\ Taken(f, {})
        /\ UNCHANGED <<life, sent, asked, neighbors, unswept, data, renewals>>

Refused(f) ==
    /\ ~Admits(f)
    /\ ~(f.kind = "response" /\ Tolerated(f))
    /\ air' = air \ {f}
    /\ UNCHANGED <<life, auths, proven, unswept, credit, disorder, budgets>>

----------------------------------------------------------------------------
(* Faults.                                                                 *)

Lose(f) ==
    /\ faults < MaxFaults
    /\ faults' = faults + 1
    /\ air' = air \ {f}
    /\ UNCHANGED <<life, auths, proven, unswept, credit, disorder, data,
                   renewals>>

\* OgmAuth::with_capacities, and the engine's reset.
Restart(n) ==
    /\ n \in Restarts
    /\ faults < MaxFaults
    /\ faults' = faults + 1
    /\ life' = [life EXCEPT ![n] = @ + 1]
    /\ sent' = [sent EXCEPT ![n] = 0]
    /\ asked' = [asked EXCEPT ![n] = 0]
    /\ neighbors' = [neighbors EXCEPT ![n] = << >>]
    /\ rows' = [rows EXCEPT ![n] = [m \in Node |-> 0]]
    /\ open' = [open EXCEPT ![n] = [m \in Node |-> 0]]
    /\ proven' = [proven EXCEPT ![n] = {}]
    /\ unswept' = [unswept EXCEPT ![n] = FALSE]
    /\ credit' = [credit EXCEPT ![n] = [m \in Node |-> 0]]
    /\ UNCHANGED <<air, disorder, data, renewals>>

Init ==
    /\ life = [n \in Node |-> 0]
    /\ sent = [n \in Node |-> 0]
    /\ asked = [n \in Node |-> 0]
    /\ neighbors = [n \in Node |-> << >>]
    /\ rows = [n \in Node |-> [m \in Node |-> 0]]
    /\ open = [n \in Node |-> [m \in Node |-> 0]]
    /\ proven = [n \in Node |-> {}]
    /\ unswept = [n \in Node |-> FALSE]
    /\ air = {}
    /\ credit = [n \in Node |-> [m \in Node |-> 0]]
    /\ disorder = FALSE
    /\ data = 0 /\ renewals = 0 /\ faults = 0

Receive(f) ==
    verify_directed(f) \/ answer_challenge(f) \/ verify_challenge_response(f)
        \/ Refused(f)

Next ==
    \/ \E n \in Node : \E m \in Peers(n) :
           \/ cache_neighbor(n, m) \/ evict_neighbor(n, m)
           \/ tag_directed(n, m) \/ poll_challenge(n, m)
    \/ \E n \in Node : \E lapsed \in SUBSET Peers(n) : set_auth_time(n, lapsed)
    \/ \E n \in Node : augment_keepalive(n) \/ Restart(n)
    \/ \E f \in air : Receive(f) \/ Lose(f)

Spec == Init /\ [][Next]_vars

LiveSpec ==
    /\ Spec
    /\ \A n \in Node : \A m \in Peers(n) :
           WF_vars(cache_neighbor(n, m)) /\ WF_vars(poll_challenge(n, m))
    /\ WF_vars(\E f \in air : Receive(f))

----------------------------------------------------------------------------
Frames ==
    [kind : {"data", "challenge", "response"}, from : Node, to : Node,
     count : 1..MaxSent, nonce : 0..MaxSent, era : 0..MaxFaults]

TypeOK ==
    /\ life \in [Node -> 0..MaxFaults]
    /\ sent \in [Node -> 0..MaxSent]
    /\ asked \in [Node -> 0..MaxSent]
    /\ \A n \in Node : neighbors[n] \in Seq(Node) /\ Len(neighbors[n]) <= Capacity
    /\ rows \in [Node -> [Node -> 0..MaxSent]]
    /\ open \in [Node -> [Node -> 0..MaxSent]]
    /\ proven \in [Node -> SUBSET Node]
    /\ unswept \in [Node -> BOOLEAN]
    /\ air \subseteq Frames
    /\ credit \in [Node -> [Node -> 0..MaxSent]] /\ disorder \in BOOLEAN
    /\ data \in 0..MaxData /\ renewals \in 0..MaxRenewals
    /\ faults \in 0..MaxFaults

\* A proof is worth a key: once the driver has made its pass, no neighbour
\* is proven whose key this node no longer holds.
ProvenHasKey ==
    \A n \in Node : ~unswept[n] => \A m \in proven[n] : has_live_key(n, m)

\* Among the responses to one life of a challenger, each is credited once
\* and in the order of the challenges: an older or repeated response never
\* passes for proof after a newer one has.
CreditedOnce == ~disorder

\* Whatever is lost, duplicated, reordered or restarted, a link ends up with
\* both ends proven and neither refusing what the other sends.
Reopens ==
    <>[](\A n \in Node : \A m \in Peers(n) :
             m \in proven[n] /\ InStep(n, m))

\* "The first frame from a neighbor is accepted and recorded"
\* (accept_recv_counter): a member whose key is cached has a row, or there is
\* room for one.
FirstFrameAccepted ==
    \A n \in Node : \A m \in Node :
        has_live_key(n, m) => rows[n][m] # 0 \/ SlotFree(n)
=============================================================================
