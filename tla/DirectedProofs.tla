--------------------------- MODULE DirectedProofs ---------------------------
(***************************************************************************)
(* What two nodes exchange in frames for one of them.  A challenger        *)
(* credits each response of one of its lives at most once and in the order *)
(* of its challenges, and no proof outlives its key, for every set of      *)
(* nodes, every topology, capacity and number of faults (DirectedAuth).    *)
(*                                                                         *)
(* A ping session credits a reply to the probe it answers, for every range *)
(* of sequence numbers and every number of probes (PingSession).  Probes   *)
(* have serial numbers without bound; the wire carries them modulo the     *)
(* range.  All that is under way lies within one range of the newest       *)
(* number, where the remainder tells two probes apart.                     *)
(***************************************************************************)
EXTENDS DirectedAuth, PingSession, FiniteSetTheorems, TLAPS

-----------------------------------------------------------------------------
(* The pairwise data plane.                                                *)

Asked ==
    /\ asked \in [Node -> Nat]
    /\ open \in [Node -> [Node -> Nat]]
    /\ credit \in [Node -> [Node -> Nat]]

Posted ==
    \A f \in air :
        /\ f.from \in Node /\ f.to \in Node
        /\ f.kind \in {"challenge", "response"} => f.nonce \in Nat \ {0}

\* What was credited is older than what is outstanding.
Ordered ==
    \A n, m \in Node :
        /\ credit[n][m] <= asked[n]
        /\ open[n][m] # 0 =>
             credit[n][m] < open[n][m] /\ open[n][m] <= asked[n]

IInv == Asked /\ Posted /\ Ordered /\ disorder = FALSE

\* Of issue_challenge: every nonce outstanding after it was outstanding
\* before, or is the new one.
LEMMA IssuedNonces ==
    ASSUME Asked, NEW n \in Node, NEW m \in Node, NEW seq \in Nat
    PROVE  /\ Issued(n, m, seq) \in [Node -> Nat]
           /\ \A x \in Node : \/ Issued(n, m, seq)[x] = open[n][x]
                              \/ Issued(n, m, seq)[x] = 0
                              \/ x = m /\ Issued(n, m, seq)[x] = seq
  BY Zenon DEF Issued, Asked

LEMMA PeersAreNodes == \A n \in Node : Peers(n) \subseteq Node
  BY Zenon DEF Peers

\* The frames on the medium after a step that only adds well-formed ones.
LEMMA StillPosted ==
    ASSUME Posted, air' \subseteq air
    PROVE  Posted'
  BY Zenon DEF Posted

LEMMA TakenPosted ==
    ASSUME Posted, NEW f \in air, Taken(f, {})
    PROVE  air' \subseteq air
  BY Zenon DEF Taken

LEMMA ChallengeStep ==
    ASSUME IInv, NEW n \in Node, NEW m \in Peers(n), poll_challenge(n, m)
    PROVE  IInv'
<1>0. m \in Node
  BY PeersAreNodes, Zenon
<1>1. asked[n] \in Nat /\ asked[n] + 1 \in Nat /\ asked[n] + 1 # 0
  BY DEF IInv, Asked
<1>2. /\ Issued(n, m, asked[n] + 1) \in [Node -> Nat]
      /\ \A x \in Node : \/ Issued(n, m, asked[n] + 1)[x] = open[n][x]
                         \/ Issued(n, m, asked[n] + 1)[x] = 0
                         \/ x = m /\ Issued(n, m, asked[n] + 1)[x] =
                              asked[n] + 1
  <2>1. Asked
    BY Zenon DEF IInv
  <2> QED
    BY ONLY <1>0, <1>1, <2>1, n \in Node, IssuedNonces, ZenonT(30)
<1>3. /\ asked' = [asked EXCEPT ![n] = @ + 1]
      /\ open' = [open EXCEPT ![n] = Issued(n, m, asked[n] + 1)]
      /\ air' = air \cup {Frame("challenge", n, m, asked[n] + 1, life[n])}
      /\ credit' = credit /\ disorder' = disorder
  BY Zenon DEF poll_challenge
<1>4. Asked'
  BY <1>1, <1>2, <1>3, Zenon DEF IInv, Asked
<1>5. Posted'
  BY <1>0, <1>1, <1>3 DEF IInv, Posted, Frame
<1>6. Ordered'
  <2> SUFFICES ASSUME NEW p \in Node, NEW q \in Node
               PROVE  /\ credit[p][q] <= asked'[p]
                      /\ open'[p][q] # 0 => /\ credit[p][q] < open'[p][q]
                                            /\ open'[p][q] <= asked'[p]
    BY <1>3, Zenon DEF Ordered
  <2>0. /\ credit[p][q] \in Nat /\ asked[p] \in Nat /\ open[p][q] \in Nat
        /\ credit[p][q] <= asked[p]
        /\ open[p][q] # 0 =>
             credit[p][q] < open[p][q] /\ open[p][q] <= asked[p]
    BY Zenon DEF IInv, Asked, Ordered
  <2>1. CASE p # n
    <3>1. asked'[p] = asked[p] /\ open'[p] = open[p]
      BY <1>3, <2>1, Zenon DEF IInv, Asked
    <3> QED BY <2>0, <3>1, Zenon
  <2>2. CASE p = n
    <3>1. asked'[p] = asked[p] + 1 /\ open'[p] = Issued(n, m, asked[n] + 1)
      BY <1>3, <2>2, Zenon DEF IInv, Asked
    <3>2. \/ open'[p][q] = open[p][q]
          \/ open'[p][q] = 0
          \/ open'[p][q] = asked[p] + 1
      BY <1>2, <3>1, <2>2, Zenon
    <3> QED BY <2>0, <3>1, <3>2
  <2> QED BY <2>1, <2>2, Zenon
<1> QED BY <1>3, <1>4, <1>5, <1>6, Zenon DEF IInv

LEMMA ResponseStep ==
    ASSUME IInv, NEW f \in air, verify_challenge_response(f)
    PROVE  IInv'
<1>0. /\ f.to \in Node /\ f.from \in Node /\ f.nonce \in Nat \ {0}
  BY Zenon DEF IInv, Posted, verify_challenge_response
<1>1. air' \subseteq air /\ asked' = asked
  BY TakenPosted, Zenon DEF IInv, verify_challenge_response
<1>2. Posted'
  BY <1>1, StillPosted, Zenon DEF IInv
<1>3. CASE ~Answers(f)
  <2>1. open' = open /\ credit' = credit /\ disorder' = disorder
    BY <1>3, Zenon DEF verify_challenge_response
  <2> QED BY <1>1, <1>2, <2>1, Zenon DEF IInv, Asked, Ordered
<1>4. CASE Answers(f)
  <2>1. /\ open' = [open EXCEPT ![f.to][f.from] = 0]
        /\ \/ credit' = [credit EXCEPT ![f.to][f.from] = f.nonce]
              /\ disorder' = (disorder \/ f.nonce <= credit[f.to][f.from])
           \/ credit' = credit /\ disorder' = disorder
    BY <1>4, Zenon DEF verify_challenge_response
  <2>2. /\ credit[f.to][f.from] < f.nonce /\ f.nonce <= asked[f.to]
        /\ credit[f.to][f.from] \in Nat /\ asked[f.to] \in Nat
    BY <1>0, <1>4, Zenon DEF IInv, Asked, Ordered, Answers
  <2>3. ~(f.nonce <= credit[f.to][f.from])
    BY <1>0, <2>2
  <2>4. disorder' = FALSE
    BY <2>1, <2>3, Zenon DEF IInv
  <2>5. Asked'
    <3>1. Asked
      BY Zenon DEF IInv
    <3>2. open' \in [Node -> [Node -> Nat]]
      BY <1>0, <2>1, <3>1 DEF Asked
    <3>3. credit' \in [Node -> [Node -> Nat]]
      BY <1>0, <2>1, <3>1 DEF Asked
    <3> QED
      BY <1>1, <3>1, <3>2, <3>3, Zenon DEF Asked
  <2>6. Ordered'
    <3> SUFFICES ASSUME NEW p \in Node, NEW q \in Node
                 PROVE  /\ credit'[p][q] <= asked'[p]
                        /\ open'[p][q] # 0 => /\ credit'[p][q] < open'[p][q]
                                              /\ open'[p][q] <= asked'[p]
      BY Zenon DEF Ordered
    <3>0. /\ credit[p][q] <= asked[p]
          /\ open[p][q] # 0 =>
               credit[p][q] < open[p][q] /\ open[p][q] <= asked[p]
      BY Zenon DEF IInv, Ordered
    <3>1. CASE p = f.to /\ q = f.from
      <4>1. open'[p][q] = 0
        BY <2>1, <3>1, <1>0, Zenon DEF IInv, Asked
      <4>2. credit'[p][q] = f.nonce \/ credit'[p][q] = credit[p][q]
        BY <2>1, <3>1, <1>0 DEF IInv, Asked
      <4> QED BY <1>1, <2>2, <3>0, <3>1, <4>1, <4>2, Zenon
    <3>2. CASE ~(p = f.to /\ q = f.from)
      <4>1. open'[p][q] = open[p][q] /\ credit'[p][q] = credit[p][q]
        BY <2>1, <3>2, <1>0 DEF IInv, Asked
      <4> QED BY <1>1, <3>0, <4>1, Zenon
    <3> QED BY <3>1, <3>2, Zenon
  <2> QED BY <1>2, <2>4, <2>5, <2>6, Zenon DEF IInv
<1> QED BY <1>3, <1>4, Zenon

LEMMA RestartStep ==
    ASSUME IInv, NEW n \in Node, Restart(n)
    PROVE  IInv'
<1>1. /\ asked' = [asked EXCEPT ![n] = 0]
      /\ open' = [open EXCEPT ![n] = [m \in Node |-> 0]]
      /\ credit' = [credit EXCEPT ![n] = [m \in Node |-> 0]]
      /\ air' = air /\ disorder' = disorder
  BY Zenon DEF Restart
<1>2. Asked'
  BY <1>1, Zenon DEF IInv, Asked
<1>3. Ordered'
  BY <1>1 DEF IInv, Asked, Ordered
<1> QED BY <1>1, <1>2, <1>3, Zenon DEF IInv, Posted

\* A step that leaves the challenges alone and posts only well-formed frames.
LEMMA QuietStep ==
    ASSUME IInv, UNCHANGED <<asked, open, credit, disorder>>, Posted'
    PROVE  IInv'
  BY Zenon DEF IInv, Asked, Ordered

LEMMA NextIInv == IInv /\ [Next]_vars => IInv'
<1> SUFFICES ASSUME IInv, [Next]_vars PROVE IInv'
  BY Zenon
<1>1. ASSUME NEW n \in Node, NEW m \in Peers(n),
             cache_neighbor(n, m) \/ evict_neighbor(n, m)
      PROVE  IInv'
  <2>1. /\ UNCHANGED <<asked, open, credit, disorder>> /\ air' = air
    BY <1>1, Zenon DEF cache_neighbor, evict_neighbor
  <2> QED BY <2>1, StillPosted, QuietStep, Zenon DEF IInv
<1>2. ASSUME NEW n \in Node, NEW m \in Peers(n), tag_directed(n, m)
      PROVE  IInv'
  <2>1. /\ UNCHANGED <<asked, open, credit, disorder>>
        /\ air' = air \cup {Frame("data", n, m, 0, 0)}
    BY <1>2, Zenon DEF tag_directed
  <2>2. Posted'
    BY <2>1, PeersAreNodes DEF IInv, Posted, Frame
  <2> QED BY <2>1, <2>2, QuietStep, Zenon
<1>3. ASSUME NEW n \in Node, NEW m \in Peers(n), poll_challenge(n, m)
      PROVE  IInv'
  BY <1>3, ChallengeStep, Zenon
<1>4. ASSUME NEW n \in Node, NEW lapsed \in SUBSET Peers(n),
             set_auth_time(n, lapsed)
      PROVE  IInv'
  <2>1. /\ UNCHANGED <<asked, open, credit, disorder>> /\ air' = air
    BY <1>4, Zenon DEF set_auth_time
  <2> QED BY <2>1, StillPosted, QuietStep, Zenon DEF IInv
<1>5. ASSUME NEW n \in Node, augment_keepalive(n)
      PROVE  IInv'
  <2>1. /\ UNCHANGED <<asked, open, credit, disorder>>
        /\ air' = air \cup {Frame("data", n, m, 0, 0) :
                              m \in {x \in Node : n \in Peers(x)}}
    BY <1>5, Zenon DEF augment_keepalive
  <2>2. Posted'
    BY <2>1 DEF IInv, Posted, Frame
  <2> QED BY <2>1, <2>2, QuietStep, Zenon
<1>6. ASSUME NEW n \in Node, Restart(n)
      PROVE  IInv'
  BY <1>6, RestartStep, Zenon
<1>7. ASSUME NEW f \in air, verify_directed(f) \/ Refused(f) \/ Lose(f)
      PROVE  IInv'
  <2>1. /\ UNCHANGED <<asked, open, credit, disorder>> /\ air' \subseteq air
    BY <1>7, TakenPosted, Zenon
       DEF verify_directed, Refused, Lose, auths, IInv
  <2> QED BY <2>1, StillPosted, QuietStep, Zenon DEF IInv
<1>8. ASSUME NEW f \in air, answer_challenge(f)
      PROVE  IInv'
  <2>1. /\ UNCHANGED <<asked, open, credit, disorder>>
        /\ air' \subseteq air
             \cup {Frame("response", f.to, f.from, f.nonce, f.era)}
    BY <1>8, Zenon DEF answer_challenge, Taken
  <2>2. f.to \in Node /\ f.from \in Node /\ f.nonce \in Nat \ {0}
    BY <1>8, Zenon DEF IInv, Posted, answer_challenge
  <2>3. Posted'
    BY <2>1, <2>2 DEF IInv, Posted, Frame
  <2> QED BY <2>1, <2>3, QuietStep, Zenon
<1>9. ASSUME NEW f \in air, verify_challenge_response(f)
      PROVE  IInv'
  BY <1>9, ResponseStep, Zenon
<1>10. CASE UNCHANGED vars
  <2>1. UNCHANGED <<asked, open, credit, disorder>> /\ air' = air
    BY <1>10, Zenon DEF vars, auths
  <2> QED BY <2>1, StillPosted, QuietStep, Zenon DEF IInv
<1> HIDE DEF IInv
<1> QED
  BY <1>1, <1>2, <1>3, <1>4, <1>5, <1>6, <1>7, <1>8, <1>9, <1>10, Zenon
     DEF Next, Receive

\* The challenger of every life credits its responses once each and in the
\* order of its challenges (verify_challenge_response consumes the nonce).
THEOREM CreditedInOrder == Spec => []CreditedOnce
<1>1. Init => IInv
  BY DEF Init, IInv, Asked, Posted, Ordered
<1>2. IInv => CreditedOnce
  BY Zenon DEF IInv, CreditedOnce
<1> QED BY <1>1, <1>2, NextIInv, PTL DEF Spec

----------------------------------------------------------------------------
(* Proofs and keys.  ProvenHasKey is inductive with the types of the three  *)
(* tables it speaks of: every step that takes a key without its proof marks *)
(* the node unswept, and the sweep removes exactly the keyless proofs.      *)

Members(s) == {s[i] : i \in DOMAIN s}

KeyInv ==
    /\ neighbors \in [Node -> Seq(Node)]
    /\ proven \in [Node -> SUBSET Node]
    /\ unswept \in [Node -> BOOLEAN]
    /\ Posted
    /\ ProvenHasKey

LEMMA LiveKeyMember ==
    \A n, m : has_live_key(n, m) <=> m \in Members(neighbors[n])
BY Zenon DEF has_live_key, Members

\* What retain leaves: a sequence of what was there, less what had to go.
LEMMA RetainResult ==
    ASSUME NEW s \in Seq(Node), NEW gone
    PROVE  /\ retain(s, gone) \in Seq(Node)
           /\ Members(s) \ gone \subseteq Members(retain(s, gone))
<1> DEFINE left == {i \in DOMAIN s : s[i] \notin gone}
           upTo(i) == {k \in left : k <= i}
           rank(i) == Cardinality(upTo(i))
           at(j) == CHOOSE i \in left : rank(i) = j
           n == Cardinality(left)
<1>1. /\ DOMAIN s = 1..Len(s) /\ Len(s) \in Nat
      /\ \A i \in DOMAIN s : s[i] \in Node
  OBVIOUS
<1>2. left \subseteq Nat /\ \A i \in left : s[i] \in Node
  BY <1>1
<1>3. IsFiniteSet(left) /\ n \in Nat
  <2>1. IsFiniteSet(1..Len(s)) /\ left \subseteq 1..Len(s)
    BY <1>1, FS_Interval
  <2> QED
    BY <2>1, FS_Subset, FS_CardinalityType, Zenon
<1>4. ASSUME NEW i \in left
      PROVE  IsFiniteSet(upTo(i)) /\ rank(i) \in 1..n
  <2>1. upTo(i) \subseteq left /\ i \in upTo(i)
    BY <1>2
  <2>2. IsFiniteSet(upTo(i)) /\ rank(i) <= n
    BY <1>3, <2>1, FS_Subset, Zenon
  <2>3. rank(i) \in Nat /\ rank(i) # 0
    BY <2>1, <2>2, FS_CardinalityType, FS_EmptySet, Zenon
  <2> HIDE DEF rank, n
  <2> QED
    BY <1>3, <2>2, <2>3
<1>5. ASSUME NEW i \in left, NEW k \in left, rank(i) = rank(k), i < k
      PROVE  FALSE
  <2>1. upTo(i) \subseteq upTo(k) /\ k \in upTo(k) /\ k \notin upTo(i)
    BY <1>2, <1>5
  <2>2. upTo(i) = upTo(k)
    BY <1>4, <1>5, <2>1, FS_Subset, Zenon
  <2> QED
    BY <2>1, <2>2, Zenon
<1> HIDE DEF rank
<1>6. ASSUME NEW i \in left, NEW k \in left, rank(i) = rank(k)
      PROVE  i = k
  <2>1. i \in Nat /\ k \in Nat
    BY <1>2, Zenon
  <2>2. i < k \/ k < i \/ i = k
    BY <2>1
  <2> QED
    BY <1>5, <1>6, <2>2, Zenon
<1>7. ASSUME NEW j \in 1..n
      PROVE  at(j) \in left /\ rank(at(j)) = j
  <2>1. \E i \in left : rank(i) = j
    <3> SUFFICES ASSUME \A i \in left : rank(i) # j PROVE FALSE
      BY Zenon
    <3> DEFINE f == [i \in left |-> rank(i)]
               T == (1..n) \ {j}
    <3>1. f \in [left -> T]
      BY <1>4, Zenon
    <3>2. IsFiniteSet(1..n) /\ Cardinality(1..n) = n
      BY <1>3, FS_Interval
    <3>3. IsFiniteSet(T) /\ Cardinality(T) = n - 1
      BY <3>2, FS_RemoveElement, Zenon
    <3>4. Cardinality(T) < Cardinality(left)
      BY <1>3, <3>3
    <3> HIDE DEF T, f, left
    <3>5. \E x, y \in left : x # y /\ f[x] = f[y]
      BY <1>3, <3>1, <3>3, <3>4, FS_PigeonHole, Zenon
    <3> QED
      BY <1>6, <3>5, Zenon DEF f
  <2> QED
    BY <2>1, Zenon
<1>8. retain(s, gone) = [j \in 1..n |-> s[at(j)]]
  BY Zenon DEF retain, rank
<1> HIDE DEF left, at, n
<1>9. retain(s, gone) \in Seq(Node)
  <2>1. \A j \in 1..n : s[at(j)] \in Node
    BY <1>2, <1>7, Zenon
  <2> QED
    BY <1>3, <1>8, <2>1
<1>10. ASSUME NEW m \in Members(s) \ gone
       PROVE  m \in Members(retain(s, gone))
  <2>1. PICK i \in left : m = s[i]
    BY Zenon DEF Members, left
  <2>2. rank(i) \in 1..n
    BY <1>4, Zenon
  <2>3. at(rank(i)) = i
    BY <1>6, <1>7, <2>2, Zenon
  <2> QED
    BY <1>8, <2>1, <2>2, <2>3, Zenon DEF Members
<1> QED
  BY <1>9, <1>10, Zenon

LEMMA SwapRemoveType ==
    ASSUME NEW s \in Seq(Node), NEW m
    PROVE  swap_remove(s, m) \in Seq(Node)
<1>1. CASE Len(s) = 0
  <2>1. swap_remove(s, m) = [j \in 1..(0 - 1) |-> s[j]]
    BY <1>1 DEF swap_remove
  <2> QED
    BY <2>1
<1>2. CASE Len(s) # 0
  <2> DEFINE e(j) == IF j = (CHOOSE i \in DOMAIN s : s[i] = m) THEN s[Len(s)]
                     ELSE s[j]
  <2>1. Len(s) - 1 \in Nat /\ s[Len(s)] \in Node
    BY <1>2
  <2>2. \A j \in 1..(Len(s) - 1) : e(j) \in Node
    BY <2>1
  <2>3. swap_remove(s, m) = [j \in 1..(Len(s) - 1) |-> e(j)]
    BY Zenon DEF swap_remove
  <2> HIDE DEF e
  <2> QED
    BY <2>1, <2>2, <2>3
<1> QED
  BY <1>1, <1>2, Zenon

LEMMA AppendResult ==
    ASSUME NEW s \in Seq(Node), NEW m \in Node
    PROVE  /\ Append(s, m) \in Seq(Node)
           /\ Members(s) \subseteq Members(Append(s, m))
BY DEF Members

LEMMA OverwriteType ==
    ASSUME NEW s \in Seq(Node), NEW m \in Node
    PROVE  [s EXCEPT ![1] = m] \in Seq(Node)
<1>1. s \in [1..Len(s) -> Node] /\ Len(s) \in Nat
  OBVIOUS
<1>2. [s EXCEPT ![1] = m] \in [1..Len(s) -> Node]
  BY <1>1, Zenon
<1> QED
  BY <1>1, <1>2

\* The steps that leave the keys and the proofs alone.
LEMMA QuietKeys ==
    ASSUME KeyInv, UNCHANGED <<neighbors, proven, unswept>>, Posted'
    PROVE  KeyInv'
BY Zenon DEF KeyInv, ProvenHasKey, has_live_key

LEMMA CacheKeys ==
    ASSUME KeyInv, NEW n \in Node, NEW m \in Node, cache_neighbor(n, m)
    PROVE  KeyInv'
<1>1. proven' = proven /\ air' = air
  BY Zenon DEF cache_neighbor
<1>2. CASE Len(neighbors[n]) < Capacity
  <2>1. /\ neighbors' = [neighbors EXCEPT ![n] = Append(@, m)]
        /\ unswept' = unswept
    BY <1>2, Zenon DEF cache_neighbor
  <2>2. neighbors[n] \in Seq(Node)
    BY Zenon DEF KeyInv
  <2>3. /\ Append(neighbors[n], m) \in Seq(Node)
        /\ Members(neighbors[n]) \subseteq Members(Append(neighbors[n], m))
    BY <2>2, AppendResult, Zenon
  <2>4. neighbors' \in [Node -> Seq(Node)]
    BY <2>1, <2>3, Zenon DEF KeyInv
  <2>5. \A p \in Node : Members(neighbors[p]) \subseteq Members(neighbors'[p])
    BY <2>1, <2>3, Zenon DEF KeyInv
  <2>6. \A p, q \in Node : has_live_key(p, q) => has_live_key(p, q)'
    BY <2>5 DEF has_live_key, Members
  <2> QED
    BY <1>1, <2>1, <2>4, <2>6, Zenon DEF KeyInv, ProvenHasKey, Posted
<1>3. CASE ~(Len(neighbors[n]) < Capacity)
  <2>1. /\ neighbors' = [neighbors EXCEPT ![n][1] = m]
        /\ unswept' = [unswept EXCEPT ![n] = TRUE]
    BY <1>3, Zenon DEF cache_neighbor
  <2>2. neighbors' \in [Node -> Seq(Node)]
    BY <2>1, OverwriteType, Zenon DEF KeyInv
  <2>3. ProvenHasKey'
    BY <1>1, <2>1 DEF KeyInv, ProvenHasKey, has_live_key
  <2> QED
    BY <1>1, <2>1, <2>2, <2>3, Zenon DEF KeyInv, Posted
<1> QED
  BY <1>2, <1>3, Zenon

LEMMA EvictKeys ==
    ASSUME KeyInv, NEW n \in Node, NEW m \in Node, evict_neighbor(n, m)
    PROVE  KeyInv'
<1>1. /\ neighbors' = [neighbors EXCEPT ![n] = swap_remove(@, m)]
      /\ proven' = [proven EXCEPT ![n] = @ \ {m}]
      /\ unswept' = [unswept EXCEPT ![n] = TRUE] /\ air' = air
  BY Zenon DEF evict_neighbor
<1>2. neighbors' \in [Node -> Seq(Node)]
  BY <1>1, SwapRemoveType, Zenon DEF KeyInv
<1>3. ProvenHasKey'
  BY <1>1 DEF KeyInv, ProvenHasKey, has_live_key
<1> QED
  BY <1>1, <1>2, <1>3, Zenon DEF KeyInv, Posted

\* The sweep: every proof it leaves is one whose key it left.
LEMMA SweepKeys ==
    ASSUME KeyInv, NEW n \in Node, NEW lapsed, set_auth_time(n, lapsed)
    PROVE  KeyInv'
<1>1. /\ neighbors' = [neighbors EXCEPT ![n] = retain(@, lapsed)]
      /\ proven' = [proven EXCEPT ![n] =
                       {m \in @ : has_live_key(n, m) /\ m \notin lapsed}]
      /\ unswept' = [unswept EXCEPT ![n] = FALSE] /\ air' = air
  BY Zenon DEF set_auth_time
<1>2. /\ retain(neighbors[n], lapsed) \in Seq(Node)
      /\ Members(neighbors[n]) \ lapsed
             \subseteq Members(retain(neighbors[n], lapsed))
  BY RetainResult, Zenon DEF KeyInv
<1>3. /\ neighbors' \in [Node -> Seq(Node)]
      /\ proven' \in [Node -> SUBSET Node] /\ unswept' \in [Node -> BOOLEAN]
  BY <1>1, <1>2, Zenon DEF KeyInv
<1>4. ASSUME NEW p \in Node, ~unswept'[p], NEW m \in proven'[p]
      PROVE  m \in Members(neighbors'[p])
  <2>1. CASE p = n
    <3>1. has_live_key(n, m) /\ m \notin lapsed
      BY <1>1, <1>4, <2>1, Zenon DEF KeyInv
    <3> QED
      BY <1>1, <1>2, <2>1, <3>1, LiveKeyMember, Zenon DEF KeyInv
  <2>2. CASE p # n
    <3>1. unswept[p] = unswept'[p] /\ m \in proven[p]
          /\ neighbors'[p] = neighbors[p]
      BY <1>1, <1>4, <2>2, Zenon DEF KeyInv
    <3> QED
      BY <1>4, <3>1, LiveKeyMember, Zenon DEF KeyInv, ProvenHasKey
  <2> QED
    BY <2>1, <2>2, Zenon
<1>5. ProvenHasKey'
  BY <1>4, Zenon DEF ProvenHasKey, has_live_key, Members
<1> QED
  BY <1>1, <1>3, <1>5, Zenon DEF KeyInv, Posted

\* A response is credited only to a neighbour whose key verified it.
LEMMA ResponseKeys ==
    ASSUME KeyInv, NEW f \in air, verify_challenge_response(f)
    PROVE  KeyInv'
<1>1. /\ UNCHANGED <<neighbors, unswept>> /\ has_live_key(f.to, f.from)
      /\ \/ proven' = proven
         \/ proven' = [proven EXCEPT ![f.to] = @ \cup {f.from}]
  BY Zenon DEF verify_challenge_response, Admits, Tolerated
<1>2. f.to \in Node /\ f.from \in Node
  BY Zenon DEF KeyInv, Posted
<1>3. Posted'
  BY TakenPosted, StillPosted, Zenon DEF KeyInv, verify_challenge_response
<1>4. CASE proven' = proven
  BY <1>1, <1>3, <1>4, QuietKeys, Zenon
<1>5. ASSUME NEW n \in Node, NEW m \in Node, has_live_key(n, m),
             proven' = [proven EXCEPT ![n] = @ \cup {m}]
      PROVE  KeyInv'
  <2>1. proven' \in [Node -> SUBSET Node]
    BY <1>5, Zenon DEF KeyInv
  <2>2. \A p, q \in Node : has_live_key(p, q)' <=> has_live_key(p, q)
    BY <1>1, Zenon DEF has_live_key
  <2>3. \A p \in Node : \A q \in proven'[p] :
            q \in proven[p] \/ (p = n /\ q = m)
    BY <1>5, Zenon DEF KeyInv
  <2>4. ProvenHasKey'
    BY <1>1, <1>5, <2>1, <2>2, <2>3 DEF KeyInv, ProvenHasKey
  <2> QED
    BY <1>1, <1>3, <2>1, <2>4, Zenon DEF KeyInv
<1> QED
  BY <1>1, <1>2, <1>4, <1>5, Zenon

LEMMA RestartKeys ==
    ASSUME KeyInv, NEW n \in Node, Restart(n)
    PROVE  KeyInv'
<1>1. /\ neighbors' = [neighbors EXCEPT ![n] = << >>]
      /\ proven' = [proven EXCEPT ![n] = {}]
      /\ unswept' = [unswept EXCEPT ![n] = FALSE] /\ air' = air
  BY Zenon DEF Restart
<1>2. << >> \in Seq(Node)
  OBVIOUS
<1>3. neighbors' \in [Node -> Seq(Node)]
  BY <1>1, <1>2, Zenon DEF KeyInv
<1>4. ProvenHasKey'
  BY <1>1 DEF KeyInv, ProvenHasKey, has_live_key
<1> QED
  BY <1>1, <1>3, <1>4, Zenon DEF KeyInv, Posted

\* Between two passes of the driver a proof may be left without its key
\* (cache_neighbor overwrites a slot, evict_neighbor), but never unnoticed:
\* wherever nothing is left to sweep, every proven neighbour has its key.
THEOREM ProofAlwaysKeyed == Spec => []ProvenHasKey
<1>1. Init => IInv /\ KeyInv
  BY DEF Init, IInv, Asked, Posted, Ordered, KeyInv, ProvenHasKey
<1>2. IInv /\ KeyInv /\ [Next]_vars => KeyInv'
  <2> SUFFICES ASSUME IInv, KeyInv, [Next]_vars PROVE KeyInv'
    BY Zenon
  <2>1. Posted'
    BY NextIInv, Zenon DEF IInv
  <2>2. ASSUME NEW n \in Node, NEW m \in Peers(n),
               cache_neighbor(n, m) \/ evict_neighbor(n, m)
        PROVE  KeyInv'
    BY <2>2, PeersAreNodes, CacheKeys, EvictKeys, Zenon
  <2>3. ASSUME NEW n \in Node, NEW m \in Peers(n),
               tag_directed(n, m) \/ poll_challenge(n, m)
        PROVE  KeyInv'
    BY <2>1, <2>3, QuietKeys, Zenon DEF tag_directed, poll_challenge
  <2>4. ASSUME NEW n \in Node, NEW lapsed \in SUBSET Peers(n),
               set_auth_time(n, lapsed)
        PROVE  KeyInv'
    BY <2>4, SweepKeys, Zenon
  <2>5. ASSUME NEW n \in Node, augment_keepalive(n) PROVE KeyInv'
    BY <2>1, <2>5, QuietKeys, Zenon DEF augment_keepalive
  <2>6. ASSUME NEW n \in Node, Restart(n) PROVE KeyInv'
    BY <2>6, RestartKeys, Zenon
  <2>7. ASSUME NEW f \in air, verify_challenge_response(f) PROVE KeyInv'
    BY <2>7, ResponseKeys, Zenon
  <2>8. ASSUME NEW f \in air, verify_directed(f) \/ answer_challenge(f)
                                  \/ Refused(f) \/ Lose(f)
        PROVE  KeyInv'
    BY <2>1, <2>8, QuietKeys, Zenon
       DEF verify_directed, answer_challenge, Refused, Lose, auths
  <2>9. CASE UNCHANGED vars
    BY <2>1, <2>9, QuietKeys, Zenon DEF vars, auths
  <2> QED
    BY <2>2, <2>3, <2>4, <2>5, <2>6, <2>7, <2>8, <2>9, Zenon DEF Next, Receive
<1>3. KeyInv => ProvenHasKey
  BY Zenon DEF KeyInv
<1> QED
  BY <1>1, <1>2, <1>3, NextIInv, PTL DEF Spec

-----------------------------------------------------------------------------
(* The ping session.                                                       *)

\* Euclid's division: a is m times q, and r over.
DividesInto(a, m, q, r) == a = m * q + r /\ 0 <= r /\ r < m

\* Division with remainder, in a form the provers can use.
LEMMA Division ==
    ASSUME NEW a \in Int, NEW m \in Nat, m > 0
    PROVE  \E q \in Int, r \in Int : DividesInto(a, m, q, r) /\ r = a % m
<1> DEFINE q == a \div m
           r == a % m
<1>1. q \in Int /\ r \in Int /\ 0 <= r /\ r < m
  OBVIOUS
<1>2. r = a - m * q
  OBVIOUS
<1>3. a = m * q + r
  <2> HIDE DEF q, r
  <2> QED BY <1>1, <1>2
<1>4. DividesInto(a, m, q, r)
  <2> HIDE DEF q, r
  <2> QED BY <1>1, <1>3 DEF DividesInto
<1>5. r = a % m
  OBVIOUS
<1> HIDE DEF q, r
<1> QED BY <1>1, <1>4, <1>5

\* Quotient and remainder are unique.
LEMMA Remainder ==
    ASSUME NEW a \in Int, NEW m \in Nat, m > 0, NEW q \in Int, NEW r \in Int,
           DividesInto(a, m, q, r)
    PROVE  a % m = r
BY SMTT(30) DEF DividesInto

\* Multiples of m add up.
LEMMA Factor ==
    ASSUME NEW m \in Int, NEW p \in Int, NEW q \in Int
    PROVE  m * p + m * q = m * (p + q) /\ m * p - m * q = m * (p - q)
OBVIOUS

\* The only multiple of m smaller than m is zero.
LEMMA SmallMultiple ==
    ASSUME NEW m \in Nat, m > 0, NEW d \in Int, m * d < m, -m < m * d
    PROVE  d = 0
OBVIOUS

\* Counting on modulo m can be done on the remainder.
LEMMA AddModulo ==
    ASSUME NEW a \in Int, NEW n \in Int, NEW m \in Nat, m > 0
    PROVE  ((a % m) + n) % m = (a + n) % m
<1>1. PICK q \in Int, r \in Int : DividesInto(a, m, q, r) /\ r = a % m
  BY Division
<1>2. r + n \in Int /\ a + n \in Int
  OBVIOUS
<1>3. PICK p \in Int, t \in Int :
         DividesInto(r + n, m, p, t) /\ t = (r + n) % m
  BY <1>2, Division
<1>4. m * q + m * p = m * (q + p) /\ q + p \in Int /\ m * q \in Int
      /\ m * p \in Int
  BY Factor
<1>5. DividesInto(a + n, m, q + p, t)
  BY <1>1, <1>3, <1>4 DEF DividesInto
<1>6. (a + n) % m = t
  BY <1>2, <1>4, <1>5, Remainder, Zenon
<1> QED BY <1>1, <1>3, <1>6

\* Two numbers less than m apart that agree modulo m are the same number.
LEMMA SameModulo ==
    ASSUME NEW a \in Int, NEW b \in Int, NEW m \in Nat, m > 0,
           a % m = b % m, a - b < m, b - a < m
    PROVE  a = b
<1>1. PICK q \in Int, r \in Int : DividesInto(a, m, q, r) /\ r = a % m
  BY Division, Zenon
<1>2. PICK p \in Int, t \in Int : DividesInto(b, m, p, t) /\ t = b % m
  BY Division, Zenon
<1>3. m * q - m * p = m * (q - p) /\ q - p \in Int /\ m * q \in Int
      /\ m * p \in Int
  BY Factor
<1>4. r = t
  BY <1>1, <1>2
<1>5. a - b = m * (q - p)
  BY <1>1, <1>2, <1>3, <1>4 DEF DividesInto
<1>6. m * (q - p) < m /\ -m < m * (q - p)
  BY <1>5, <1>3
<1>7. q - p = 0
  BY <1>6, <1>3, SmallMultiple
<1>8. q = p
  BY <1>7
<1> QED BY <1>1, <1>2, <1>4, <1>8 DEF DividesInto

-----------------------------------------------------------------------------

\* A row of the ring of probes; `probe` is its serial number.
RowType ==
    [seqno : Nat, state : {"Pending", "Replied", "TimedOut", "NoRoute"},
     ago : Int, probe : Nat]

\* A session.
SessionType ==
    [target : Peer, requested : Nat, emitted : Nat, first_seqno : Nat,
     serial : Nat, next_due : Int, received : Nat, lost : Nat,
     probes : Seq(RowType)]

\* The rows of a ring that wait for a reply.
Pending(ring) == {k \in 1 .. Len(ring) : ring[k].state = "Pending"}

\* The rows are those of the last probes before the n-th, in order.
RowsUpTo(ring, n) ==
    \A k \in 1 .. Len(ring) :
        /\ ring[k].probe = n - Len(ring) + k - 1
        /\ ring[k].seqno = ring[k].probe % SeqMod

\* A session numbers its probes as the router does. Its first one is less
\* than a range of sequence numbers ago.
Numbered(s, total) ==
    /\ s.first_seqno = s.serial % SeqMod
    /\ s.emitted <= s.requested
    /\ s.serial + s.requested <= total
    /\ total - SeqMod <= s.serial
    /\ Len(s.probes) <= s.emitted
    /\ RowsUpTo(s.probes, s.serial + s.emitted)

\* A credit is for the probe answered; no probe that waits has one.
Uncredited(s, paid) ==
    /\ \A c \in paid :
          c[1] \in Int /\ c[1] = c[2] /\ c[1] < s.serial + s.emitted
    /\ \A k \in Pending(s.probes) : \A c \in paid : c[1] # s.probes[k].probe

\* Replies, losses and waiting probes add up to the probes sent.
Tallied(s, paid) ==
    /\ IsFiniteSet(paid)
    /\ s.received = Cardinality(paid)
    /\ s.emitted = s.received + s.lost + Cardinality(Pending(s.probes))
    /\ Uncredited(s, paid)

\* What holds of a session, given the probes asked for and the credits.
SessionOK(s, total, paid) ==
    s \in SessionType /\ Numbered(s, total) /\ Tallied(s, paid)

\* A reply under way answers a probe less than a range of numbers ago.
ReplyOK(r, total) ==
    /\ r.probe \in Int
    /\ r.seqno = r.probe % SeqMod
    /\ total - SeqMod <= r.probe /\ r.probe < total

\* The inductive invariant.
PingInv ==
    /\ issued \in Nat /\ waited \in Nat
    /\ next_probe_seqno = issued % SeqMod
    /\ \A r \in replies : ReplyOK(r, issued)
    /\ \/ session = None /\ credits = {}
       \/ SessionOK(session, issued, credits)

\* A ring has finitely many rows.
LEMMA PendingFinite ==
    ASSUME NEW ring \in Seq(RowType)
    PROVE  /\ IsFiniteSet(Pending(ring)) /\ Cardinality(Pending(ring)) \in Nat
           /\ Pending(ring) \subseteq 1 .. Len(ring)
<1>1. Len(ring) \in Nat
  OBVIOUS
<1>2. IsFiniteSet(1 .. Len(ring))
  BY <1>1, FS_Interval
<1>3. Pending(ring) \subseteq 1 .. Len(ring)
  BY DEF Pending
<1>4. IsFiniteSet(Pending(ring))
  BY <1>2, <1>3, FS_Subset
<1> QED BY <1>3, <1>4, FS_CardinalityType

\* The probes the session counts as outstanding are the ones that wait.
LEMMA OutstandingIsPending ==
    ASSUME NEW s PROVE Outstanding(s) = Pending(s.probes)
BY DEF Outstanding, Pending

\* Without a session nothing is credited.
LEMMA NoneIsNoSession ==
    ASSUME PingInv, session # None
    PROVE  session \in SessionType
BY DEF PingInv, SessionOK

\* Aging or resolving rows leaves their numbers alone.
SameNumbers(ring, other) ==
    /\ other \in Seq(RowType) /\ Len(other) = Len(ring)
    /\ \A k \in 1 .. Len(ring) : /\ other[k].probe = ring[k].probe
                                 /\ other[k].seqno = ring[k].seqno

\* Rows with the same numbers are those of the same probes.
LEMMA NumbersKept ==
    ASSUME NEW ring \in Seq(RowType), NEW other, NEW n \in Int,
           SameNumbers(ring, other), RowsUpTo(ring, n)
    PROVE  RowsUpTo(other, n)
BY DEF SameNumbers, RowsUpTo

\* A resolved row keeps its numbers.
LEMMA ResolvedRow ==
    ASSUME NEW row \in RowType, NEW state
    PROVE  [row EXCEPT !.state = state, !.ago = 0] =
              [seqno |-> row.seqno, state |-> state, ago |-> 0,
               probe |-> row.probe]
<1> DEFINE first == [row EXCEPT !.state = state]
<1>1. first = [seqno |-> row.seqno, state |-> state, ago |-> row.ago,
               probe |-> row.probe]
  BY DEF RowType
<1>2. [row EXCEPT !.state = state, !.ago = 0] = [first EXCEPT !.ago = 0]
  OBVIOUS
<1> HIDE DEF first
<1>3. [first EXCEPT !.ago = 0] =
         [seqno |-> row.seqno, state |-> state, ago |-> 0,
          probe |-> row.probe]
  BY <1>1
<1> QED BY <1>2, <1>3, Zenon

\* The ring once the rows `done` are resolved.
ResolvedRows(ring, done, state) ==
    [k \in DOMAIN ring |->
        IF k \in done THEN [ring[k] EXCEPT !.state = state, !.ago = 0]
        ELSE ring[k]]

\* Resolving rows leaves their numbers, and takes them off the waiting ones.
LEMMA ResolvedShape ==
    ASSUME NEW ring \in Seq(RowType), NEW done \in SUBSET Pending(ring),
           NEW state \in {"Replied", "TimedOut"}
    PROVE  /\ SameNumbers(ring, ResolvedRows(ring, done, state))
           /\ Pending(ResolvedRows(ring, done, state)) = Pending(ring) \ done
<1> DEFINE new == ResolvedRows(ring, done, state)
<1>1. DOMAIN ring = 1 .. Len(ring) /\ Len(ring) \in Nat
  OBVIOUS
<1>2. \A k \in 1 .. Len(ring) : ring[k] \in RowType
  OBVIOUS
<1>3. \A k \in 1 .. Len(ring) :
         /\ new[k] \in RowType /\ new[k].probe = ring[k].probe
         /\ new[k].seqno = ring[k].seqno
         /\ new[k].state = IF k \in done THEN state ELSE ring[k].state
  <2> TAKE k \in 1 .. Len(ring)
  <2>1. ring[k] \in RowType /\ k \in DOMAIN ring
    BY <1>1, <1>2
  <2>2. new[k] = IF k \in done THEN [ring[k] EXCEPT !.state = state, !.ago = 0]
                 ELSE ring[k]
    BY <2>1 DEF ResolvedRows
  <2> HIDE DEF new
  <2>3. CASE k \in done
    <3>1. [ring[k] EXCEPT !.state = state, !.ago = 0] =
             [seqno |-> ring[k].seqno, state |-> state, ago |-> 0,
              probe |-> ring[k].probe]
      BY <2>1, ResolvedRow, Zenon
    <3> QED BY <2>1, <2>2, <2>3, <3>1 DEF RowType
  <2>4. CASE k \notin done
    BY <2>1, <2>2, <2>4
  <2> QED BY <2>3, <2>4
<1>4. new = [k \in 1 .. Len(ring) |-> new[k]]
  BY <1>1 DEF ResolvedRows
<1>5. new \in Seq(RowType) /\ Len(new) = Len(ring)
  <2> HIDE DEF new
  <2> QED BY <1>1, <1>3, <1>4
<1>6. SameNumbers(ring, new)
  BY <1>3, <1>5 DEF SameNumbers
<1>7. Pending(new) = Pending(ring) \ done
  <2> HIDE DEF new
  <2> QED BY <1>3, <1>5 DEF Pending
<1> QED BY <1>6, <1>7

\* A finite set is as large as a part of it and the rest.
LEMMA CardinalityWithout ==
    ASSUME NEW S, IsFiniteSet(S), NEW D \in SUBSET S
    PROVE  /\ IsFiniteSet(D) /\ Cardinality(D) \in Nat
           /\ Cardinality(S \ D) \in Nat
           /\ Cardinality(S) = Cardinality(S \ D) + Cardinality(D)
<1>1. IsFiniteSet(D) /\ IsFiniteSet(S \ D)
  BY FS_Subset
<1>2. Cardinality(D) \in Nat /\ Cardinality(S \ D) \in Nat
          /\ Cardinality(S) \in Nat
  BY <1>1, FS_CardinalityType
<1>3. (S \ D) \cap D = {} /\ (S \ D) \cup D = S
  OBVIOUS
<1>4. Cardinality((S \ D) \cup D) =
         Cardinality(S \ D) + Cardinality(D) - Cardinality((S \ D) \cap D)
  BY <1>1, FS_Union
<1>5. Cardinality({}) = 0
  BY FS_EmptySet
<1>6. Cardinality(S) = Cardinality(S \ D) + Cardinality(D) - 0
  BY <1>3, <1>4, <1>5, Zenon
<1> QED BY <1>1, <1>2, <1>6

-----------------------------------------------------------------------------
(* The session's operations. *)

\* Resolving rows changes nothing but the rows.
LEMMA ResolveFields ==
    ASSUME NEW s \in SessionType, NEW done \in SUBSET Pending(s.probes),
           NEW state \in {"Replied", "TimedOut"}
    PROVE  Resolve(s, done, state) =
              [s EXCEPT !.probes = ResolvedRows(s.probes, done, state)]
BY DEF Resolve, ResolvedRows

\* What stays the same of a session whose rows are resolved.
SameBook(s, t) ==
    /\ t \in SessionType
    /\ t.target = s.target /\ t.emitted = s.emitted
    /\ t.first_seqno = s.first_seqno /\ t.serial = s.serial
    /\ t.received = s.received

\* A session some of whose probes are given up as lost.
LEMMA LostShape ==
    ASSUME NEW s \in SessionType, NEW done \in SUBSET Pending(s.probes)
    PROVE  LET t == Lost(s, done)
           IN  /\ SameBook(s, t) /\ t.requested = s.requested
               /\ t.lost = s.lost + Cardinality(done)
               /\ SameNumbers(s.probes, t.probes)
               /\ Pending(t.probes) = Pending(s.probes) \ done
<1> DEFINE ring == ResolvedRows(s.probes, done, "TimedOut")
           t == Lost(s, done)
<1>1. s.probes \in Seq(RowType)
  BY DEF SessionType
<1>2. SameNumbers(s.probes, ring) /\ Pending(ring) = Pending(s.probes) \ done
  BY <1>1, ResolvedShape
<1>3. ring \in Seq(RowType)
  BY <1>2 DEF SameNumbers
<1>4. Cardinality(done) \in Nat
  <2>1. IsFiniteSet(Pending(s.probes))
    BY <1>1, PendingFinite
  <2> QED BY <2>1, CardinalityWithout, Zenon
<1> DEFINE u == Resolve(s, done, "TimedOut")
<1> HIDE DEF ring
<1>u. u = [target |-> s.target, requested |-> s.requested,
           emitted |-> s.emitted, first_seqno |-> s.first_seqno,
           serial |-> s.serial, next_due |-> s.next_due,
           received |-> s.received, lost |-> s.lost, probes |-> ring]
  <2>1. u = [s EXCEPT !.probes = ring]
    BY ResolveFields, Zenon DEF ring
  <2> HIDE DEF u
  <2> QED BY <2>1 DEF SessionType
<1>5. t = [u EXCEPT !.lost = u.lost + Cardinality(done)]
  BY DEF Lost
<1> HIDE DEF u
<1>6. t = [target |-> s.target, requested |-> s.requested,
           emitted |-> s.emitted, first_seqno |-> s.first_seqno,
           serial |-> s.serial, next_due |-> s.next_due,
           received |-> s.received, lost |-> s.lost + Cardinality(done),
           probes |-> ring]
  <2> HIDE DEF t
  <2> QED BY <1>5, <1>u
<1>7. t \in SessionType
  <2> HIDE DEF t
  <2> QED BY <1>3, <1>4, <1>6 DEF SessionType
<1> HIDE DEF t
<1>8. SameBook(s, t)
  BY <1>6, <1>7 DEF SameBook
<1>9. t.requested = s.requested /\ t.lost = s.lost + Cardinality(done)
      /\ t.probes = ring
  BY <1>6
<1> QED BY <1>2, <1>8, <1>9 DEF t

\* Giving rows up keeps the tally: they move from outstanding to lost.
LEMMA LostKeeps ==
    ASSUME NEW s \in SessionType, NEW done \in SUBSET Pending(s.probes),
           NEW total \in Nat, NEW paid,
           Numbered(s, total), Tallied(s, paid)
    PROVE  SessionOK(Lost(s, done), total, paid)
<1> DEFINE t == Lost(s, done)
<1>1. /\ SameBook(s, t) /\ t.requested = s.requested
      /\ t.lost = s.lost + Cardinality(done)
      /\ SameNumbers(s.probes, t.probes)
      /\ Pending(t.probes) = Pending(s.probes) \ done
  BY LostShape
<1> HIDE DEF t
<1>2. t \in SessionType /\ s.probes \in Seq(RowType)
          /\ s.serial + s.emitted \in Int
  BY <1>1 DEF SameBook, SessionType
<1>3. Numbered(t, total)
  <2>1. RowsUpTo(t.probes, s.serial + s.emitted)
    BY <1>1, <1>2, NumbersKept DEF Numbered
  <2> QED BY <1>1, <2>1 DEF Numbered, SameBook, SameNumbers
<1>4. Uncredited(t, paid)
  <2>1. Uncredited(s, paid)
    BY DEF Tallied
  <2>2. \A k \in Pending(t.probes) :
           k \in Pending(s.probes) /\ t.probes[k].probe = s.probes[k].probe
    BY <1>1, <1>2, PendingFinite DEF SameNumbers
  <2> QED BY <1>1, <2>1, <2>2 DEF Uncredited, SameBook
<1>5. t.emitted = t.received + t.lost + Cardinality(Pending(t.probes))
  <2> DEFINE S == Pending(s.probes)
  <2>1. IsFiniteSet(S)
    BY <1>2, PendingFinite
  <2>2. /\ Cardinality(done) \in Nat /\ Cardinality(S \ done) \in Nat
        /\ Cardinality(S) = Cardinality(S \ done) + Cardinality(done)
    <3> HIDE DEF S
    <3> QED BY <2>1, CardinalityWithout DEF S
  <2>3. s.emitted = s.received + s.lost + Cardinality(S)
    BY DEF Tallied
  <2>4. s.emitted \in Nat /\ s.received \in Nat /\ s.lost \in Nat
    BY DEF SessionType
  <2>5. Pending(t.probes) = S \ done
    BY <1>1
  <2>6. /\ t.emitted = s.emitted /\ t.received = s.received
        /\ t.lost = s.lost + Cardinality(done)
    BY <1>1 DEF SameBook
  <2> HIDE DEF S
  <2> QED BY <2>2, <2>3, <2>4, <2>5, <2>6
<1>6. Tallied(t, paid)
  BY <1>1, <1>4, <1>5 DEF Tallied, SameBook
<1> QED BY <1>2, <1>3, <1>6 DEF SessionOK, t

\* Probes that time out.
LEMMA ExpireKeeps ==
    ASSUME NEW s, NEW old, NEW total \in Nat, NEW paid,
           SessionOK(s, total, paid)
    PROVE  /\ SessionOK(expire(s, old), total, paid)
           /\ expire(s, old).requested = s.requested
<1> DEFINE done == {k \in Outstanding(s) :
        Elapsed(s.probes[k], old) >= Timeout}
<1>1. done \in SUBSET Pending(s.probes)
  BY OutstandingIsPending
<1>2. expire(s, old) = Lost(s, done)
  BY DEF expire
<1>3. s \in SessionType /\ Numbered(s, total) /\ Tallied(s, paid)
  BY DEF SessionOK
<1> HIDE DEF done
<1>4. SessionOK(Lost(s, done), total, paid)
  BY <1>1, <1>3, LostKeeps, Zenon
<1>5. Lost(s, done).requested = s.requested
  BY <1>1, <1>3, LostShape, Zenon
<1> QED BY <1>2, <1>4, <1>5, Zenon

\* A session that is cancelled.
LEMMA CancelKeeps ==
    ASSUME NEW s, NEW total \in Nat, NEW paid, SessionOK(s, total, paid)
    PROVE  SessionOK(cancel(s), total, paid)
<1> DEFINE u == [s EXCEPT !.requested = s.emitted]
           done == Outstanding(s)
<1>1. s \in SessionType /\ Numbered(s, total) /\ Tallied(s, paid)
  BY DEF SessionOK
<1>2. u = [target |-> s.target, requested |-> s.emitted,
           emitted |-> s.emitted, first_seqno |-> s.first_seqno,
           serial |-> s.serial, next_due |-> s.next_due,
           received |-> s.received, lost |-> s.lost, probes |-> s.probes]
  BY <1>1 DEF SessionType
<1>3. cancel(s) = Lost(u, done)
  BY DEF cancel
<1> HIDE DEF u
<1>4. u \in SessionType
  BY <1>1, <1>2 DEF SessionType
<1>5. Numbered(u, total)
  BY <1>1, <1>2 DEF Numbered, SessionType
<1>6. Tallied(u, paid)
  <2>1. Uncredited(u, paid)
    BY <1>1, <1>2 DEF Tallied, Uncredited
  <2> QED BY <1>1, <1>2, <2>1 DEF Tallied
<1>7. done \in SUBSET Pending(u.probes)
  BY <1>2, OutstandingIsPending
<1> HIDE DEF done
<1> QED BY <1>3, <1>4, <1>5, <1>6, <1>7, LostKeeps, Zenon

\* The ring with room for one more row.
Trimmed(ring) == IF Len(ring) = MaxProbes THEN Tail(ring) ELSE ring

\* One if that takes a row which still waits.
Dropped(ring) == IF Len(ring) = MaxProbes /\ 1 \in Pending(ring) THEN 1 ELSE 0

\* The rows that wait once the oldest is dropped.
LEMMA TailPending ==
    ASSUME NEW ring \in Seq(RowType), ring # <<>>
    PROVE  /\ Tail(ring) \in Seq(RowType) /\ Len(Tail(ring)) = Len(ring) - 1
           /\ \A k \in 1 .. Len(ring) - 1 : Tail(ring)[k] = ring[k + 1]
           /\ \A k \in Pending(Tail(ring)) : k + 1 \in Pending(ring) \ {1}
           /\ \A k \in Pending(ring) \ {1} : k - 1 \in Pending(Tail(ring))
<1>1. Len(ring) \in Nat /\ Len(ring) > 0
  OBVIOUS
<1>2. Tail(ring) \in Seq(RowType) /\ Len(Tail(ring)) = Len(ring) - 1
  OBVIOUS
<1>3. \A k \in 1 .. Len(ring) - 1 : Tail(ring)[k] = ring[k + 1]
  OBVIOUS
<1>4. \A k \in Pending(Tail(ring)) : k + 1 \in Pending(ring) \ {1}
  BY <1>1, <1>2, <1>3 DEF Pending
<1>5. \A k \in Pending(ring) \ {1} : k - 1 \in Pending(Tail(ring))
  BY <1>1, <1>2, <1>3 DEF Pending
<1> QED BY <1>2, <1>3, <1>4, <1>5

\* What maps one set onto another and no two members to one counts both.
LEMMA OneToOne ==
    ASSUME NEW S, NEW T, NEW f \in [S -> T],
           \A a, b \in S : f[a] = f[b] => a = b,
           \A t \in T : \E s \in S : f[s] = t
    PROVE  ExistsBijection(S, T)
BY Zenon
   DEF ExistsBijection, Bijection, Injection, Surjection, IsInjective

\* Their number.
LEMMA TailCount ==
    ASSUME NEW ring \in Seq(RowType), ring # <<>>
    PROVE  Cardinality(Pending(Tail(ring))) = Cardinality(Pending(ring) \ {1})
<1> DEFINE S == Pending(Tail(ring))
           T == Pending(ring) \ {1}
           f == [k \in S |-> k + 1]
<1>1. Tail(ring) \in Seq(RowType)
  BY TailPending
<1>2. IsFiniteSet(S)
  BY <1>1, PendingFinite, Zenon
<1>3. S \subseteq Int /\ T \subseteq Int
  BY DEF Pending
<1>4. (\A k \in S : k + 1 \in T) /\ (\A k \in T : k - 1 \in S)
  BY TailPending
<1> HIDE DEF S, T
<1>5. ExistsBijection(S, T)
  <2>1. f \in [S -> T]
    BY <1>4
  <2>2. \A a, b \in S : f[a] = f[b] => a = b
    BY <1>3
  <2>3. \A b \in T : \E a \in S : f[a] = b
    <3> TAKE b \in T
    <3>1. b - 1 \in S /\ f[b - 1] = b
      BY <1>3, <1>4
    <3> QED BY <3>1
  <2> HIDE DEF f
  <2> QED BY <2>1, <2>2, <2>3, OneToOne
<1> QED BY <1>2, <1>5, FS_Bijection DEF S, T

\* Making room keeps the numbers of the rows that stay, and counts the one
\* that goes.
LEMMA TrimmedShape ==
    ASSUME NEW ring \in Seq(RowType), NEW n \in Int, RowsUpTo(ring, n)
    PROVE  /\ Trimmed(ring) \in Seq(RowType)
           /\ Len(Trimmed(ring)) <= Len(ring)
           /\ RowsUpTo(Trimmed(ring), n)
           /\ Cardinality(Pending(ring)) =
                 Cardinality(Pending(Trimmed(ring))) + Dropped(ring)
           /\ \A k \in Pending(Trimmed(ring)) : \E j \in Pending(ring) :
                 Trimmed(ring)[k].probe = ring[j].probe
<1>1. CASE Len(ring) # MaxProbes
  <2>1. Trimmed(ring) = ring /\ Dropped(ring) = 0
    BY <1>1 DEF Trimmed, Dropped
  <2>2. Cardinality(Pending(ring)) \in Nat
    BY PendingFinite
  <2>3. Cardinality(Pending(ring)) = Cardinality(Pending(ring)) + 0
    BY <2>2
  <2>4. Len(ring) \in Nat
    OBVIOUS
  <2> QED BY <2>1, <2>3, <2>4
<1>2. CASE Len(ring) = MaxProbes
  <2>1. ring # <<>> /\ Len(ring) \in Nat
    BY <1>2, PingAssumption
  <2>2. Trimmed(ring) = Tail(ring)
    BY <1>2 DEF Trimmed
  <2>3. /\ Tail(ring) \in Seq(RowType) /\ Len(Tail(ring)) = Len(ring) - 1
        /\ \A k \in 1 .. Len(ring) - 1 : Tail(ring)[k] = ring[k + 1]
        /\ \A k \in Pending(Tail(ring)) : k + 1 \in Pending(ring) \ {1}
    BY <2>1, TailPending, Zenon
  <2>4. RowsUpTo(Tail(ring), n)
    BY <2>1, <2>3 DEF RowsUpTo
  <2>5. Cardinality(Pending(Tail(ring))) = Cardinality(Pending(ring) \ {1})
    BY <2>1, TailCount, Zenon
  <2>6. IsFiniteSet(Pending(ring)) /\ Cardinality(Pending(ring)) \in Nat
    BY PendingFinite
  <2>7. Cardinality(Pending(ring)) =
           Cardinality(Pending(ring) \ {1}) + Dropped(ring)
    <3>1. CASE 1 \in Pending(ring)
      <4>1. Cardinality(Pending(ring) \ {1}) = Cardinality(Pending(ring)) - 1
        BY <2>6, <3>1, FS_RemoveElement, Zenon
      <4>2. Dropped(ring) = 1
        BY <1>2, <3>1 DEF Dropped
      <4> QED BY <2>6, <4>1, <4>2
    <3>2. CASE 1 \notin Pending(ring)
      <4>1. Pending(ring) \ {1} = Pending(ring)
        BY <3>2
      <4>2. Dropped(ring) = 0
        BY <3>2 DEF Dropped
      <4>3. Cardinality(Pending(ring)) = Cardinality(Pending(ring)) + 0
        BY <2>6
      <4> QED BY <4>1, <4>2, <4>3, Zenon
    <3> QED BY <3>1, <3>2
  <2>8. \A k \in Pending(Tail(ring)) : \E j \in Pending(ring) :
           Tail(ring)[k].probe = ring[j].probe
    <3> SUFFICES ASSUME NEW k \in Pending(Tail(ring))
                 PROVE  \E j \in Pending(ring) :
                           Tail(ring)[k].probe = ring[j].probe
      BY Zenon
    <3>1. k \in 1 .. Len(ring) - 1
      BY <2>3 DEF Pending
    <3>2. k + 1 \in Pending(ring) /\ Tail(ring)[k] = ring[k + 1]
      BY <2>3, <3>1
    <3> QED BY <3>2, Zenon
  <2>9. Len(Tail(ring)) <= Len(ring)
    BY <2>1, <2>3
  <2>10. Cardinality(Pending(ring)) =
            Cardinality(Pending(Tail(ring))) + Dropped(ring)
    BY <2>5, <2>7, Zenon
  <2> QED BY <2>2, <2>3, <2>4, <2>8, <2>9, <2>10, Zenon
<1> QED BY <1>1, <1>2

\* The ring with the row of the n-th probe.
Extended(ring, row, n) ==
    /\ Append(ring, row) \in Seq(RowType)
    /\ Len(Append(ring, row)) = Len(ring) + 1
    /\ RowsUpTo(Append(ring, row), n + 1)
    /\ Pending(Append(ring, row)) = Pending(ring) \cup
          IF row.state = "Pending" THEN {Len(ring) + 1} ELSE {}
    /\ Cardinality(Pending(Append(ring, row))) =
          Cardinality(Pending(ring)) + IF row.state = "Pending" THEN 1 ELSE 0
    /\ \A k \in Pending(ring) : Append(ring, row)[k] = ring[k]
    /\ Append(ring, row)[Len(ring) + 1] = row

\* A new row continues the numbers.
LEMMA AppendShape ==
    ASSUME NEW ring \in Seq(RowType), NEW n \in Int, RowsUpTo(ring, n),
           NEW row \in RowType, row.probe = n, row.seqno = n % SeqMod
    PROVE  Extended(ring, row, n)
<1> DEFINE new == Append(ring, row)
           here == IF row.state = "Pending" THEN {Len(ring) + 1} ELSE {}
<1>1. Len(ring) \in Nat
  OBVIOUS
<1>2. new \in Seq(RowType) /\ Len(new) = Len(ring) + 1
  OBVIOUS
<1>3. (\A k \in 1 .. Len(ring) : new[k] = ring[k]) /\ new[Len(ring) + 1] = row
  OBVIOUS
<1> HIDE DEF new
<1>4. RowsUpTo(new, n + 1)
  <2> SUFFICES ASSUME NEW k \in 1 .. Len(new)
               PROVE  /\ new[k].probe = (n + 1) - Len(new) + k - 1
                      /\ new[k].seqno = new[k].probe % SeqMod
    BY DEF RowsUpTo
  <2>1. CASE k = Len(ring) + 1
    BY <1>1, <1>2, <1>3, <2>1
  <2>2. CASE k # Len(ring) + 1
    <3>1. k \in 1 .. Len(ring)
      BY <1>1, <1>2, <2>2
    <3>2. new[k] = ring[k] /\ ring[k].probe = n - Len(ring) + k - 1
          /\ ring[k].seqno = ring[k].probe % SeqMod
      BY <1>3, <3>1 DEF RowsUpTo
    <3> QED BY <1>1, <1>2, <3>1, <3>2
  <2> QED BY <2>1, <2>2
<1>5. Pending(new) = Pending(ring) \cup here
  BY <1>1, <1>2, <1>3 DEF Pending
<1>6. IsFiniteSet(Pending(ring)) /\ Cardinality(Pending(ring)) \in Nat
      /\ Pending(ring) \subseteq 1 .. Len(ring)
  BY PendingFinite, Zenon
<1>7. Cardinality(Pending(new)) =
         Cardinality(Pending(ring)) + IF row.state = "Pending" THEN 1 ELSE 0
  <2>1. CASE row.state = "Pending"
    <3>1. Len(ring) + 1 \notin Pending(ring)
      BY <1>1, <1>6
    <3>2. Cardinality(Pending(ring) \cup {Len(ring) + 1}) =
             Cardinality(Pending(ring)) + 1
      BY <1>6, <3>1, FS_AddElement, Zenon
    <3> QED BY <1>5, <2>1, <3>2
  <2>2. CASE row.state # "Pending"
    BY <1>5, <1>6, <2>2
  <2> QED BY <2>1, <2>2
<1>8. \A k \in Pending(ring) : new[k] = ring[k]
  BY <1>3, <1>6
<1> QED BY <1>2, <1>3, <1>4, <1>5, <1>7, <1>8, Zenon DEF new, Extended

\* What a session is after record_sent or record_no_route, written out.
LEMMA RecordFields ==
    ASSUME NEW s \in SessionType, NEW old \in Nat,
           NEW state \in {"Pending", "NoRoute"}
    PROVE  RecordProbe(s, old, state) =
              [target |-> s.target, requested |-> s.requested,
               emitted |-> s.emitted + 1, first_seqno |-> s.first_seqno,
               serial |-> s.serial, next_due |-> Interval - old,
               received |-> s.received,
               lost |-> s.lost + (IF state = "NoRoute" THEN 1 ELSE 0)
                               + Dropped(s.probes),
               probes |-> Append(Trimmed(s.probes),
                                 [seqno |-> (s.first_seqno + s.emitted) % SeqMod,
                                  state |-> state, ago |-> old,
                                  probe |-> s.serial + s.emitted])]
<1> DEFINE row == [seqno |-> (s.first_seqno + s.emitted) % SeqMod,
                   state |-> state, ago |-> old,
                       probe |-> s.serial + s.emitted]
           extra == IF state = "NoRoute" THEN 1 ELSE 0
           u1 == [s EXCEPT !.emitted = s.emitted + 1]
           u2 == [u1 EXCEPT !.next_due = Interval - old]
           u3 == [u2 EXCEPT !.lost = u2.lost + extra]
           u4 == [u3 EXCEPT !.lost = u3.lost + Dropped(s.probes)]
           u5 == [u4 EXCEPT !.probes = Append(Trimmed(s.probes), row)]
           Rec(e, d, l, p) ==
               [target |-> s.target, requested |-> s.requested,
                emitted |-> e, first_seqno |-> s.first_seqno,
                serial |-> s.serial, next_due |-> d,
                received |-> s.received, lost |-> l, probes |-> p]
<1>1. u1 = Rec(s.emitted + 1, s.next_due, s.lost, s.probes)
  BY DEF SessionType
<1> HIDE DEF u1
<1>2. u2 = Rec(s.emitted + 1, Interval - old, s.lost, s.probes)
  BY <1>1
<1> HIDE DEF u2, extra
<1>3. u3 = Rec(s.emitted + 1, Interval - old, s.lost + extra, s.probes)
  BY <1>2
<1> HIDE DEF u3
<1>4. u4 = Rec(s.emitted + 1, Interval - old,
               s.lost + extra + Dropped(s.probes), s.probes)
  BY <1>3
<1> HIDE DEF u4, row
<1>5. u5 = Rec(s.emitted + 1, Interval - old,
               s.lost + extra + Dropped(s.probes),
               Append(Trimmed(s.probes), row))
  BY <1>4
<1>6. RecordProbe(s, old, state) = push_row(u3, row)
  BY DEF RecordProbe, u1, u2, u3, extra, row
<1>7. u3.probes = s.probes
  BY <1>3
<1>8. push_row(u3, row) = u5
  <2>1. Outstanding(u3) = Pending(s.probes)
    BY <1>7, OutstandingIsPending
  <2>2. (IF Len(u3.probes) = MaxProbes /\ 1 \in Outstanding(u3) THEN 1 ELSE 0)
           = Dropped(s.probes)
    BY <1>7, <2>1 DEF Dropped
  <2>3. (IF Len(u3.probes) = MaxProbes THEN Tail(u3.probes) ELSE u3.probes)
           = Trimmed(s.probes)
    BY <1>7 DEF Trimmed
  <2>4. push_row(u3, row) =
           [[u3 EXCEPT !.lost = u3.lost +
                IF Len(u3.probes) = MaxProbes /\ 1 \in Outstanding(u3)
                THEN 1 ELSE 0]
               EXCEPT !.probes =
                   Append(IF Len(u3.probes) = MaxProbes THEN Tail(u3.probes)
                          ELSE u3.probes, row)]
    BY DEF push_row
  <2> QED BY <2>2, <2>3, <2>4, Zenon DEF u4
<1> QED BY <1>5, <1>6, <1>8, Zenon DEF extra, row

\* A probe put on record keeps the session in order: its number is the next
\* one, and a row pushed out of the ring is counted as lost.
LEMMA RecordKeeps ==
    ASSUME NEW s, NEW total \in Nat, NEW paid, SessionOK(s, total, paid),
           s.emitted < s.requested, NEW old \in Nat,
           NEW state \in {"Pending", "NoRoute"}
    PROVE  SessionOK(RecordProbe(s, old, state), total, paid)
<1> DEFINE t == RecordProbe(s, old, state)
           n == s.serial + s.emitted
           row == [seqno |-> (s.first_seqno + s.emitted) % SeqMod,
                   state |-> state, ago |-> old, probe |-> n]
           ring == Trimmed(s.probes)
           new == Append(ring, row)
           extra == IF state = "NoRoute" THEN 1 ELSE 0
           here == IF state = "Pending" THEN 1 ELSE 0
<1>1. s \in SessionType /\ Numbered(s, total) /\ Tallied(s, paid)
  BY DEF SessionOK
<1>2. /\ s.emitted \in Nat /\ s.requested \in Nat /\ s.serial \in Nat
      /\ s.received \in Nat /\ s.lost \in Nat /\ s.probes \in Seq(RowType)
      /\ s.target \in Peer /\ s.first_seqno \in Nat /\ n \in Int
  BY <1>1 DEF SessionType
<1>3. row.seqno = n % SeqMod
  <2>1. s.first_seqno = s.serial % SeqMod
    BY <1>1 DEF Numbered
  <2>2. ((s.serial % SeqMod) + s.emitted) % SeqMod =
            (s.serial + s.emitted) % SeqMod
    <3>1. s.serial \in Int /\ s.emitted \in Int /\ SeqMod \in Nat /\ SeqMod > 0
      BY <1>2, PingAssumption
    <3> QED BY <3>1, AddModulo, Zenon
  <2> QED BY <2>1, <2>2
<1>4. row \in RowType
  <2>1. n % SeqMod \in Nat
    BY <1>2, PingAssumption
  <2> QED BY <1>2, <1>3, <2>1 DEF RowType
<1>5. row.probe = n /\ row.state = state
  OBVIOUS
<1> HIDE DEF row
<1>6. t = [target |-> s.target, requested |-> s.requested,
           emitted |-> s.emitted + 1, first_seqno |-> s.first_seqno,
           serial |-> s.serial, next_due |-> Interval - old,
           received |-> s.received,
           lost |-> s.lost + extra + Dropped(s.probes),
           probes |-> new]
  BY <1>1, RecordFields, Zenon DEF row
<1> HIDE DEF t
<1>7. RowsUpTo(s.probes, n)
  BY <1>1 DEF Numbered
<1> HIDE DEF n
<1>8. /\ ring \in Seq(RowType) /\ Len(ring) <= Len(s.probes)
      /\ RowsUpTo(ring, n)
      /\ Cardinality(Pending(s.probes)) =
            Cardinality(Pending(ring)) + Dropped(s.probes)
      /\ \A k \in Pending(ring) : \E j \in Pending(s.probes) :
            ring[k].probe = s.probes[j].probe
  BY <1>2, <1>7, TrimmedShape, Zenon
<1> HIDE DEF ring
<1>9. /\ new \in Seq(RowType) /\ Len(new) = Len(ring) + 1
      /\ RowsUpTo(new, n + 1)
      /\ Pending(new) = Pending(ring) \cup
                            IF row.state = "Pending" THEN {Len(ring) + 1}
                                ELSE {}
      /\ Cardinality(Pending(new)) = Cardinality(Pending(ring))
                            + IF row.state = "Pending" THEN 1 ELSE 0
      /\ \A k \in Pending(ring) : new[k] = ring[k]
      /\ new[Len(ring) + 1] = row
  <2>1. ring \in Seq(RowType) /\ n \in Int /\ RowsUpTo(ring, n)
    BY <1>2, <1>8
  <2>2. row \in RowType /\ row.probe = n /\ row.seqno = n % SeqMod
    BY <1>3, <1>4, <1>5
  <2>3. Extended(ring, row, n)
    BY <2>1, <2>2, AppendShape, Zenon
  <2> QED BY <2>3, Zenon DEF Extended
<1> HIDE DEF new
<1>10. Dropped(s.probes) \in {0, 1}
  BY DEF Dropped
<1>11. t \in SessionType
  <2>1. s.lost + extra + Dropped(s.probes) \in Nat /\ s.emitted + 1 \in Nat
        /\ Interval - old \in Int
    BY <1>2, <1>10, PingAssumption
  <2> HIDE DEF extra
  <2> QED BY <1>2, <1>6, <1>9, <2>1 DEF SessionType
<1>12. Numbered(t, total)
  <2>1. t.serial + t.emitted = n + 1
    BY <1>2, <1>6 DEF n
  <2>2. Len(ring) \in Nat /\ Len(s.probes) \in Nat
    BY <1>2, <1>8
  <2>3. /\ t.first_seqno = s.first_seqno /\ t.serial = s.serial
        /\ t.emitted = s.emitted + 1 /\ t.requested = s.requested
        /\ t.probes = new
    BY <1>6
  <2>4. Len(new) <= s.emitted + 1
    BY <1>1, <1>2, <1>8, <1>9, <2>2 DEF Numbered
  <2>5. RowsUpTo(new, n + 1)
    BY <1>9
  <2> QED BY <1>1, <1>2, <2>1, <2>3, <2>4, <2>5 DEF Numbered
<1>13. Uncredited(t, paid)
  <2>1. Uncredited(s, paid)
    BY <1>1 DEF Tallied
  <2>2. \A c \in paid : c[1] \in Int /\ c[1] = c[2] /\ c[1] < n
    BY <2>1 DEF Uncredited, n
  <2>3. t.probes = new /\ t.serial + t.emitted = n + 1
    BY <1>2, <1>6 DEF n
  <2>4. ASSUME NEW k \in Pending(new), NEW c \in paid
        PROVE  c[1] # new[k].probe
    <3>1. CASE k \in Pending(ring)
      <4>1. PICK j \in Pending(s.probes) : ring[k].probe = s.probes[j].probe
        BY <1>8, <3>1
      <4>2. c[1] # s.probes[j].probe
        BY <2>1 DEF Uncredited
      <4> QED BY <1>9, <3>1, <4>1, <4>2
    <3>2. CASE k \notin Pending(ring)
      <4>1. k = Len(ring) + 1
        BY <1>9, <3>2
      <4>2. new[k].probe = n
        BY <1>5, <1>9, <4>1
      <4> QED BY <1>2, <2>2, <4>2
    <3> QED BY <3>1, <3>2
  <2> QED BY <1>2, <2>2, <2>3, <2>4 DEF Uncredited
<1>14. t.emitted = t.received + t.lost + Cardinality(Pending(t.probes))
  <2>1. s.emitted = s.received + s.lost + Cardinality(Pending(s.probes))
    BY <1>1 DEF Tallied
  <2>2. Cardinality(Pending(ring)) \in Nat
    BY <1>8, PendingFinite, Zenon
  <2>3. Cardinality(Pending(new)) = Cardinality(Pending(ring)) + here
    BY <1>5, <1>9
  <2>4. extra + here = 1 /\ extra \in Nat /\ here \in Nat
    OBVIOUS
  <2>5. /\ t.probes = new /\ t.emitted = s.emitted + 1
        /\ t.received = s.received
        /\ t.lost = s.lost + extra + Dropped(s.probes)
    BY <1>6
  <2> HIDE DEF extra, here
  <2>6. Cardinality(Pending(s.probes)) =
           Cardinality(Pending(ring)) + Dropped(s.probes)
    BY <1>8
  <2>7. Dropped(s.probes) \in Int
    BY <1>10
  <2>8. s.emitted + 1 = s.received + (s.lost + extra + Dropped(s.probes))
                            + (Cardinality(Pending(ring)) + here)
    <3>1. s.emitted \in Int /\ s.received \in Int /\ s.lost \in Int
          /\ extra \in Int /\ here \in Int /\ extra + here = 1
          /\ Cardinality(Pending(ring)) \in Int
      BY <1>2, <2>2, <2>4
    <3> DEFINE e == s.emitted
               r == s.received
               l == s.lost
               d == Dropped(s.probes)
               c == Cardinality(Pending(ring))
    <3>2. e \in Int /\ r \in Int /\ l \in Int /\ d \in Int /\ c \in Int
          /\ e = r + l + (c + d)
      BY <3>1, <2>1, <2>6, <2>7, Zenon
    <3>3. extra + here = 1 /\ extra \in Int /\ here \in Int
      BY <3>1
    <3> HIDE DEF e, r, l, d, c
    <3>4. e + 1 = r + (l + extra + d) + (c + here)
      BY <3>2, <3>3
    <3> QED BY <3>4, Zenon DEF e, r, l, d, c
  <2> QED BY <2>3, <2>5, <2>8, Zenon
<1>15. Tallied(t, paid)
  BY <1>1, <1>6, <1>13, <1>14 DEF Tallied
<1> QED BY <1>11, <1>12, <1>15 DEF SessionOK, t

\* Within the numbers in use, a pending row and a reply of one number belong
\* to the same probe, so a reply matches one row at most.
LEMMA OneMatch ==
    ASSUME NEW s, NEW total \in Nat, NEW paid, SessionOK(s, total, paid),
           NEW r, ReplyOK(r, total), NEW k \in Matching(s, r), s # None
    PROVE  /\ Matching(s, r) = {k} /\ k \in Pending(s.probes)
           /\ s.probes[k].probe = r.probe
<1>1. s \in SessionType /\ Numbered(s, total)
  BY DEF SessionOK
<1>2. /\ s.serial \in Nat /\ s.emitted \in Nat /\ s.requested \in Nat
      /\ s.probes \in Seq(RowType) /\ Len(s.probes) \in Nat
  BY <1>1 DEF SessionType
<1>3. Matching(s, r) = {j \in Pending(s.probes) :
                           r.peer = s.target /\ s.probes[j].seqno = r.seqno}
  BY OutstandingIsPending DEF Matching
<1>4. ASSUME NEW j \in Matching(s, r)
      PROVE  s.probes[j].probe = r.probe
                 /\ j = r.probe - (s.serial + s.emitted)
                                                 + Len(s.probes) + 1
             /\ j \in Pending(s.probes)
  <2>1. j \in 1 .. Len(s.probes) /\ s.probes[j].seqno = r.seqno
        /\ j \in Pending(s.probes)
    BY <1>3 DEF Pending
  <2> DEFINE p == s.probes[j].probe
  <2>2. /\ p = (s.serial + s.emitted) - Len(s.probes) + j - 1
        /\ s.probes[j].seqno = p % SeqMod
    BY <1>1, <2>1 DEF Numbered, RowsUpTo
  <2> HIDE DEF p
  <2>3. p \in Int /\ p % SeqMod = r.probe % SeqMod /\ r.probe \in Int
    BY <1>2, <2>1, <2>2 DEF ReplyOK
  <2>4. s.serial <= p /\ p < s.serial + s.emitted
    BY <1>1, <1>2, <2>1, <2>2 DEF Numbered
  <2>5. SeqMod \in Nat /\ SeqMod > 0
    BY PingAssumption
  <2>6. p - r.probe < SeqMod /\ r.probe - p < SeqMod
    <3>1. total - SeqMod <= r.probe /\ r.probe < total
      BY DEF ReplyOK
    <3>2. total - SeqMod <= s.serial /\ s.serial + s.emitted <= total
      BY <1>1, <1>2 DEF Numbered
    <3> QED BY <1>2, <2>3, <2>4, <2>5, <3>1, <3>2
  <2>7. p = r.probe
    BY <2>3, <2>5, <2>6, SameModulo, Zenon
  <2>8. j = p - (s.serial + s.emitted) + Len(s.probes) + 1
    BY <1>2, <2>1, <2>2
  <2> QED BY <2>1, <2>7, <2>8 DEF p
<1>5. \A j \in Matching(s, r) : j = k
  BY <1>4
<1> QED BY <1>4, <1>5

\* A reply moves its row from outstanding to received, once.
LEMMA ReplyKeeps ==
    ASSUME NEW s, NEW total \in Nat, NEW paid, SessionOK(s, total, paid),
           s # None, NEW r, ReplyOK(r, total), Matching(s, r) # {}
    PROVE  SessionOK([Resolve(s, Matching(s, r), "Replied")
                         EXCEPT !.received = @ + 1],
                     total,
                     paid \cup {<<s.probes[k].probe, r.probe>> :
                                   k \in Matching(s, r)})
<1>1. PICK k \in Matching(s, r) : TRUE
  OBVIOUS
<1>2. /\ Matching(s, r) = {k} /\ k \in Pending(s.probes)
      /\ s.probes[k].probe = r.probe
  BY OneMatch, Zenon
<1> DEFINE ring == ResolvedRows(s.probes, {k}, "Replied")
           u == Resolve(s, {k}, "Replied")
           t == [u EXCEPT !.received = u.received + 1]
           c == <<r.probe, r.probe>>
           more == paid \cup {c}
<1>3. {<<s.probes[j].probe, r.probe>> : j \in Matching(s, r)} = {c}
  BY <1>2
<1>4. s \in SessionType /\ Numbered(s, total) /\ Tallied(s, paid)
  BY DEF SessionOK
<1>5. /\ s.probes \in Seq(RowType) /\ s.serial \in Nat /\ s.emitted \in Nat
      /\ s.received \in Nat /\ s.lost \in Nat /\ s.requested \in Nat
  BY <1>4 DEF SessionType
<1>6. {k} \in SUBSET Pending(s.probes)
  BY <1>2
<1>7. SameNumbers(s.probes, ring) /\ Pending(ring) = Pending(s.probes) \ {k}
  BY <1>5, <1>6, ResolvedShape
<1>8. u = [s EXCEPT !.probes = ring]
  BY <1>4, <1>6, ResolveFields, Zenon
<1> HIDE DEF ring, u
<1>9. u = [target |-> s.target, requested |-> s.requested,
           emitted |-> s.emitted, first_seqno |-> s.first_seqno,
           serial |-> s.serial, next_due |-> s.next_due,
           received |-> s.received, lost |-> s.lost, probes |-> ring]
  BY <1>4, <1>8 DEF SessionType
<1>10. t = [target |-> s.target, requested |-> s.requested,
            emitted |-> s.emitted, first_seqno |-> s.first_seqno,
            serial |-> s.serial, next_due |-> s.next_due,
            received |-> s.received + 1, lost |-> s.lost, probes |-> ring]
  BY <1>9
<1>11. t = [Resolve(s, Matching(s, r), "Replied") EXCEPT !.received = @ + 1]
  BY <1>2 DEF u
<1> HIDE DEF t
<1>12. /\ t.requested = s.requested /\ t.emitted = s.emitted
       /\ t.first_seqno = s.first_seqno /\ t.serial = s.serial
       /\ t.received = s.received + 1 /\ t.lost = s.lost /\ t.probes = ring
  BY <1>10
<1>13. ring \in Seq(RowType)
  BY <1>7, Zenon DEF SameNumbers
<1>14. t \in SessionType
  BY <1>4, <1>10, <1>13 DEF SessionType
<1>15. Numbered(t, total)
  <2>1. s.serial + s.emitted \in Int
    BY <1>5
  <2>2. RowsUpTo(ring, s.serial + s.emitted)
    BY <1>4, <1>5, <1>7, <2>1, NumbersKept DEF Numbered
  <2>3. Len(ring) = Len(s.probes)
    BY <1>7, Zenon DEF SameNumbers
  <2> QED BY <1>4, <1>12, <2>2, <2>3, Zenon DEF Numbered
<1>16. Uncredited(s, paid)
  BY <1>4 DEF Tallied
<1>17. r.probe \in Int /\ r.probe < s.serial + s.emitted
  <2>1. k \in 1 .. Len(s.probes) /\ Len(s.probes) \in Nat
    BY <1>2, <1>5 DEF Pending
  <2>2. s.probes[k].probe = (s.serial + s.emitted) - Len(s.probes) + k - 1
    BY <1>4, <2>1 DEF Numbered, RowsUpTo
  <2> QED BY <1>2, <1>5, <2>1, <2>2
<1>18. c \notin paid
  <2>1. \A d \in paid : d[1] # s.probes[k].probe
    BY <1>2, <1>16 DEF Uncredited
  <2>2. c[1] = r.probe
    OBVIOUS
  <2> HIDE DEF c
  <2> QED BY <1>2, <2>1, <2>2
<1>19. \A j \in Pending(ring) :
          /\ j \in Pending(s.probes) /\ j # k /\ j \in 1 .. Len(s.probes)
          /\ ring[j].probe = s.probes[j].probe
  BY <1>7 DEF SameNumbers, Pending
<1>20. Uncredited(t, more)
  <2>1. \A d \in more : d[1] \in Int /\ d[1] = d[2]
            /\ d[1] < t.serial + t.emitted
    BY <1>12, <1>16, <1>17 DEF Uncredited
  <2>2. ASSUME NEW j \in Pending(ring), NEW d \in more
        PROVE  d[1] # ring[j].probe
    <3>1. CASE d \in paid
      BY <1>16, <1>19, <3>1 DEF Uncredited
    <3>2. CASE d = c
      <4>1. s.probes[j].probe # s.probes[k].probe
        <5>1. j \in 1 .. Len(s.probes) /\ k \in 1 .. Len(s.probes) /\ j # k
              /\ Len(s.probes) \in Nat
          BY <1>2, <1>5, <1>19 DEF Pending
        <5>2. s.probes[k].probe =
                  (s.serial + s.emitted) - Len(s.probes) + k - 1
              /\ s.probes[j].probe =
                   (s.serial + s.emitted) - Len(s.probes) + j - 1
          BY <1>4, <5>1 DEF Numbered, RowsUpTo
        <5> QED BY <1>5, <5>1, <5>2
      <4> QED BY <1>2, <1>19, <3>2, <4>1
    <3> QED BY <3>1, <3>2
  <2> HIDE DEF more
  <2> QED BY <1>12, <2>1, <2>2 DEF Uncredited
<1>21. IsFiniteSet(more) /\ Cardinality(more) = Cardinality(paid) + 1
  <2>1. IsFiniteSet(paid)
    BY <1>4 DEF Tallied
  <2> HIDE DEF c
  <2> QED BY <1>18, <2>1, FS_AddElement, Zenon
<1>22. t.emitted = t.received + t.lost + Cardinality(Pending(t.probes))
  <2>1. IsFiniteSet(Pending(s.probes))
            /\ Cardinality(Pending(s.probes)) \in Nat
    BY <1>5, PendingFinite, Zenon
  <2>2. Cardinality(Pending(s.probes) \ {k}) =
            Cardinality(Pending(s.probes)) - 1
    BY <1>2, <2>1, FS_RemoveElement, Zenon
  <2>3. s.emitted = s.received + s.lost + Cardinality(Pending(s.probes))
    BY <1>4 DEF Tallied
  <2> DEFINE n == Cardinality(Pending(s.probes))
             e == s.emitted
             g == s.received
             l == s.lost
  <2>4. n \in Int /\ e \in Int /\ g \in Int /\ l \in Int /\ e = g + l + n
    BY <1>5, <2>1, <2>3
  <2> HIDE DEF n, e, g, l
  <2>5. e = (g + 1) + l + (n - 1)
    BY <2>4
  <2> QED BY <1>7, <1>12, <2>2, <2>5, Zenon DEF n, e, g, l
<1>23. Tallied(t, more)
  <2>1. s.received = Cardinality(paid)
    BY <1>4 DEF Tallied
  <2> HIDE DEF more
  <2> QED BY <1>12, <1>20, <1>21, <1>22, <2>1 DEF Tallied
<1>24. SessionOK(t, total, more)
  BY <1>14, <1>15, <1>23 DEF SessionOK
<1> QED BY <1>3, <1>11, <1>24, Zenon

\* The larger of two numbers.
LEMMA MaxOfTwo ==
    ASSUME NEW a \in Int, NEW b \in Int
    PROVE  Max({a, b}) = IF a >= b THEN a ELSE b
BY DEF Max

\* The ring a tick later.
AgedRows(ring) ==
    [k \in DOMAIN ring |-> IF k \in Pending(ring) THEN Older(ring[k])
        ELSE ring[k]]

\* Time changes no number and resolves nothing.
LEMMA AgedShape ==
    ASSUME NEW ring \in Seq(RowType)
    PROVE  /\ SameNumbers(ring, AgedRows(ring))
           /\ Pending(AgedRows(ring)) = Pending(ring)
<1> DEFINE new == AgedRows(ring)
<1>1. DOMAIN ring = 1 .. Len(ring) /\ Len(ring) \in Nat
  OBVIOUS
<1>2. \A k \in 1 .. Len(ring) : ring[k] \in RowType
  OBVIOUS
<1>3. \A k \in 1 .. Len(ring) :
         /\ new[k] \in RowType /\ new[k].probe = ring[k].probe
         /\ new[k].seqno = ring[k].seqno /\ new[k].state = ring[k].state
  <2> TAKE k \in 1 .. Len(ring)
  <2>1. ring[k] \in RowType /\ k \in DOMAIN ring
    BY <1>1, <1>2
  <2>2. new[k] = IF k \in Pending(ring) THEN Older(ring[k]) ELSE ring[k]
    BY <2>1 DEF AgedRows
  <2>3. (ring[k].ago + 1) % ClockMod \in Int
    BY <2>1, PingAssumption DEF RowType
  <2>4. Older(ring[k]) =
           [seqno |-> ring[k].seqno, state |-> ring[k].state,
            ago |-> (ring[k].ago + 1) % ClockMod, probe |-> ring[k].probe]
    BY <2>1 DEF Older, RowType
  <2> HIDE DEF new
  <2> QED BY <2>1, <2>2, <2>3, <2>4 DEF RowType
<1>4. new = [k \in 1 .. Len(ring) |-> new[k]]
  BY <1>1 DEF AgedRows
<1> HIDE DEF new
<1>5. new \in Seq(RowType) /\ Len(new) = Len(ring)
  BY <1>1, <1>3, <1>4
<1>6. SameNumbers(ring, new)
  BY <1>3, <1>5 DEF SameNumbers
<1>7. Pending(new) = Pending(ring)
  BY <1>3, <1>5 DEF Pending
<1> QED BY <1>6, <1>7 DEF new

\* Time changes no number and no state.
LEMMA TickKeeps ==
    ASSUME NEW s, NEW total \in Nat, NEW paid, SessionOK(s, total, paid)
    PROVE  SessionOK([s EXCEPT !.next_due = Earlier(s.next_due),
                               !.probes = AgedRows(s.probes)], total, paid)
<1> DEFINE ring == AgedRows(s.probes)
           u == [s EXCEPT !.next_due = Earlier(s.next_due)]
           t == [u EXCEPT !.probes = ring]
<1>1. s \in SessionType /\ Numbered(s, total) /\ Tallied(s, paid)
  BY DEF SessionOK
<1>2. s.probes \in Seq(RowType) /\ s.next_due \in Int
      /\ s.serial + s.emitted \in Int
  BY <1>1 DEF SessionType
<1>3. SameNumbers(s.probes, ring) /\ Pending(ring) = Pending(s.probes)
  BY <1>2, AgedShape
<1>4. Earlier(s.next_due) \in Int
  <2>1. s.next_due - 1 \in Int /\ -Overdue \in Int
    BY <1>2, PingAssumption
  <2> QED BY <2>1, MaxOfTwo DEF Earlier
<1> HIDE DEF ring
<1>5. u = [target |-> s.target, requested |-> s.requested,
           emitted |-> s.emitted, first_seqno |-> s.first_seqno,
           serial |-> s.serial, next_due |-> Earlier(s.next_due),
           received |-> s.received, lost |-> s.lost, probes |-> s.probes]
  BY <1>1 DEF SessionType
<1>6. t = [s EXCEPT !.next_due = Earlier(s.next_due), !.probes = ring]
  BY Zenon
<1> HIDE DEF u
<1>7. t = [target |-> s.target, requested |-> s.requested,
           emitted |-> s.emitted, first_seqno |-> s.first_seqno,
           serial |-> s.serial, next_due |-> Earlier(s.next_due),
           received |-> s.received, lost |-> s.lost, probes |-> ring]
  BY <1>5
<1> HIDE DEF t
<1>8. t \in SessionType
  BY <1>1, <1>3, <1>4, <1>7 DEF SessionType, SameNumbers
<1>9. /\ t.requested = s.requested /\ t.emitted = s.emitted
      /\ t.first_seqno = s.first_seqno /\ t.serial = s.serial
      /\ t.received = s.received /\ t.lost = s.lost /\ t.probes = ring
  BY <1>7
<1>10. Numbered(t, total)
  <2>1. RowsUpTo(ring, s.serial + s.emitted)
    BY <1>1, <1>2, <1>3, NumbersKept DEF Numbered
  <2>2. Len(ring) = Len(s.probes)
    BY <1>3, Zenon DEF SameNumbers
  <2> QED BY <1>1, <1>9, <2>1, <2>2, Zenon DEF Numbered
<1>11. Uncredited(t, paid)
  <2>1. Uncredited(s, paid)
    BY <1>1 DEF Tallied
  <2>2. \A k \in Pending(ring) : ring[k].probe = s.probes[k].probe
    BY <1>2, <1>3, PendingFinite DEF SameNumbers
  <2> QED BY <1>3, <1>9, <2>1, <2>2 DEF Uncredited
<1>12. Tallied(t, paid)
  BY <1>1, <1>3, <1>9, <1>11 DEF Tallied
<1> QED BY <1>6, <1>8, <1>10, <1>12, Zenon DEF SessionOK, ring

-----------------------------------------------------------------------------
(* The node's ping, step by step. *)

\* A client asks for a session: none of the replies still under way can
\* answer one of its probes.
LEMMA StartKeeps ==
    ASSUME PingInv, NEW peer \in Peer, NEW n \in Counts, start_ping(peer, n)
    PROVE  PingInv'
<1> DEFINE s == [target |-> peer, requested |-> n, emitted |-> 0,
                 first_seqno |-> next_probe_seqno, serial |-> issued,
                 next_due |-> -waited, received |-> 0, lost |-> 0,
                 probes |-> <<>>]
<1>1. /\ session' = s /\ issued' = issued + n /\ waited' = 0
      /\ next_probe_seqno' = (next_probe_seqno + n) % SeqMod
      /\ credits' = {c \in credits : c[1] # c[2]}
      /\ replies' = replies
      /\ \A r \in replies : issued + n - r.probe <= SeqMod
  BY DEF start_ping, NextTurn, Outlived
<1>2. /\ n \in Nat /\ 1 <= n /\ n <= SeqMod /\ SeqMod \in Nat /\ SeqMod > 0
      /\ issued \in Nat /\ waited \in Nat /\ next_probe_seqno = issued % SeqMod
  BY PingAssumption DEF PingInv
<1>3. next_probe_seqno' = issued' % SeqMod
  <2>1. issued \in Int /\ n \in Int
    BY <1>2
  <2>2. ((issued % SeqMod) + n) % SeqMod = (issued + n) % SeqMod
    BY <1>2, <2>1, AddModulo, Zenon
  <2> QED BY <1>1, <1>2, <2>2, Zenon
<1>4. credits' = {}
  <2>1. \A c \in credits : c[1] = c[2]
    BY DEF PingInv, SessionOK, Tallied, Uncredited
  <2> QED BY <1>1, <2>1
<1>5. \A r \in replies' : ReplyOK(r, issued')
  BY <1>1, <1>2 DEF PingInv, ReplyOK
<1>6. s \in SessionType
  <2>1. issued % SeqMod \in Nat /\ -waited \in Int
    BY <1>2
  <2>2. <<>> \in Seq(RowType)
    OBVIOUS
  <2> QED BY <1>2, <2>1, <2>2 DEF SessionType
<1>7. /\ s.requested = n /\ s.emitted = 0 /\ s.first_seqno = issued % SeqMod
      /\ s.serial = issued /\ s.received = 0 /\ s.lost = 0 /\ s.probes = <<>>
  BY <1>2
<1>8. Pending(<<>>) = {} /\ RowsUpTo(<<>>, issued + 0) /\ Len(<<>>) = 0
  BY DEF Pending, RowsUpTo
<1> HIDE DEF s
<1>9. Numbered(s, issued + n)
  BY <1>2, <1>7, <1>8 DEF Numbered
<1>10. Tallied(s, {})
  <2>1. Cardinality({}) = 0 /\ IsFiniteSet({})
    BY FS_EmptySet
  <2>2. Uncredited(s, {})
    BY <1>7, <1>8 DEF Uncredited
  <2>3. Cardinality(Pending(s.probes)) = 0
    BY <1>7, <1>8, <2>1, Zenon
  <2>4. s.received = Cardinality({})
    BY <1>7, <2>1, Zenon
  <2>5. s.emitted = s.received + s.lost + Cardinality(Pending(s.probes))
    BY <1>7, <2>3
  <2> QED BY <2>1, <2>2, <2>4, <2>5, Zenon DEF Tallied
<1>11. SessionOK(session', issued', credits')
  BY <1>1, <1>4, <1>6, <1>9, <1>10, Zenon DEF SessionOK
<1>12. issued' \in Nat /\ waited' \in Nat
  BY <1>1, <1>2
<1> QED BY <1>3, <1>4, <1>5, <1>11, <1>12 DEF PingInv

\* A client cancels the session.
LEMMA CancelStepKeeps ==
    ASSUME PingInv, cancel_ping
    PROVE  PingInv'
<1>1. /\ session # None /\ session' = cancel(session) /\ waited' = 0
      /\ UNCHANGED <<next_probe_seqno, issued, replies, credits>>
  BY DEF cancel_ping, NextTurn
<1>2. SessionOK(session, issued, credits) /\ issued \in Nat
  BY <1>1 DEF PingInv
<1>3. SessionOK(session', issued, credits)
  BY <1>1, <1>2, CancelKeeps, Zenon
<1>4. issued' = issued /\ credits' = credits
  BY <1>1
<1>5. SessionOK(session', issued', credits')
  BY <1>3, <1>4, Zenon
<1> QED BY <1>1, <1>5 DEF PingInv

\* The client reads the session, which sends a probe that is due.
LEMMA PollStepKeeps ==
    ASSUME PingInv, poll_ping
    PROVE  PingInv'
<1> DEFINE old == IF host THEN 0 ELSE waited
           s == expire(session, old)
           sends == IsDue(s, old)
<1>1. waited' = 0 /\ UNCHANGED <<next_probe_seqno, issued, credits>>
  BY DEF poll_ping, NextTurn
<1>2. issued \in Nat /\ waited \in Nat /\ \A r \in replies : ReplyOK(r, issued)
  BY DEF PingInv
<1>3. CASE session = None /\ UNCHANGED <<session, replies>>
  <2>1. UNCHANGED <<session, replies, next_probe_seqno, issued, credits>>
    BY <1>1, <1>3
  <2> QED BY <1>1, <2>1 DEF PingInv
<1>4. CASE /\ session # None
           /\ session' = IF ~sends THEN s
                         ELSE RecordProbe(s, old, IF able THEN "Pending"
                                                  ELSE "NoRoute")
           /\ replies' = replies \cup IF sends /\ able THEN {ReplyTo(s)}
                ELSE {}
  <2>1. SessionOK(session, issued, credits)
    BY <1>4 DEF PingInv
  <2>2. SessionOK(s, issued, credits)
    BY <1>2, <2>1, ExpireKeeps
  <2>3. old \in Nat
    BY <1>2
  <2> HIDE DEF s, old
  <2>4. SessionOK(session', issued, credits)
    <3>1. CASE ~sends
      BY <1>4, <2>2, <3>1
    <3>2. CASE sends
      <4>1. s.emitted < s.requested
        BY <3>2 DEF IsDue
      <4>2. (IF able THEN "Pending" ELSE "NoRoute") \in {"Pending", "NoRoute"}
        OBVIOUS
      <4> HIDE DEF sends
      <4> QED BY <1>2, <1>4, <2>2, <2>3, <3>2, <4>1, <4>2, RecordKeeps, Zenon
    <3> QED BY <3>1, <3>2
  <2>5. ASSUME sends PROVE ReplyOK(ReplyTo(s), issued)
    <3>1. s \in SessionType /\ Numbered(s, issued)
      BY <2>2 DEF SessionOK
    <3>2. s.serial \in Nat /\ s.emitted \in Nat /\ s.requested \in Nat
      BY <3>1 DEF SessionType
    <3>3. SeqMod \in Nat /\ SeqMod > 0
      BY PingAssumption
    <3>4. /\ s.first_seqno = s.serial % SeqMod
          /\ s.serial + s.requested <= issued /\ issued - SeqMod <= s.serial
          /\ s.emitted < s.requested
      BY <2>5, <3>1 DEF Numbered, IsDue
    <3>5. ((s.serial % SeqMod) + s.emitted) % SeqMod =
              (s.serial + s.emitted) % SeqMod
      <4>1. s.serial \in Int /\ s.emitted \in Int
        BY <3>2
      <4> QED BY <3>3, <4>1, AddModulo, Zenon
    <3>6. /\ ReplyTo(s).probe = s.serial + s.emitted
          /\ ReplyTo(s).seqno = (s.serial + s.emitted) % SeqMod
      BY <3>4, <3>5 DEF ReplyTo
    <3>7. /\ s.serial + s.emitted \in Int /\ s.serial + s.emitted < issued
          /\ issued - SeqMod <= s.serial + s.emitted
      BY <1>2, <3>2, <3>3, <3>4
    <3> QED BY <3>6, <3>7 DEF ReplyOK
  <2>6. \A r \in replies' : ReplyOK(r, issued)
    BY <1>2, <1>4, <2>5
  <2>7. SessionOK(session', issued', credits') /\ issued' = issued
    BY <1>1, <2>4, Zenon
  <2> QED BY <1>1, <2>6, <2>7 DEF PingInv
<1> QED BY <1>3, <1>4, Zenon DEF poll_ping

\* A reply arrives: late, twice, or for a session that is over.
LEMMA ReplyStepKeeps ==
    ASSUME PingInv, NEW r \in replies, NEW copies \in BOOLEAN,
           record_reply(r, copies)
    PROVE  PingInv'
<1> DEFINE M == Matching(session, r)
<1>1. waited' = 0 /\ UNCHANGED <<next_probe_seqno, issued>>
      /\ replies' \subseteq replies
  BY DEF record_reply, NextTurn
<1>2. /\ session' = IF M = {} THEN session
                    ELSE [Resolve(session, M, "Replied") EXCEPT !.received =
                        @ + 1]
      /\ credits' = credits
           \cup {<<session.probes[k].probe, r.probe>> : k \in M}
  BY Zenon DEF record_reply
<1>3. issued \in Nat /\ ReplyOK(r, issued)
  BY DEF PingInv
<1>4. CASE M = {}
  <2>1. {<<session.probes[k].probe, r.probe>> : k \in M} = {}
    BY <1>4, Zenon
  <2>2. session' = session /\ credits' = credits
    BY <1>2, <1>4, <2>1
  <2> QED BY <1>1, <2>2 DEF PingInv
<1>5. CASE M # {}
  <2>1. session # None
    BY <1>5, Zenon DEF Matching
  <2>2. SessionOK(session, issued, credits)
    BY <2>1 DEF PingInv
  <2>3. SessionOK(session', issued, credits')
    <3>1. SessionOK([Resolve(session, Matching(session, r), "Replied")
                        EXCEPT !.received = @ + 1],
                    issued,
                    credits \cup {<<session.probes[k].probe, r.probe>> :
                                     k \in Matching(session, r)})
      BY <1>3, <1>5, <2>1, <2>2, ReplyKeeps
    <3>2. session' = [Resolve(session, Matching(session, r), "Replied")
                         EXCEPT !.received = @ + 1]
      BY <1>2, <1>5
    <3> QED BY <1>2, <3>1, <3>2, Zenon
  <2>4. SessionOK(session', issued', credits')
    BY <1>1, <2>3
  <2> QED BY <1>1, <2>4 DEF PingInv
<1> QED BY <1>4, <1>5

\* Time passes.
LEMMA TickStepKeeps ==
    ASSUME PingInv, PingTick
    PROVE  PingInv'
<1>1. /\ waited' = waited + 1
      /\ UNCHANGED <<next_probe_seqno, issued, replies, credits>>
  BY DEF PingTick
<1>2. CASE session = None
  <2>1. session' = None
    BY <1>2 DEF PingTick
  <2>2. session' = session
    BY <1>2, <2>1
  <2> QED BY <1>1, <2>2 DEF PingInv
<1>3. CASE session # None
  <2>1. SessionOK(session, issued, credits) /\ issued \in Nat
    BY <1>3 DEF PingInv
  <2>2. session' = [session EXCEPT !.next_due = Earlier(session.next_due),
                                   !.probes = AgedRows(session.probes)]
    BY <1>3, OutstandingIsPending, Zenon DEF PingTick, AgedRows
  <2>3. SessionOK(session', issued, credits)
    BY <2>1, <2>2, TickKeeps, Zenon
  <2>4. SessionOK(session', issued', credits')
    BY <1>1, <2>3
  <2> QED BY <1>1, <2>4 DEF PingInv
<1> QED BY <1>2, <1>3

\* Every step keeps the invariant.
LEMMA PingStepKeeps ==
    ASSUME PingInv, [PingNext]_pingVars
    PROVE  PingInv'
<1>1. CASE \E peer \in Peer, n \in Counts : start_ping(peer, n)
  BY <1>1, StartKeeps
<1>2. CASE cancel_ping
  BY <1>2, CancelStepKeeps
<1>3. CASE poll_ping
  BY <1>3, PollStepKeeps
<1>4. CASE OtherTurn
  BY <1>4 DEF OtherTurn, NextTurn, PingInv
<1>5. CASE PingTick
  BY <1>5, TickStepKeeps
<1>6. CASE Reroute
  BY <1>6 DEF Reroute, PingInv
<1>7. ASSUME NEW r \in replies, LoseReply(r) PROVE PingInv'
  BY <1>7 DEF LoseReply, PingInv
<1>8. ASSUME NEW r \in replies, NEW copies \in BOOLEAN, record_reply(r, copies)
      PROVE  PingInv'
  BY <1>8, ReplyStepKeeps
<1>9. CASE UNCHANGED pingVars
  BY <1>9 DEF pingVars, PingInv
<1> QED BY <1>1, <1>2, <1>3, <1>4, <1>5, <1>6, <1>7, <1>8, <1>9 DEF PingNext

\* For any counts, ranges and timings: a reply is credited to the probe it
\* answers and to no other, once, though sequence numbers wrap and replies of
\* earlier sessions are still under way; and the tallies of a session add up
\* (`PingSession::record_reply`, `record_sent`, `expire`).
THEOREM RepliesCredited == PingSpec => []CreditedRight
<1>1. PingInit => PingInv
  <2> SUFFICES ASSUME PingInit PROVE PingInv
    OBVIOUS
  <2>1. 0 % SeqMod = 0
    BY PingAssumption
  <2> QED BY <2>1 DEF PingInit, PingInv
<1>2. PingInv /\ [PingNext]_pingVars => PingInv'
  BY PingStepKeeps
<1>3. PingInv => CreditedRight
  <2> SUFFICES ASSUME PingInv PROVE CreditedRight
    OBVIOUS
  <2>1. CASE session = None /\ credits = {}
    BY <2>1 DEF CreditedRight
  <2>2. CASE SessionOK(session, issued, credits)
    <3>1. Outstanding(session) = Pending(session.probes)
      BY OutstandingIsPending
    <3> QED BY <2>2, <3>1 DEF SessionOK, Tallied, Uncredited, CreditedRight
  <2> QED BY <2>1, <2>2 DEF PingInv
<1> QED BY <1>1, <1>2, <1>3, PTL DEF PingSpec
=============================================================================
