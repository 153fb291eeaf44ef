--------------------------- MODULE CertAuthority ---------------------------
(***************************************************************************)
(* The certificate authority of a mesh and the node it runs on.            *)
(*                                                                         *)
(* The authority task serves one request at a time: an enrollment request, *)
(* an operator's approval or denial, a renewal that came over the mesh, a  *)
(* revocation, a change of policy.  Everything it knows is in its log (the *)
(* certificates issued, the requests held, the revocations signed, the     *)
(* policy), and each request writes it in one commit.  A commit that fails *)
(* leaves the log as it was (module CaLog), so a failed request is a step  *)
(* that changes nothing.                                                   *)
(*                                                                         *)
(* A signed revocation is handed to the router, which enforces it and      *)
(* floods it.  The router keeps it in memory only.  The process can die    *)
(* between the commit and the hand-over; a restart floods again what is on *)
(* file.                                                                   *)
(*                                                                         *)
(* An address is derived from the key it belongs to                        *)
(* (check_mac_derives_from), so a member of Node is both.                  *)
(***************************************************************************)
EXTENDS Option, Naturals, FiniteSets

CONSTANTS
    Node,           \* addresses that enroll
    CertTtl,        \* cert_ttl_secs the authority starts with
    PolicyTtls,     \* values an operator gives cert_ttl_secs
    ApprovalTtls,   \* lifetimes an operator picks when approving
    PendingTtl,     \* pending_ttl_secs
    MaxHeldCsrs,    \* MAX_HELD_CSRS
    MaxTime         \* bound: the clock stops here

Cert == [not_before : 1 .. MaxTime, not_after : Nat]

Revocation == [node : Node, not_before : 1 .. MaxTime, not_after : Nat]

Holding == [cert : Cert, revoked : BOOLEAN]

ASSUME AuthorityAssumption ==
    /\ IsFiniteSet(Node)
    /\ CertTtl \in Nat /\ PolicyTtls \subseteq Nat /\ ApprovalTtls \subseteq Nat
    /\ PendingTtl \in Nat /\ MaxHeldCsrs \in Nat /\ MaxTime \in Nat \ {0}
    /\ None \notin Cert /\ None \notin Revocation /\ None \notin Holding

VARIABLES
    now,            \* true time, in unix ticks; 0 is no time
    trusted,        \* the host clock is disciplined
    issued,         \* log: the last certificate issued to each address
    held,           \* log: the request held for each address
    revocations,    \* log: signed revocations on file
    auto_approve, cert_ttl_secs,   \* log: the policy in force
    serving,        \* the start-up re-flood is done
    signed,         \* a revocation committed and not yet handed over
    known,          \* the router's revocation for each address
    longest         \* ghost: latest not_after signed for each address

log == <<issued, held, revocations, auto_approve, cert_ttl_secs>>

vars == <<now, trusted, log, serving, signed, known, longest>>

\* Clock::now_unix: an undisciplined clock is no clock.
now_unix == IF trusted THEN now ELSE 0

\* Requests that sign are refused without a clock; the task serves the next
\* request once the router has answered for the last revocation.
Ready == serving /\ signed = None /\ now_unix # 0

----------------------------------------------------------------------------
(* Issuing.                                                                *)

sign(ttl) == [not_before |-> now, not_after |-> now + ttl]

Record(n, ttl) ==
    /\ issued' = [issued EXCEPT ![n] = [cert |-> sign(ttl), revoked |-> FALSE]]
    /\ longest' = [longest EXCEPT ![n] = IF now + ttl > @ THEN now + ttl ELSE @]

live_holder(n) == issued[n] # None /\ now <= issued[n].cert.not_after

held_ttl(n) == issued[n].cert.not_after - issued[n].cert.not_before

InGoodStanding(n) == live_holder(n) /\ ~issued[n].revoked

evict_expired ==
    [n \in Node |-> IF /\ held[n] # None /\ now_unix # 0
                       /\ now - held[n].at > PendingTtl
                    THEN None
                    ELSE held[n]]

HeldCount(h) == Cardinality({n \in Node : h[n] # None})

Hold(status, cert) == [status |-> status, at |-> now_unix, cert |-> cert]

\* Mutant: auto_approve signs for a revoked holder too.
AutoApprovesAll(n) == auto_approve

AutoApproves(n) == auto_approve /\ ~(live_holder(n) /\ issued[n].revoked)

\* submit_csr when it signs on the spot: a holder in good standing gets the
\* lifetime its record carries, a newcomer the default under auto_approve.
submit_csr_signed(n) ==
    /\ Ready
    /\ held' = evict_expired
    /\ \/ /\ InGoodStanding(n)
          /\ Record(n, held_ttl(n))
       \/ /\ ~InGoodStanding(n) /\ AutoApproves(n)
          /\ Record(n, cert_ttl_secs)
    /\ UNCHANGED <<now, trusted, revocations, auto_approve, cert_ttl_secs,
                   serving, signed, known>>

\* submit_csr when approval is needed: the request is held, unless one is
\* held already (its disposition is the answer) or the store is full.
submit_csr_held(n) ==
    /\ Ready
    /\ ~InGoodStanding(n)
    /\ ~AutoApproves(n)
    /\ held' = IF evict_expired[n] = None /\ HeldCount(evict_expired) < MaxHeldCsrs
               THEN [evict_expired EXCEPT ![n] = Hold("Pending", None)]
               ELSE evict_expired
    /\ UNCHANGED <<now, trusted, issued, revocations, auto_approve,
                   cert_ttl_secs, serving, signed, known, longest>>

\* A request refused for its token, or whose second commit fails, still has
\* evicted what had expired.
EvictOnly ==
    /\ Ready
    /\ held' = evict_expired
    /\ UNCHANGED <<now, trusted, issued, revocations, auto_approve,
                   cert_ttl_secs, serving, signed, known, longest>>

approve_csr(n, ttl) ==
    /\ Ready
    /\ evict_expired[n] # None
    /\ evict_expired[n].status = "Pending"
    /\ held' = [evict_expired EXCEPT ![n] = Hold("Approved", sign(ttl))]
    /\ Record(n, ttl)
    /\ UNCHANGED <<now, trusted, revocations, auto_approve, cert_ttl_secs,
                   serving, signed, known>>

\* deny_csr signs nothing and needs no clock: denied without one, the entry
\* is stamped 0 and is evicted as soon as there is one.
deny_csr(n) ==
    /\ serving /\ signed = None
    /\ evict_expired[n] # None
    /\ evict_expired[n].status = "Pending"
    /\ held' = [evict_expired EXCEPT ![n] = Hold("Denied", None)]
    /\ UNCHANGED <<now, trusted, issued, revocations, auto_approve,
                   cert_ttl_secs, serving, signed, known, longest>>

renew_holder(n) ==
    /\ Ready
    /\ InGoodStanding(n)
    /\ Record(n, held_ttl(n))
    /\ UNCHANGED <<now, trusted, held, revocations, auto_approve,
                   cert_ttl_secs, serving, signed, known>>

\* set_enrollment_policy needs no clock.
set_enrollment_policy(auto, ttl) ==
    /\ serving /\ signed = None
    /\ auto_approve' = auto
    /\ cert_ttl_secs' = ttl
    /\ UNCHANGED <<now, trusted, issued, held, revocations, serving, signed,
                   known, longest>>

----------------------------------------------------------------------------
(* Revoking.                                                               *)

record_revocations(r) ==
    {q \in revocations : q.not_after > now_unix} \cup {r}

\* Mutant: the signed record is not kept.
RevokeUnfiled(n) ==
    LET r == [node |-> n, not_before |-> now, not_after |-> now + cert_ttl_secs]
    IN  /\ Ready
        /\ signed' = r
        /\ issued' = IF issued[n] = None THEN issued
                     ELSE [issued EXCEPT ![n].revoked = TRUE]
        /\ UNCHANGED <<now, trusted, held, revocations, auto_approve,
                       cert_ttl_secs, serving, known, longest>>

\* The record's window is the authority's lifetime from now on; the row is
\* flagged and the record filed in one commit.
revoke(n) ==
    LET r == [node |-> n, not_before |-> now, not_after |-> now + cert_ttl_secs]
    IN  /\ Ready
        /\ signed' = r
        /\ revocations' = record_revocations(r)
        /\ issued' = IF issued[n] = None THEN issued
                     ELSE [issued EXCEPT ![n].revoked = TRUE]
        /\ UNCHANGED <<now, trusted, held, auto_approve, cert_ttl_secs,
                       serving, known, longest>>

\* OgmAuth::ingest_revocation: one slot per address, the later instant wins.
ingest(slots, r) ==
    IF \/ r.not_after <= now_unix
       \/ slots[r.node] # None /\ r.not_before <= slots[r.node].not_before
    THEN slots
    ELSE [slots EXCEPT ![r.node] = r]

\* flood_one: the router folds the record in and answers.
flood_revocations ==
    /\ signed # None
    /\ known' = ingest(known, signed)
    /\ signed' = None
    /\ UNCHANGED <<now, trusted, log, serving, longest>>

live_revocations == {r \in revocations : r.not_after > now_unix}

\* Mutant: a restarted authority floods nothing again.
RefloodNothing ==
    [n \in Node |-> None]

\* The slots of a router with none, once every live record was ingested in
\* turn under one lock: each address is left with its latest.
reflood_revocations ==
    [n \in Node |->
        LET mine == {r \in live_revocations : r.node = n}
        IN  IF mine = {} THEN None
            ELSE CHOOSE r \in mine : \A q \in mine : q.not_before <= r.not_before]

\* Start-up, before the first request is served.
Start ==
    /\ ~serving
    /\ known' = reflood_revocations
    /\ serving' = TRUE
    /\ UNCHANGED <<now, trusted, log, signed, longest>>

\* The process dies and is started again: the log is what is left.
Crash ==
    /\ serving
    /\ serving' = FALSE
    /\ signed' = None
    /\ known' = [n \in Node |-> None]
    /\ UNCHANGED <<now, trusted, log, longest>>

----------------------------------------------------------------------------
Tick ==
    /\ now < MaxTime
    /\ now' = now + 1
    /\ UNCHANGED <<trusted, log, serving, signed, known, longest>>

\* The time daemon loses or regains its source.
ClockTrustChanges ==
    /\ trusted' = ~trusted
    /\ UNCHANGED <<now, log, serving, signed, known, longest>>

Init ==
    /\ now = 1
    /\ trusted = TRUE
    /\ issued = [n \in Node |-> None]
    /\ held = [n \in Node |-> None]
    /\ revocations = {}
    /\ auto_approve \in BOOLEAN
    /\ cert_ttl_secs = CertTtl
    /\ serving = FALSE
    /\ signed = None
    /\ known = [n \in Node |-> None]
    /\ longest = [n \in Node |-> 0]

Next ==
    \/ \E n \in Node :
        \/ submit_csr_signed(n) \/ submit_csr_held(n)
        \/ \E ttl \in ApprovalTtls \cup {cert_ttl_secs} : approve_csr(n, ttl)
        \/ deny_csr(n) \/ renew_holder(n) \/ revoke(n)
    \/ EvictOnly
    \/ \E auto \in BOOLEAN, ttl \in PolicyTtls : set_enrollment_policy(auto, ttl)
    \/ flood_revocations \/ Start \/ Crash
    \/ Tick \/ ClockTrustChanges

Spec == Init /\ [][Next]_vars

----------------------------------------------------------------------------
(* Properties.                                                             *)

TypeOK ==
    /\ now \in 1 .. MaxTime
    /\ trusted \in BOOLEAN /\ auto_approve \in BOOLEAN /\ serving \in BOOLEAN
    /\ cert_ttl_secs \in PolicyTtls \cup {CertTtl}
    /\ \A n \in Node :
        /\ issued[n] # None => issued[n] \in Holding
        /\ known[n] # None => known[n] \in Revocation /\ known[n].node = n
        /\ held[n] # None =>
            /\ held[n].status \in {"Pending", "Approved", "Denied"}
            /\ held[n].at \in 0 .. now
            /\ held[n].cert \in Cert <=> held[n].status = "Approved"
    /\ HeldCount(held) <= MaxHeldCsrs
    /\ revocations \subseteq Revocation
    /\ signed # None => signed \in revocations

\* While a certificate the operator revoked could still be used, a signed
\* revocation that cancels it is on file and in force: the record outlives
\* every certificate issued to the node before it (`revoke`:
\* "The revocation must outlive any cert we issued for the node").
StaysRevoked ==
    \A n \in Node :
        issued[n] # None /\ issued[n].revoked /\ now < longest[n] =>
            \E r \in revocations :
                /\ r.node = n
                /\ issued[n].cert.not_before <= r.not_before
                /\ now < r.not_after

\* When no revocation is being handed over, the router enforces every one
\* on file that is in force, restarts included: one signed just before a
\* crash is flooded by the next start (`reflood_revocations`).
Announced ==
    serving /\ signed = None =>
        \A r \in revocations :
            now < r.not_after =>
                /\ known[r.node] # None
                /\ r.not_before <= known[r.node].not_before
                /\ r.not_after <= known[r.node].not_after

\* An approved request has its certificate in the issued log: the two are
\* written together, so a cert a node can collect is one the operator can
\* see and revoke (`mutate_issued_and_held`).
ApprovedOnRecord ==
    \A n \in Node :
        held[n] # None /\ held[n].status = "Approved" =>
            /\ issued[n] # None
            /\ held[n].cert.not_before <= issued[n].cert.not_before

\* A node revoked while its certificate lasts comes back only by an operator
\* approving a request that was pending; neither auto_approve, nor asking
\* again, nor renewing over the mesh clears the revocation (`submit_csr`,
\* `renew_holder`).
ReadmittedByApproval ==
    [][\A n \in Node :
        live_holder(n) /\ issued[n].revoked /\ ~issued'[n].revoked =>
            /\ held[n] # None /\ held[n].status = "Pending"
            /\ held'[n].status = "Approved"]_vars
=============================================================================
