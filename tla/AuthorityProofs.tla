-------------------------- MODULE AuthorityProofs ---------------------------
(***************************************************************************)
(* What a certificate authority answers for: the certificates it issues    *)
(* (CertAuthority), the accounts of its administrators (UserAccounts) and  *)
(* the database its log is kept in (CaLog), for any number of nodes,       *)
(* names, keys and records, any lifetimes and any clock.                   *)
(*                                                                         *)
(* The database's invariant says what memory is worth in each phase:       *)
(* between requests the view is the records, while one is written it is    *)
(* one request away from them, and after a crash the table alone counts.   *)
(***************************************************************************)
EXTENDS CertAuthority, UserAccounts, CaLog, FiniteSetTheorems,
        WellFoundedInduction, TLAPS

-----------------------------------------------------------------------------
(* Certificates and accounts.                                              *)

\* The tables are functions on Node, and no time lies ahead.
Tables ==
    /\ now \in 1 .. MaxTime /\ trusted \in BOOLEAN
    /\ issued = [n \in Node |-> issued[n]]
    /\ held = [n \in Node |-> held[n]]
    /\ longest \in [Node -> Nat]
    /\ cert_ttl_secs \in Nat

\* A certificate on record was issued by now and does not end before it
\* begins.
Dated ==
    \A n \in Node : issued[n] # None =>
        /\ issued[n] \in Holding
        /\ issued[n].cert.not_before <= now
        /\ issued[n].cert.not_before <= issued[n].cert.not_after

\* An approved request holds a certificate.
Collectible ==
    \A n \in Node : held[n] # None /\ held[n].status = "Approved" =>
        held[n].cert \in Cert

IInv == Tables /\ Dated /\ Collectible /\ ApprovedOnRecord

----------------------------------------------------------------------------
(* What a step does to the issued log.                                     *)

LogKept(n) == issued'[n] = issued[n] /\ longest'[n] = longest[n]

Flagged(n) ==
    /\ issued[n] # None
    /\ issued'[n] = [issued[n] EXCEPT !.revoked = TRUE]
    /\ longest'[n] = longest[n]

Reissued(n, ttl) ==
    /\ issued'[n] = [cert |-> sign(ttl), revoked |-> FALSE]
    /\ longest'[n] = IF now + ttl > longest[n] THEN now + ttl ELSE longest[n]

\* The lifetimes a step can give a certificate: one the operator picks, the
\* policy's, or the one the holder has.
Lifetime(n, ttl) ==
    \/ ttl \in ApprovalTtls \cup {cert_ttl_secs}
    \/ issued[n] # None /\ ttl = held_ttl(n)

IssuedStep(n) ==
    \/ LogKept(n)
    \/ Flagged(n)
    \/ \E ttl : Lifetime(n, ttl) /\ Reissued(n, ttl)

\* Record writes one row.
LEMMA RecordStep ==
  ASSUME Tables, NEW n \in Node, NEW ttl, Record(n, ttl)
  PROVE  Reissued(n, ttl) /\ \A m \in Node \ {n} : LogKept(m)
BY Zenon DEF Tables, Record, Reissued, LogKept

\* Every row is left alone, flagged, or written afresh.
LEMMA IssuedSteps ==
  ASSUME Tables, Next
  PROVE  \A m \in Node : IssuedStep(m)
<1> SUFFICES ASSUME NEW m \in Node PROVE IssuedStep(m)
  BY Zenon
<1>1. ASSUME NEW n \in Node, submit_csr_signed(n) PROVE IssuedStep(m)
  <2>1. PICK ttl : Record(n, ttl) /\ Lifetime(n, ttl)
    BY <1>1, Zenon
       DEF submit_csr_signed, Lifetime, InGoodStanding, live_holder
  <2> QED BY <2>1, RecordStep, Zenon DEF IssuedStep
<1>2. ASSUME NEW n \in Node, NEW ttl \in ApprovalTtls \cup {cert_ttl_secs},
             approve_csr(n, ttl)
      PROVE  IssuedStep(m)
  <2>1. Record(n, ttl) /\ Lifetime(n, ttl)
    BY <1>2, Zenon DEF approve_csr, Lifetime
  <2> QED BY <2>1, RecordStep, Zenon DEF IssuedStep
<1>3. ASSUME NEW n \in Node, renew_holder(n) PROVE IssuedStep(m)
  <2>1. Record(n, held_ttl(n)) /\ Lifetime(n, held_ttl(n))
    BY <1>3, Zenon DEF renew_holder, Lifetime, InGoodStanding, live_holder
  <2> QED BY <2>1, RecordStep, Zenon DEF IssuedStep
<1>4. ASSUME NEW n \in Node, revoke(n) PROVE IssuedStep(m)
  BY <1>4, Zenon DEF revoke, IssuedStep, LogKept, Flagged, Tables
<1>5. CASE UNCHANGED <<issued, longest>>
  BY <1>5, Zenon DEF IssuedStep, LogKept
<1> QED
  BY <1>1, <1>2, <1>3, <1>4, <1>5, Zenon
  DEF Next, submit_csr_held, deny_csr, EvictOnly, set_enrollment_policy,
      flood_revocations, Start, Crash, Tick, ClockTrustChanges, log

----------------------------------------------------------------------------
(* What a step does to the held requests.                                  *)

HeldStep(n) ==
    \/ held'[n] \in {None, held[n]}
    \/ held'[n].status # "Approved"
    \/ \E ttl : /\ held'[n] = Hold("Approved", sign(ttl))
                /\ Lifetime(n, ttl) /\ Reissued(n, ttl)

\* Evicting only takes held requests away.
LEMMA EvictKeeps ==
  /\ evict_expired = [n \in Node |-> evict_expired[n]]
  /\ \A n \in Node : evict_expired[n] \in {None, held[n]}
BY Zenon DEF evict_expired

\* Every held request is left alone, dropped, unapproved, or approved
\* together with a new row.
LEMMA HeldSteps ==
  ASSUME Tables, Next
  PROVE  /\ \A m \in Node : HeldStep(m)
         /\ held' = [m \in Node |-> held'[m]]
<1> DEFINE Goal == /\ \A m \in Node : HeldStep(m)
                   /\ held' = [m \in Node |-> held'[m]]
<1> SUFFICES Goal
  BY Zenon
<1>1. ASSUME held' = evict_expired PROVE Goal
  BY <1>1, EvictKeeps, Zenon DEF HeldStep
<1>2. ASSUME NEW n \in Node, submit_csr_held(n) PROVE Goal
  <2>1. \/ held' = evict_expired
        \/ held' = [evict_expired EXCEPT ![n] = Hold("Pending", None)]
    BY <1>2, Zenon DEF submit_csr_held
  <2> QED BY <2>1, <1>1, EvictKeeps DEF HeldStep, Hold
<1>3. ASSUME NEW n \in Node, deny_csr(n) PROVE Goal
  BY <1>3, EvictKeeps, Zenon DEF deny_csr, HeldStep, Hold
<1>4. ASSUME NEW n \in Node, NEW ttl \in ApprovalTtls \cup {cert_ttl_secs},
             approve_csr(n, ttl)
      PROVE  Goal
  <2>1. Lifetime(n, ttl) /\ Reissued(n, ttl)
    BY <1>4, RecordStep, Zenon DEF approve_csr, Lifetime
  <2>2. held' = [evict_expired EXCEPT ![n] = Hold("Approved", sign(ttl))]
    BY <1>4, Zenon DEF approve_csr
  <2> QED BY <2>1, <2>2, EvictKeeps, Zenon DEF HeldStep
<1>5. CASE UNCHANGED held
  BY <1>5, Zenon DEF HeldStep, Tables
<1> HIDE DEF Goal
<1>6. \/ \E n \in Node : \/ submit_csr_held(n) \/ deny_csr(n)
                          \/ \E ttl \in ApprovalTtls \cup {cert_ttl_secs} :
                                approve_csr(n, ttl)
      \/ held' = evict_expired
      \/ UNCHANGED held
  BY Zenon DEF Next, submit_csr_signed, EvictOnly, renew_holder, revoke,
      set_enrollment_policy, flood_revocations, Start, Crash, Tick,
      ClockTrustChanges, log
<1> QED BY <1>1, <1>2, <1>3, <1>4, <1>5, <1>6, Zenon

----------------------------------------------------------------------------
(* The inductive invariant.                                                *)

\* It holds at the start.
LEMMA InitIInv == Init => IInv
BY AuthorityAssumption
DEF Init, IInv, Tables, Dated, Collectible, ApprovedOnRecord

\* The clock only advances; the policy is one an operator set.
LEMMA ScalarSteps ==
  ASSUME Tables, [Next]_vars
  PROVE  /\ now' \in {now, now + 1} /\ now' \in 1 .. MaxTime
         /\ trusted' \in BOOLEAN
         /\ cert_ttl_secs' \in {cert_ttl_secs} \cup PolicyTtls
<1>1. UNCHANGED now \/ (now < MaxTime /\ now' = now + 1)
  BY Zenon DEF Next, vars, log, submit_csr_signed, submit_csr_held, EvictOnly,
         approve_csr, deny_csr, renew_holder, set_enrollment_policy, revoke,
         flood_revocations, Start, Crash, Tick, ClockTrustChanges
<1>2. now' \in {now, now + 1} /\ now' \in 1 .. MaxTime
  BY <1>1, AuthorityAssumption DEF Tables
<1>3. /\ trusted' \in BOOLEAN
      /\ cert_ttl_secs' \in {cert_ttl_secs} \cup PolicyTtls
  BY Zenon
     DEF Tables, Next, vars, log, submit_csr_signed, submit_csr_held,
         EvictOnly,
         approve_csr, deny_csr, renew_holder, set_enrollment_policy, revoke,
         flood_revocations, Start, Crash, Tick, ClockTrustChanges
<1> QED BY <1>2, <1>3, Zenon

\* The tables stay functions on Node.
LEMMA IssuedTable ==
  ASSUME Tables, [Next]_vars
  PROVE  issued' = [n \in Node |-> issued'[n]]
             /\ longest' = [n \in Node |-> longest'[n]]
BY Zenon
   DEF Tables, Next, vars, log, submit_csr_signed, submit_csr_held, EvictOnly,
       approve_csr, deny_csr, renew_holder, set_enrollment_policy, revoke,
       flood_revocations, Start, Crash, Tick, ClockTrustChanges, Record

\* A lifetime is a number of seconds.
LEMMA LifetimeNat ==
  ASSUME Tables, Dated, NEW n \in Node, NEW ttl, Lifetime(n, ttl)
  PROVE  ttl \in Nat
<1>1. CASE ttl \in ApprovalTtls \cup {cert_ttl_secs}
  BY <1>1, AuthorityAssumption, Zenon DEF Tables
<1>2. CASE issued[n] # None /\ ttl = held_ttl(n)
  <2> DEFINE b == issued[n].cert.not_before
             a == issued[n].cert.not_after
  <2>1. b \in Nat /\ a \in Nat /\ b <= a
    BY <1>2 DEF Dated, Holding, Cert
  <2>2. ttl = a - b
    BY <1>2, Zenon DEF held_ttl
  <2> HIDE DEF a, b
  <2> QED BY <2>1, <2>2
<1> QED BY <1>1, <1>2, Zenon DEF Lifetime

\* What a signed row is.
LEMMA ReissuedRow ==
  ASSUME Tables, Dated, NEW n \in Node, NEW ttl,
         Lifetime(n, ttl), Reissued(n, ttl)
  PROVE  /\ issued'[n].cert = sign(ttl) /\ issued'[n].revoked = FALSE
         /\ sign(ttl) \in Cert
         /\ sign(ttl).not_before = now /\ sign(ttl).not_after = now + ttl
         /\ issued'[n] \in Holding /\ issued'[n] # None
<1>1. ttl \in Nat
  BY LifetimeNat, Zenon
<1>2. issued'[n] = [cert |-> sign(ttl), revoked |-> FALSE]
  BY Zenon DEF Reissued
<1>3. /\ sign(ttl) \in Cert
      /\ sign(ttl).not_before = now /\ sign(ttl).not_after = now + ttl
  BY <1>1, AuthorityAssumption DEF Tables, sign, Cert
<1>4. issued'[n] \in Holding
  BY <1>2, <1>3 DEF Holding
<1>5. issued'[n] # None
  BY <1>4, AuthorityAssumption, Zenon
<1>6. issued'[n].cert = sign(ttl) /\ issued'[n].revoked = FALSE
  BY <1>2
<1> QED BY <1>3, <1>4, <1>5, <1>6, Zenon

\* Tables is preserved.
LEMMA StepTables == ASSUME Tables, Dated, [Next]_vars PROVE Tables'
<1>1. now' \in 1 .. MaxTime /\ trusted' \in BOOLEAN /\ cert_ttl_secs' \in Nat
  BY ScalarSteps, AuthorityAssumption, Zenon DEF Tables
<1>2. held' = [n \in Node |-> held'[n]]
  BY HeldSteps, Zenon DEF vars, log, Tables
<1>3. \A n \in Node : longest'[n] \in Nat
  <2>1. CASE Next
    <3> SUFFICES ASSUME NEW n \in Node PROVE longest'[n] \in Nat
      BY Zenon
    <3>1. IssuedStep(n)
      BY <2>1, IssuedSteps, Zenon
    <3>2. \A ttl : Lifetime(n, ttl) => ttl \in Nat
      BY LifetimeNat, Zenon
    <3>3. longest[n] \in Nat /\ now \in Nat
      BY DEF Tables
    <3>4. CASE LogKept(n) \/ Flagged(n)
      BY <3>3, <3>4, Zenon DEF LogKept, Flagged
    <3>5. CASE \E ttl : Lifetime(n, ttl) /\ Reissued(n, ttl)
      <4>1. PICK ttl : Lifetime(n, ttl) /\ Reissued(n, ttl)
        BY <3>5, Zenon
      <4>2. ttl \in Nat
        BY <4>1, <3>2, Zenon
      <4> QED BY <4>1, <4>2, <3>3 DEF Reissued
    <3> QED BY <3>1, <3>4, <3>5, Zenon DEF IssuedStep
  <2>2. CASE UNCHANGED vars
    BY <2>2, Zenon DEF vars, Tables
  <2> QED BY <2>1, <2>2, Zenon
<1> QED BY <1>1, <1>2, <1>3, IssuedTable, Zenon DEF Tables

\* Dated is preserved.
LEMMA StepDated == ASSUME Tables, Dated, [Next]_vars PROVE Dated'
<1>1. now \in 1 .. MaxTime /\ now' \in Nat /\ now <= now'
  BY ScalarSteps DEF Tables
<1>2. CASE Next
  <2> SUFFICES ASSUME NEW n \in Node, issued'[n] # None
               PROVE  /\ issued'[n] \in Holding
                      /\ issued'[n].cert.not_before <= now'
                      /\ issued'[n].cert.not_before <=
                           issued'[n].cert.not_after
    BY Zenon DEF Dated
  <2>1. CASE LogKept(n)
    <3> DEFINE i == issued[n]
    <3>1. /\ i \in Holding
          /\ i.cert.not_before <= now
          /\ i.cert.not_before <= i.cert.not_after
      BY <2>1, Zenon DEF Dated, LogKept
    <3>2. issued'[n] = i
      BY <2>1, Zenon DEF LogKept
    <3> HIDE DEF i
    <3> QED BY <3>1, <3>2, <1>1 DEF Holding, Cert
  <2>2. CASE Flagged(n)
    <3> DEFINE i == issued[n]
    <3>1. /\ i \in Holding
          /\ i.cert.not_before <= now
          /\ i.cert.not_before <= i.cert.not_after
      BY <2>2, Zenon DEF Dated, Flagged
    <3>2. issued'[n] = [cert |-> i.cert, revoked |-> TRUE]
      BY <2>2, <3>1, Zenon DEF Flagged, Holding
    <3> HIDE DEF i
    <3> QED BY <3>1, <3>2, <1>1 DEF Holding, Cert
  <2>3. CASE \E ttl : Lifetime(n, ttl) /\ Reissued(n, ttl)
    <3>1. PICK ttl : Lifetime(n, ttl) /\ Reissued(n, ttl)
      BY <2>3, Zenon
    <3>2. /\ issued'[n] \in Holding /\ issued'[n].cert = sign(ttl)
          /\ sign(ttl).not_before = now /\ sign(ttl).not_after = now + ttl
      BY <3>1, ReissuedRow, Zenon
    <3>3. ttl \in Nat
      BY <3>1, LifetimeNat, Zenon
    <3> QED BY <3>2, <3>3, <1>1
  <2> QED BY <1>2, <2>1, <2>2, <2>3, IssuedSteps, Zenon DEF IssuedStep
<1>3. CASE UNCHANGED vars
  BY <1>3, Zenon DEF vars, log, Dated
<1> QED BY <1>2, <1>3, Zenon

\* A row that is on record stays on record, under a certificate no older.
LEMMA RecordedOnwards ==
  ASSUME IInv, Next, NEW n \in Node, issued[n] # None
  PROVE  /\ issued'[n] # None
         /\ issued[n].cert.not_before <= issued'[n].cert.not_before
<1>1. issued[n].cert.not_before \in Nat /\ issued[n].cert.not_before <= now
  BY DEF IInv, Dated, Holding, Cert
<1>2. CASE LogKept(n)
  BY <1>1, <1>2 DEF LogKept
<1>3. CASE Flagged(n)
  <2>1. issued'[n] = [cert |-> issued[n].cert, revoked |-> TRUE]
    BY <1>3, Zenon DEF IInv, Dated, Flagged, Holding
  <2>2. issued[n].cert \in Cert
    BY Zenon DEF IInv, Dated, Holding
  <2>3. issued'[n] \in Holding
    BY <2>1, <2>2 DEF Holding
  <2>4. issued'[n] # None
    BY <2>3, AuthorityAssumption, Zenon
  <2> QED BY <1>1, <2>1, <2>4
<1>4. CASE \E ttl : Lifetime(n, ttl) /\ Reissued(n, ttl)
  <2>1. PICK ttl : Lifetime(n, ttl) /\ Reissued(n, ttl)
    BY <1>4, Zenon
  <2>2. issued'[n] # None /\ issued'[n].cert.not_before = now
    BY <2>1, ReissuedRow, Zenon DEF IInv
  <2> QED BY <1>1, <2>2, Zenon
<1> QED BY <1>2, <1>3, <1>4, IssuedSteps, Zenon DEF IssuedStep, IInv

\* An approved request keeps its row.
LEMMA StepApproved ==
  ASSUME IInv, [Next]_vars
  PROVE  Collectible' /\ ApprovedOnRecord'
<1>1. CASE UNCHANGED vars
  BY <1>1, Zenon DEF vars, log, IInv, Collectible, ApprovedOnRecord
<1>2. CASE Next
  <2> SUFFICES ASSUME NEW n \in Node, held'[n] # None,
                      held'[n].status = "Approved"
               PROVE  /\ held'[n].cert \in Cert
                      /\ issued'[n] # None
                      /\ held'[n].cert.not_before <= issued'[n].cert.not_before
    BY Zenon DEF Collectible, ApprovedOnRecord
  <2>1. HeldStep(n)
    BY <1>2, HeldSteps, Zenon DEF IInv
  <2>2. CASE held'[n] = held[n]
    <3>1. /\ held[n].cert \in Cert /\ issued[n] # None
          /\ held[n].cert.not_before <= issued[n].cert.not_before
      BY <2>2, Zenon DEF IInv, Collectible, ApprovedOnRecord
    <3>2. issued[n].cert \in Cert
      BY <3>1, Zenon DEF IInv, Dated, Holding
    <3>3. /\ issued'[n] # None
          /\ issued[n].cert.not_before <= issued'[n].cert.not_before
      BY <1>2, <3>1, RecordedOnwards, Zenon
    <3>4. issued'[n].cert \in Cert
      BY <3>3, StepDated, Zenon DEF IInv, Dated, Holding
    <3> DEFINE a == held[n].cert
               b == issued[n].cert
               c == issued'[n].cert
    <3>5. a.not_before <= c.not_before
      <4>1. /\ a \in Cert /\ b \in Cert /\ c \in Cert
            /\ a.not_before <= b.not_before /\ b.not_before <= c.not_before
        BY <3>1, <3>2, <3>3, <3>4, Zenon
      <4> HIDE DEF a, b, c
      <4> QED BY <4>1 DEF Cert
    <3> QED BY <2>2, <3>1, <3>3, <3>5, Zenon
  <2>3. CASE \E ttl : /\ held'[n] = Hold("Approved", sign(ttl))
                      /\ Lifetime(n, ttl) /\ Reissued(n, ttl)
    <3>1. PICK ttl : /\ held'[n] = Hold("Approved", sign(ttl))
                     /\ Lifetime(n, ttl) /\ Reissued(n, ttl)
      BY <2>3, Zenon
    <3>2. held'[n].cert = sign(ttl)
      BY <3>1 DEF Hold
    <3>3. /\ issued'[n] # None /\ issued'[n].cert = sign(ttl)
          /\ sign(ttl) \in Cert
      BY <3>1, ReissuedRow, Zenon DEF IInv
    <3>4. sign(ttl).not_before <= sign(ttl).not_before
      BY <3>3 DEF Cert
    <3> QED BY <3>2, <3>3, <3>4, Zenon
  <2> QED BY <2>1, <2>2, <2>3, Zenon DEF HeldStep
<1> QED BY <1>1, <1>2, Zenon

\* The inductive invariant holds throughout.
LEMMA Inductive == Spec => []IInv
<1>1. IInv /\ [Next]_vars => IInv'
  BY StepTables, StepDated, StepApproved, Zenon DEF IInv
<1> QED BY InitIInv, <1>1, PTL DEF Spec

----------------------------------------------------------------------------
(* An approved request is always on record.                                *)

\* Whatever the requests, the clock and the crashes, a certificate a node can
\* collect from the held store is one the issued log has, or an older one
\* (`mutate_issued_and_held` writes both in one commit).
THEOREM ApprovedAlwaysOnRecord == Spec => []ApprovedOnRecord
<1>1. IInv => ApprovedOnRecord
  BY Zenon DEF IInv
<1> QED BY <1>1, Inductive, PTL

----------------------------------------------------------------------------
(* Only an approval readmits.                                              *)

\* A step that clears the flag of a live holder is an approval.
LEMMA ReadmitStep ==
  ASSUME IInv, Next, NEW n \in Node,
         live_holder(n), issued[n].revoked, ~issued'[n].revoked
  PROVE  /\ held[n] # None /\ held[n].status = "Pending"
         /\ held'[n].status = "Approved"
<1> DEFINE Goal == /\ held[n] # None /\ held[n].status = "Pending"
                   /\ held'[n].status = "Approved"
<1> SUFFICES Goal
  BY Zenon
<1>1. ~InGoodStanding(n) /\ ~AutoApproves(n) /\ issued[n] # None
  BY Zenon DEF InGoodStanding, AutoApproves, live_holder
<1>2. ~LogKept(n) /\ ~Flagged(n)
  <2>1. issued[n] \in Holding
    BY <1>1, Zenon DEF IInv, Dated
  <2>2. Flagged(n) => issued'[n].revoked
    BY <2>1, Zenon DEF Flagged, Holding
  <2> QED BY <2>2, Zenon DEF LogKept
<1>3. ASSUME NEW m \in Node, NEW ttl, Record(m, ttl) PROVE m = n
  BY <1>2, <1>3, RecordStep, Zenon DEF IInv
<1>4. ASSUME NEW m \in Node, submit_csr_signed(m) \/ renew_holder(m) PROVE Goal
  <2>1. PICK ttl : Record(m, ttl)
    BY <1>4, Zenon DEF submit_csr_signed, renew_holder
  <2> QED BY <1>1, <1>3, <1>4, <2>1, Zenon DEF submit_csr_signed, renew_holder
<1>5. ASSUME NEW m \in Node, NEW ttl, approve_csr(m, ttl) PROVE Goal
  <2>1. m = n
    BY <1>3, <1>5, Zenon DEF approve_csr
  <2>2. /\ evict_expired[n] # None /\ evict_expired[n].status = "Pending"
        /\ held' = [evict_expired EXCEPT ![n] = Hold("Approved", sign(ttl))]
    BY <1>5, <2>1, Zenon DEF approve_csr
  <2> QED BY <2>2, EvictKeeps, Zenon DEF Hold
<1>6. ASSUME NEW m \in Node, revoke(m) PROVE FALSE
  BY <1>2, <1>6, Zenon DEF revoke, IInv, Tables, LogKept, Flagged
<1>7. CASE UNCHANGED <<issued, longest>>
  BY <1>2, <1>7, Zenon DEF LogKept
<1> HIDE DEF Goal
<1>8. \/ \E m \in Node : \/ submit_csr_signed(m) \/ renew_holder(m)
                          \/ revoke(m) \/ \E ttl : approve_csr(m, ttl)
      \/ UNCHANGED <<issued, longest>>
  BY Zenon
     DEF Next, submit_csr_held, deny_csr, EvictOnly, set_enrollment_policy,
         flood_revocations, Start, Crash, Tick, ClockTrustChanges, log
<1> QED BY <1>4, <1>5, <1>6, <1>7, <1>8, Zenon

\* For any nodes and lifetimes, a live holder that was revoked is cleared by
\* no step but an operator's approval of its pending request (`submit_csr`,
\* `renew_holder`, `approve_csr`).
THEOREM ReadmittedOnlyByApproval == Spec => ReadmittedByApproval
<1> DEFINE A == \A n \in Node :
        live_holder(n) /\ issued[n].revoked /\ ~issued'[n].revoked =>
            /\ held[n] # None /\ held[n].status = "Pending"
            /\ held'[n].status = "Approved"
<1>1. IInv /\ [Next]_vars => [A]_vars
  BY ReadmitStep, Zenon
<1> HIDE DEF A
<1>2. Spec => [][A]_vars
  BY <1>1, Inductive, PTL DEF Spec
<1> QED BY <1>2, Zenon DEF ReadmittedByApproval, A

----------------------------------------------------------------------------
(* With one lifetime for every certificate, a revocation outlives them.    *)

OneLifetime == PolicyTtls \subseteq {CertTtl}
    /\ ApprovalTtls \subseteq 0 .. CertTtl

\* r cancels every certificate n was given, for as long as one lasts.
Covers(r, n) ==
    /\ r.node = n
    /\ issued[n].cert.not_before <= r.not_before
    /\ longest[n] <= r.not_after

Bounded ==
    /\ cert_ttl_secs = CertTtl
    /\ revocations \subseteq Revocation
    /\ \A n \in Node : longest[n] <= now + CertTtl
    /\ \A n \in Node : issued[n] # None => held_ttl(n) <= CertTtl

Covered ==
    \A n \in Node : issued[n] # None /\ issued[n].revoked
        /\ now < longest[n] =>
        \E r \in revocations : Covers(r, n)

\* No certificate is given more than the one lifetime.
LEMMA BoundedLifetime ==
  ASSUME OneLifetime, IInv, Bounded, NEW n \in Node, NEW ttl, Lifetime(n, ttl)
  PROVE  ttl \in Nat /\ ttl <= CertTtl
<1>1. ttl \in Nat
  BY LifetimeNat, Zenon DEF IInv
<1>2. CASE ttl \in ApprovalTtls \cup {cert_ttl_secs}
  <2>1. ttl \in 0 .. CertTtl \/ ttl = CertTtl
    BY <1>2, Zenon DEF OneLifetime, Bounded
  <2> QED BY <2>1, AuthorityAssumption
<1>3. CASE issued[n] # None /\ ttl = held_ttl(n)
  BY <1>1, <1>3, Zenon DEF Bounded
<1> QED BY <1>1, <1>2, <1>3, Zenon DEF Lifetime

\* Revocations still in force are kept, and one that covers is filed for
\* every row that is flagged.
RevocationStep ==
    /\ revocations' \subseteq Revocation
    /\ \A q \in revocations : q.not_after > now => q \in revocations'
    /\ \A n \in Node :
        \/ LogKept(n)
        \/ issued'[n].revoked = FALSE
        \/ \E r \in revocations' : /\ r.node = n /\ r.not_before = now
                                   /\ r.not_after = now + CertTtl

\* That is what every step does.
LEMMA RevocationSteps == ASSUME IInv, Bounded, Next PROVE RevocationStep
<1>1. ASSUME NEW m \in Node, revoke(m) PROVE RevocationStep
  <2> DEFINE r == [node |-> m, not_before |-> now, not_after |-> now + CertTtl]
  <2>1. /\ revocations' = {q \in revocations : q.not_after > now_unix} \cup {r}
        /\ issued' = IF issued[m] = None THEN issued
                     ELSE [issued EXCEPT ![m].revoked = TRUE]
        /\ longest' = longest
    BY <1>1, Zenon DEF revoke, record_revocations, Bounded
  <2>2. r \in Revocation /\ r.node = m /\ r.not_before = now
        /\ r.not_after = now + CertTtl
    BY AuthorityAssumption DEF Revocation, IInv, Tables
  <2> HIDE DEF r
  <2>3. revocations' \subseteq Revocation
    BY <2>1, <2>2, Zenon DEF Bounded
  <2>4. \A q \in revocations : q.not_after > now => q \in revocations'
    <3> SUFFICES ASSUME NEW q \in revocations, q.not_after > now
                 PROVE  q.not_after > now_unix
      BY <2>1, Zenon
    <3>1. q.not_after \in Nat /\ now \in Nat
      BY DEF Bounded, Revocation, IInv, Tables
    <3> QED BY <3>1 DEF now_unix
  <2>5. \A n \in Node \ {m} : LogKept(n)
    BY <2>1, Zenon DEF LogKept, IInv, Tables
  <2> QED BY <2>1, <2>2, <2>3, <2>4, <2>5, Zenon DEF RevocationStep
<1>2. ASSUME UNCHANGED revocations,
             \A n \in Node : LogKept(n) \/ issued'[n].revoked = FALSE
      PROVE  RevocationStep
  BY <1>2, Zenon DEF Bounded, RevocationStep
<1>3. ASSUME NEW m \in Node, NEW ttl, Record(m, ttl)
      PROVE  \A n \in Node : LogKept(n) \/ issued'[n].revoked = FALSE
  <2>1. Reissued(m, ttl) /\ \A n \in Node \ {m} : LogKept(n)
    BY <1>3, RecordStep, Zenon DEF IInv
  <2>2. issued'[m].revoked = FALSE
    BY <2>1 DEF Reissued
  <2> QED BY <2>1, <2>2, Zenon
<1>4. \/ \E m \in Node : revoke(m)
      \/ UNCHANGED revocations /\ \E m \in Node : \E ttl : Record(m, ttl)
      \/ UNCHANGED <<issued, longest, revocations>>
  BY Zenon DEF Next, submit_csr_signed, approve_csr, renew_holder,
         submit_csr_held, deny_csr, EvictOnly, set_enrollment_policy,
         flood_revocations, Start, Crash, Tick, ClockTrustChanges, log
<1>5. CASE UNCHANGED <<issued, longest, revocations>>
  BY <1>5, <1>2, Zenon DEF LogKept
<1> QED BY <1>1, <1>2, <1>3, <1>4, <1>5, Zenon

\* Bounded is preserved.
LEMMA StepBounded ==
  ASSUME OneLifetime, IInv, Bounded, [Next]_vars PROVE Bounded'
<1>1. cert_ttl_secs' = CertTtl
  BY ScalarSteps, Zenon DEF OneLifetime, Bounded, IInv
<1>2. now \in Nat /\ now' \in Nat /\ now <= now' /\ CertTtl \in Nat
  BY ScalarSteps, AuthorityAssumption DEF IInv, Tables
<1>3. CASE UNCHANGED vars
  BY <1>3, Zenon DEF vars, log, Bounded, held_ttl
<1>4. CASE Next
  <2>1. revocations' \subseteq Revocation
    BY <1>4, RevocationSteps, Zenon DEF RevocationStep
  <2>2. ASSUME NEW n \in Node
        PROVE  /\ longest'[n] <= now' + CertTtl
               /\ issued'[n] # None => held_ttl(n)' <= CertTtl
    <3>1. longest[n] \in Nat /\ longest[n] <= now + CertTtl
      BY Zenon DEF IInv, Tables, Bounded
    <3>2. CASE LogKept(n)
      BY <1>2, <3>1, <3>2 DEF LogKept, Bounded, held_ttl
    <3>3. CASE Flagged(n)
      <4>1. issued'[n].cert = issued[n].cert
        BY <3>3, Zenon DEF Flagged, IInv, Dated, Holding
      <4> QED BY <1>2, <3>1, <3>3, <4>1 DEF Flagged, Bounded, held_ttl
    <3>4. CASE \E ttl : Lifetime(n, ttl) /\ Reissued(n, ttl)
      <4>1. PICK ttl : Lifetime(n, ttl) /\ Reissued(n, ttl)
        BY <3>4, Zenon
      <4>2. ttl \in Nat /\ ttl <= CertTtl
        BY <4>1, BoundedLifetime, Zenon
      <4>3. /\ issued'[n].cert.not_before = now
            /\ issued'[n].cert.not_after = now + ttl
        BY <4>1, ReissuedRow, Zenon DEF IInv
      <4>4. longest'[n] \in {now + ttl, longest[n]}
        BY <4>1, Zenon DEF Reissued
      <4> QED BY <1>2, <3>1, <4>2, <4>3, <4>4 DEF held_ttl
    <3> QED BY <1>4, <3>2, <3>3, <3>4, IssuedSteps, Zenon DEF IssuedStep, IInv
  <2> QED BY <1>1, <2>1, <2>2, Zenon DEF Bounded
<1> QED BY <1>3, <1>4, Zenon

\* Covered is preserved.
LEMMA StepCovered ==
  ASSUME OneLifetime, IInv, Bounded, Covered, [Next]_vars PROVE Covered'
<1>1. CASE UNCHANGED vars
  BY <1>1, Zenon DEF vars, log, Covered, Covers
<1>2. CASE Next
  <2> SUFFICES ASSUME NEW n \in Node, issued'[n] # None, issued'[n].revoked,
                      now' < longest'[n]
               PROVE  \E r \in revocations' : Covers(r, n)'
    BY Zenon DEF Covered
  <2>1. now \in Nat /\ now' \in Nat /\ now <= now' /\ CertTtl \in Nat
    BY ScalarSteps, AuthorityAssumption DEF IInv, Tables
  <2>2. CASE LogKept(n)
    <3>1. issued[n] # None /\ issued[n].revoked /\ longest[n] \in Nat
      BY <2>2, Zenon DEF LogKept, IInv, Tables
    <3>2. now < longest[n]
      BY <2>1, <2>2, <3>1 DEF LogKept
    <3>3. PICK r \in revocations : Covers(r, n)
      BY <3>1, <3>2, Zenon DEF Covered
    <3>4. r.not_after \in Nat
      BY Zenon DEF Bounded, Revocation
    <3>5. r.not_after > now
      BY <2>1, <3>1, <3>2, <3>3, <3>4 DEF Covers
    <3>6. r \in revocations'
      BY <1>2, <3>5, RevocationSteps, Zenon DEF RevocationStep
    <3> QED BY <2>2, <3>3, <3>6, Zenon DEF Covers, LogKept
  <2>3. CASE ~LogKept(n)
    <3>1. PICK r \in revocations' : /\ r.node = n /\ r.not_before = now
                                    /\ r.not_after = now + CertTtl
      BY <1>2, <2>3, RevocationSteps, Zenon DEF RevocationStep
    <3>2. Flagged(n)
      <4>1. ~ \E ttl : Lifetime(n, ttl) /\ Reissued(n, ttl)
        BY ReissuedRow, Zenon DEF IInv
      <4> QED BY <1>2, <2>3, <4>1, IssuedSteps, Zenon DEF IssuedStep, IInv
    <3>3. issued'[n].cert = issued[n].cert /\ longest'[n] = longest[n]
      BY <3>2, Zenon DEF Flagged, IInv, Dated, Holding
    <3>4. issued[n].cert.not_before <= now /\ longest[n] <= now + CertTtl
      BY <3>2, Zenon DEF Flagged, IInv, Dated, Bounded
    <3> QED BY <3>1, <3>3, <3>4, Zenon DEF Covers
  <2> QED BY <2>2, <2>3, Zenon
<1> QED BY <1>1, <1>2, Zenon

\* If the policy keeps one lifetime and no approval exceeds it, then for any
\* nodes, clock and crashes a revocation on file outlives every certificate
\* issued to the node before it (`revoke`).  Without the hypothesis it does
\* not.
THEOREM RevocationOutlives == ASSUME OneLifetime PROVE Spec => []StaysRevoked
<1> DEFINE J == IInv /\ Bounded /\ Covered
<1>1. Init => J
  <2>1. SUFFICES ASSUME Init PROVE Bounded /\ Covered
    BY InitIInv, Zenon
  <2> QED BY <2>1, AuthorityAssumption DEF Init, Bounded, Covered
<1>2. J /\ [Next]_vars => J'
  BY StepBounded, StepCovered, StepTables, StepDated, StepApproved, Zenon
     DEF IInv
<1>3. J => StaysRevoked
  <2> SUFFICES ASSUME IInv, Bounded, Covered,
                      NEW n \in Node, issued[n] # None, issued[n].revoked,
                      now < longest[n]
               PROVE  \E r \in revocations :
                        /\ r.node = n
                        /\ issued[n].cert.not_before <= r.not_before
                        /\ now < r.not_after
    BY Zenon DEF StaysRevoked
  <2>1. PICK r \in revocations : Covers(r, n)
    BY Zenon DEF Covered
  <2>2. r.not_after \in Nat /\ now \in Nat /\ longest[n] \in Nat
    BY DEF Bounded, Revocation, IInv, Tables
  <2>3. now < r.not_after
    BY <2>1, <2>2 DEF Covers
  <2> QED BY <2>1, <2>3, Zenon DEF Covers
<1> HIDE DEF J
<1> QED BY <1>1, <1>2, <1>3, PTL DEF Spec

----------------------------------------------------------------------------
(* With one lifetime for all, what is on file is enforced.                 *)

\* A set of numbers has a least one.
LEMMA LeastNat ==
  ASSUME NEW T, T \subseteq Nat, T # {}
  PROVE  \E x \in T : \A y \in T : x <= y
<1> DEFINE R == OpToRel(<, Nat)
<1>1. IsWellFoundedOn(R, Nat)
  BY NatLessThanWellFounded, Zenon
<1>2. \A a, b \in Nat : a < b => <<a, b>> \in R
  BY Zenon DEF OpToRel
<1> HIDE DEF R
<1>3. PICK x \in T : \A y \in T : ~(<<y, x>> \in R)
  BY <1>1, WFMin, Zenon
<1>4. \A y \in T : ~(y < x)
  BY <1>2, <1>3, Zenon
<1> QED BY <1>4

\* Of some revocations one is the latest.
LEMMA LatestRevocation ==
  ASSUME NEW S, S \subseteq Revocation, S # {}
  PROVE  \E r \in S : \A q \in S : q.not_before <= r.not_before
<1> DEFINE T == {MaxTime - q.not_before : q \in S}
<1>1. \A q \in S : q.not_before \in 1 .. MaxTime
  BY Zenon DEF Revocation
<1>2. T \subseteq Nat /\ T # {}
  BY <1>1, AuthorityAssumption
<1>3. PICK x \in T : \A y \in T : x <= y
  <2> HIDE DEF T
  <2> QED BY <1>2, LeastNat, Zenon
<1>4. PICK r \in S : x = MaxTime - r.not_before
  BY <1>3, Zenon
<1>5. ASSUME NEW q \in S PROVE q.not_before <= r.not_before
  <2>1. MaxTime - r.not_before <= MaxTime - q.not_before
    BY <1>3, <1>4, Zenon
  <2> QED BY <2>1, <1>1, AuthorityAssumption
<1> QED BY <1>5, Zenon

\* Every record has the one lifetime, the router's included.
Standard(r) ==
    /\ r \in Revocation
    /\ r.not_after = r.not_before + CertTtl

Uniform ==
    /\ cert_ttl_secs = CertTtl
    /\ \A r \in revocations : Standard(r)
    /\ known = [n \in Node |-> known[n]]
    /\ \A n \in Node : known[n] # None => Standard(known[n])
    /\ signed # None => Standard(signed)

InForce(r) == known[r.node] # None /\ r.not_before <= known[r.node].not_before

\* Every record in force but the one being handed over is the router's, or a
\* later one of its address is.
Enforced ==
    serving => \A r \in revocations :
        r # signed /\ now < r.not_after => InForce(r)

\* What the router has after a step: what it had, one record more, nothing,
\* or what a start floods again.
KnownStep ==
    \/ UNCHANGED known
    \/ signed # None /\ known' = ingest(known, signed)
    \/ known' = [n \in Node |-> None]
    \/ known' = reflood_revocations

LEMMA RevokedRecord ==
  ASSUME IInv, Uniform, NEW n \in Node, revoke(n)
  PROVE  /\ signed = None /\ Standard(signed')
         /\ revocations' \subseteq revocations \cup {signed'}
<1>1. signed' = [node |-> n, not_before |-> now, not_after |-> now + CertTtl]
  BY Zenon DEF revoke, Uniform
<1>2. Standard(signed')
  BY <1>1, AuthorityAssumption DEF Standard, Revocation, IInv, Tables
<1> QED BY <1>2, Zenon DEF revoke, record_revocations, Ready

LEMMA RefloodedSlot ==
  ASSUME Uniform, NEW n \in Node, NEW slots, slots = reflood_revocations
  PROVE  /\ slots[n] # None => slots[n] \in revocations
         /\ \A r \in live_revocations : r.node = n =>
                slots[n] # None /\ r.not_before <= slots[n].not_before
<1> DEFINE mine == {r \in live_revocations : r.node = n}
<1>1. slots[n] = IF mine = {} THEN None
                 ELSE CHOOSE r \in mine : \A q \in mine :
                     q.not_before <= r.not_before
  BY Zenon DEF reflood_revocations
<1>2. mine \subseteq Revocation /\ mine \subseteq revocations
  BY Zenon DEF live_revocations, Uniform, Standard
<1>3. CASE mine = {}
  BY <1>1, <1>3, Zenon
<1>4. CASE mine # {}
  <2>1. \E r \in mine : \A q \in mine : q.not_before <= r.not_before
    <3> HIDE DEF mine
    <3> QED BY <1>2, <1>4, LatestRevocation, Zenon
  <2>2. /\ slots[n] \in mine
        /\ \A q \in mine : q.not_before <= slots[n].not_before
    <3> HIDE DEF mine
    <3> QED BY <1>1, <1>4, <2>1, Zenon
  <2> QED BY <1>2, <2>2, AuthorityAssumption, Zenon
<1> QED BY <1>3, <1>4, Zenon

LEMMA StepUniform ==
  ASSUME OneLifetime, IInv, Uniform, [Next]_vars PROVE Uniform'
<1>1. cert_ttl_secs' = CertTtl
  BY ScalarSteps, Zenon DEF OneLifetime, Uniform, IInv
<1>2. /\ \A r \in revocations' : Standard(r)
      /\ signed' # None => Standard(signed')
  <2>1. ASSUME NEW n \in Node, revoke(n)
        PROVE  /\ \A r \in revocations' : Standard(r)
               /\ signed' # None => Standard(signed')
    BY <2>1, RevokedRecord, Zenon DEF Uniform
  <2>2. CASE UNCHANGED revocations /\ signed' \in {signed, None}
    BY <2>2, Zenon DEF Uniform
  <2> QED
    BY <2>1, <2>2, Zenon
       DEF Next, vars, log, submit_csr_signed, submit_csr_held,
       EvictOnly, approve_csr, deny_csr, renew_holder, set_enrollment_policy,
       flood_revocations, Start, Crash, Tick, ClockTrustChanges
<1>3. KnownStep
  BY Zenon
     DEF KnownStep, Next, vars, log, submit_csr_signed, submit_csr_held,
         revoke,
         EvictOnly, approve_csr, deny_csr, renew_holder, set_enrollment_policy,
         flood_revocations, Start, Crash, Tick, ClockTrustChanges
<1>4. known' = [n \in Node |-> known'[n]]
      /\ \A n \in Node : known'[n] # None => Standard(known'[n])
  <2>1. CASE UNCHANGED known \/ known' = [n \in Node |-> None]
    BY <2>1, Zenon DEF Uniform
  <2>2. CASE signed # None /\ known' = ingest(known, signed)
    BY <2>2, Zenon DEF Uniform, ingest
  <2>3. CASE known' = reflood_revocations
    <3>1. known' = [n \in Node |-> known'[n]]
      BY <2>3 DEF reflood_revocations
    <3> QED BY <2>3, <3>1, RefloodedSlot, Zenon DEF Uniform
  <2> QED BY <1>3, <2>1, <2>2, <2>3, Zenon DEF KnownStep
<1> QED BY <1>1, <1>2, <1>4, Zenon DEF Uniform

\* The hand-over puts the signed record in force and no other out of it.
LEMMA FloodEnforces ==
  ASSUME IInv, Uniform, Enforced, flood_revocations PROVE Enforced'
<1>1. /\ signed # None /\ known' = ingest(known, signed) /\ signed' = None
      /\ UNCHANGED <<now, trusted, revocations, serving>>
  BY Zenon DEF flood_revocations, log
<1>2. Standard(signed) /\ signed.node \in Node
      /\ signed.not_before \in Nat \ {0} /\ signed.not_after \in Nat
      /\ now \in Nat
  BY <1>1, AuthorityAssumption DEF Uniform, Standard, Revocation, IInv, Tables
<1>3. ASSUME serving, NEW r \in revocations, now < r.not_after
      PROVE  InForce(r)'
  <2>1. r.node \in Node /\ r.not_before \in Nat
    BY DEF Uniform, Standard, Revocation
  <2>2. known[r.node] # None => known[r.node].not_before \in Nat
    BY <2>1 DEF Uniform, Standard, Revocation
  <2>3. CASE r = signed
    <3>1. ~(r.not_after <= now_unix)
      BY <1>2, <1>3, <2>3, AuthorityAssumption DEF now_unix, Standard
    <3> QED
      BY <1>1, <2>1, <2>2, <2>3, <3>1 DEF ingest, InForce, Uniform
  <2>4. CASE r # signed
    <3>1. InForce(r)
      BY <1>3, <2>4, Zenon DEF Enforced
    <3>2. CASE known' = known
      BY <3>1, <3>2, Zenon DEF InForce
    <3>3. CASE known' # known
      <4>1. /\ known' = [known EXCEPT ![signed.node] = signed]
            /\ ~(known[signed.node] # None
                   /\ signed.not_before <= known[signed.node].not_before)
        BY <1>1, <3>3, Zenon DEF ingest
      <4>2. CASE r.node = signed.node
        <5>1. known'[r.node] = signed
          BY <1>2, <4>1, <4>2, Zenon DEF Uniform
        <5>2. r.not_before <= signed.not_before
          BY <1>2, <2>1, <2>2, <3>1, <4>1, <4>2 DEF InForce
        <5> QED BY <1>1, <5>1, <5>2, Zenon DEF InForce
      <4>3. CASE r.node # signed.node
        <5>1. known'[r.node] = known[r.node]
          BY <2>1, <4>1, <4>3, Zenon DEF Uniform
        <5> QED BY <3>1, <5>1, Zenon DEF InForce
      <4> QED BY <4>2, <4>3, Zenon
    <3> QED BY <3>2, <3>3, Zenon
  <2> QED BY <2>3, <2>4, Zenon
<1> QED BY <1>1, <1>3, Zenon DEF Enforced

LEMMA StepEnforced ==
  ASSUME IInv, Uniform, Enforced, [Next]_vars PROVE Enforced'
<1>1. now \in Nat /\ now' \in Nat /\ now <= now'
  BY ScalarSteps DEF IInv, Tables
<1>2. \A r \in revocations : r.not_after \in Nat
  BY Zenon DEF Uniform, Standard, Revocation
<1>3. CASE flood_revocations
  BY <1>3, FloodEnforces, Zenon
<1>4. CASE Start
  <2>1. known' = reflood_revocations /\ UNCHANGED <<now, revocations>>
    BY <1>4, Zenon DEF Start, log
  <2>2. ASSUME NEW r \in revocations, now < r.not_after PROVE InForce(r)'
    <3>1. r \in live_revocations /\ r.node \in Node
      BY <1>1, <1>2, <2>2
      DEF live_revocations, now_unix, Uniform, Standard, Revocation
    <3> QED BY <2>1, <3>1, RefloodedSlot, Zenon DEF InForce
  <2> QED BY <2>1, <2>2, Zenon DEF Enforced
<1>5. CASE Crash
  BY <1>5, Zenon DEF Crash, Enforced
<1>6. ASSUME NEW n \in Node, revoke(n) PROVE Enforced'
  <2>1. UNCHANGED <<now, known, serving>> /\ signed = None
        /\ revocations' \subseteq revocations \cup {signed'}
    BY <1>6, RevokedRecord, Zenon DEF revoke
  <2>2. \A r \in revocations : r # None
    BY AuthorityAssumption, Zenon DEF Uniform, Standard
  <2> QED BY <2>1, <2>2, Zenon DEF Enforced, InForce
<1>7. CASE UNCHANGED <<known, serving, signed, revocations>>
  <2>1. \A r \in revocations : now' < r.not_after => now < r.not_after
    BY <1>1, <1>2
  <2> QED BY <1>7, <2>1, Zenon DEF Enforced, InForce
<1> QED
  BY <1>3, <1>4, <1>5, <1>6, <1>7, Zenon
     DEF Next, vars, log, submit_csr_signed,
     submit_csr_held, EvictOnly, approve_csr, deny_csr, renew_holder,
     set_enrollment_policy, Tick, ClockTrustChanges

\* If the policy keeps one lifetime, then for any nodes, clock and crashes
\* every revocation on file that is in force is enforced by the router
\* whenever none is being handed over (`flood_one`, `reflood_revocations`).
\* With a lifetime that was shortened, a later record ends before an earlier.
THEOREM AlwaysAnnounced == ASSUME OneLifetime PROVE Spec => []Announced
<1> DEFINE J == IInv /\ Uniform /\ Enforced
<1>1. Init => J
  <2>1. SUFFICES ASSUME Init PROVE Uniform /\ Enforced
    BY InitIInv, Zenon
  <2> QED BY <2>1, Zenon DEF Init, Uniform, Enforced
<1>2. J /\ [Next]_vars => J'
  BY StepUniform, StepEnforced, StepTables, StepDated, StepApproved, Zenon
     DEF IInv
<1>3. J => Announced
  <2> SUFFICES ASSUME Uniform, Enforced, serving, signed = None,
                      NEW r \in revocations, now < r.not_after
               PROVE  /\ known[r.node] # None
                      /\ r.not_before <= known[r.node].not_before
                      /\ r.not_after <= known[r.node].not_after
    BY Zenon DEF Announced
  <2>1. Standard(r) /\ r # None
    BY AuthorityAssumption, Zenon DEF Uniform, Standard
  <2>2. InForce(r)
    BY <2>1, Zenon DEF Enforced
  <2>3. Standard(known[r.node])
    BY <2>1, <2>2, Zenon DEF InForce, Uniform, Standard, Revocation
  <2> DEFINE k == known[r.node]
  <2>4. r.not_before <= k.not_before /\ Standard(k) /\ k # None
    BY <2>2, <2>3, Zenon DEF InForce
  <2> HIDE DEF k
  <2>5. r.not_after <= k.not_after
    BY <2>1, <2>4, AuthorityAssumption DEF Standard, Revocation
  <2> QED BY <2>4, <2>5, Zenon DEF k
<1> HIDE DEF J
<1> QED BY <1>1, <1>2, <1>3, PTL DEF Spec

----------------------------------------------------------------------------
(* A name is an account or an invitation.                                  *)

NameInv ==
    /\ users = [n \in Name |-> users[n]]
    /\ invites = [n \in Name |-> invites[n]]
    /\ NameOnce

\* Evicting only takes invitations away.
LEMMA EvictsInvites ==
  ASSUME NameInv
  PROVE  /\ evict_expired_invites = [n \in Name |-> evict_expired_invites[n]]
         /\ \A n \in Name : evict_expired_invites[n] \in {None, invites[n]}
BY Zenon DEF evict_expired_invites, NameInv

\* Every step keeps the accounts and the invitations apart.
LEMMA NameStep == ASSUME NameInv, [PeopleNext]_peopleVars PROVE NameInv'
<1> SUFFICES NameInv'
  BY Zenon
<1>1. ASSUME NEW n \in Name, NEW a, users[n] = None,
                 evict_expired_invites[n] = None,
             users' = [users EXCEPT ![n] = a], invites' = evict_expired_invites
      PROVE  NameInv'
  BY <1>1, EvictsInvites, Zenon DEF NameInv, NameOnce
<1>2. ASSUME NEW n \in Name, NEW i, UNCHANGED users,
             users[n] = None \/ evict_expired_invites[n] # None,
             invites' = [evict_expired_invites EXCEPT ![n] = i]
      PROVE  NameInv'
  BY <1>2, EvictsInvites, Zenon DEF NameInv, NameOnce
<1>3. ASSUME NEW n \in Name, NEW a, users' = [users EXCEPT ![n] = a],
             UNCHANGED invites, users[n] # None
      PROVE  NameInv'
  BY <1>3, Zenon DEF NameInv, NameOnce
<1>4. ASSUME NEW n \in Name, UNCHANGED users,
                 invites' = [invites EXCEPT ![n] = None]
      PROVE  NameInv'
  BY <1>4, Zenon DEF NameInv, NameOnce
<1>5. ASSUME UNCHANGED users, invites' \in {invites, evict_expired_invites}
      PROVE  NameInv'
  BY <1>5, EvictsInvites, Zenon DEF NameInv, NameOnce
<1>6. ASSUME NEW n \in Name, NEW a, users[n] = None,
             users' = [users EXCEPT ![n] = a],
             invites' = [evict_expired_invites EXCEPT ![n] = None]
      PROVE  NameInv'
  BY <1>6, EvictsInvites, Zenon DEF NameInv, NameOnce
<1>7. ASSUME NEW n \in Name, NEW flag \in BOOLEAN,
             add_user(n, flag) \/ create_user_invite(n, flag)
      PROVE  NameInv'
  BY <1>7, <1>1, <1>2, Zenon
     DEF add_user, create_user_invite, check_name_available
<1>8. ASSUME NEW n \in Name, begin_user_registration(n) PROVE NameInv'
  <2>1. PICK i : invites' = [evict_expired_invites EXCEPT ![n] = i]
    BY <1>8, Zenon DEF begin_user_registration
  <2> QED BY <1>2, <1>8, <2>1, Zenon DEF begin_user_registration
<1>9. ASSUME NEW n \in Name, NEW step, complete_user_registration(n, step)
      PROVE  NameInv'
  BY <1>6, <1>9, Zenon DEF complete_user_registration
<1>10. ASSUME NEW n \in Name, NEW flag, NEW k, NEW step,
              \/ remove_user(n) \/ set_user_role(n, flag)
              \/ set_user_enabled(n, flag) \/ authenticate_user(n, k, step)
       PROVE  NameInv'
  <2>1. users[n] # None /\ UNCHANGED invites
    BY <1>10, Zenon
       DEF remove_user, set_user_role, set_user_enabled, authenticate_user
  <2>2. PICK a : users' = [users EXCEPT ![n] = a]
    BY <1>10, Zenon
       DEF remove_user, set_user_role, set_user_enabled, authenticate_user
  <2> QED BY <1>3, <2>1, <2>2, Zenon
<1>11. ASSUME NEW n \in Name, revoke_user_invite(n) PROVE NameInv'
  BY <1>4, <1>11, Zenon DEF revoke_user_invite
<1>12. ASSUME \/ \E n \in Name : revoke_user_sessions(n)
              \/ EvictInvitesOnly \/ sign_user_session \/ LoginLost
              \/ TimePasses \/ DisciplineChanges \/ UNCHANGED peopleVars
       PROVE  NameInv'
  BY <1>5, <1>12, Zenon
     DEF revoke_user_sessions, EvictInvitesOnly, sign_user_session,
     LoginLost, TimePasses, DisciplineChanges, peopleVars, accounts
<1> QED BY <1>7, <1>8, <1>9, <1>10, <1>11, <1>12, Zenon DEF PeopleNext

\* For any names, an account and an invitation never share one, whatever the
\* order of invitations, registrations, removals and evictions
\* (`check_name_available`, `complete_user_registration`).
THEOREM NameAlwaysOnce == PeopleSpec => []NameOnce
<1>1. PeopleInit => NameInv
  BY Zenon DEF PeopleInit, NameInv, NameOnce
<1>2. NameInv /\ [PeopleNext]_peopleVars => NameInv'
  BY NameStep, Zenon
<1>3. NameInv => NameOnce
  BY Zenon DEF NameInv
<1> QED BY <1>1, <1>2, <1>3, PTL DEF PeopleSpec

----------------------------------------------------------------------------
(* What a step does to the accounts.                                       *)

Clocked ==
    /\ time \in Nat \ {0} /\ disciplined \in BOOLEAN
    /\ NameInv
    /\ \A n \in Name : invites[n] # None => invites[n] \in Invite

Accounts ==
    /\ created \in AccountId
    /\ spent \in [AccountId -> Nat]
    /\ \A n \in Name : users[n] # None =>
        users[n] \in User /\ users[n].id \in 1 .. created

\* An account id is given out once, and nothing is spent in its name before.
Distinct ==
    /\ \A i \in AccountId : i > created => spent[i] = 0
    /\ \A m, n \in Name :
        users[m] # None /\ users[n] # None /\ users[m].id = users[n].id =>
            m = n

\* Clocked is preserved.
LEMMA ClockedStep ==
  ASSUME Clocked, [PeopleNext]_peopleVars PROVE Clocked'
<1>1. time' \in Nat \ {0} /\ disciplined' \in BOOLEAN
  <2>1. time' \in {time, time + 1}
            /\ disciplined' \in {disciplined, ~disciplined}
    BY Zenon
    DEF PeopleNext, peopleVars, accounts, add_user, create_user_invite,
        set_user_role,
       set_user_enabled, revoke_user_invite, begin_user_registration,
       remove_user, revoke_user_sessions, complete_user_registration,
       authenticate_user, EvictInvitesOnly, sign_user_session, LoginLost,
           TimePasses,
       DisciplineChanges
  <2>2. time' \in Nat \ {0}
    BY <2>1 DEF Clocked
  <2>3. disciplined' \in BOOLEAN
    BY <2>1, Zenon DEF Clocked
  <2> QED BY <2>2, <2>3, Zenon
<1>2. NameInv'
  BY NameStep, Zenon DEF Clocked
<1>3. \A n \in Name : invites'[n] # None => invites'[n] \in Invite
  <2> SUFFICES ASSUME NEW m \in Name, invites'[m] # None
                          PROVE invites'[m] \in Invite
    BY Zenon
  <2>1. evict_expired_invites[m] # None => evict_expired_invites[m] \in Invite
    BY EvictsInvites, Zenon DEF Clocked
  <2>2. ASSUME NEW n \in Name, NEW flag \in BOOLEAN,
                   create_user_invite(n, flag)
        PROVE  invites'[m] \in Invite
    <3> DEFINE i == [admin |-> flag, started |-> FALSE,
                     expires_at |-> time + InviteTtl]
    <3>1. invites' = [evict_expired_invites EXCEPT ![n] = i]
      BY <2>2, Zenon DEF create_user_invite
    <3>2. i \in Invite
      BY PeopleAssumption DEF Invite, Clocked
    <3> HIDE DEF i
    <3> QED BY <2>1, <3>1, <3>2, EvictsInvites, Zenon DEF Clocked
  <2>3. ASSUME NEW n \in Name, begin_user_registration(n)
        PROVE  invites'[m] \in Invite
    <3> DEFINE i == [admin |-> evict_expired_invites[n].admin,
            started |-> TRUE,
                     expires_at |-> time + HandleTtl]
    <3>1. evict_expired_invites[n] \in Invite
      BY <2>3, EvictsInvites, Zenon DEF begin_user_registration, Clocked
    <3>2. i \in Invite
      BY <3>1, PeopleAssumption DEF Invite, Clocked
    <3>3. invites' = [evict_expired_invites EXCEPT ![n] = i]
      BY <2>3, Zenon DEF begin_user_registration
    <3> HIDE DEF i
    <3> QED BY <2>1, <3>2, <3>3, EvictsInvites, Zenon DEF Clocked
  <2>4. CASE invites'[m] \in {None, invites[m], evict_expired_invites[m]}
    BY <2>1, <2>4, Zenon DEF Clocked
  <2>5. \/ invites' \in {invites, evict_expired_invites}
        \/ \E n \in Name : \/ invites' = [invites EXCEPT ![n] = None]
                            \/ invites' =
                                 [evict_expired_invites EXCEPT ![n] = None]
                            \/ begin_user_registration(n)
                            \/ \E flag \in BOOLEAN :
                                 create_user_invite(n, flag)
    BY Zenon DEF PeopleNext, peopleVars, accounts, add_user, set_user_role,
       set_user_enabled, revoke_user_invite, 
       remove_user, revoke_user_sessions, complete_user_registration,
       authenticate_user, EvictInvitesOnly, sign_user_session, LoginLost,
           TimePasses,
       DisciplineChanges
  <2> QED BY <2>2, <2>3, <2>4, <2>5, EvictsInvites, Zenon DEF Clocked, NameInv
<1> QED BY <1>1, <1>2, <1>3, Zenon DEF Clocked

Added(n) ==
    /\ users[n] = None /\ created < MaxAccounts /\ created' = created + 1
    /\ \E admin \in BOOLEAN, step \in Nat :
        /\ users' = [users EXCEPT ![n] = Account(admin, step)]
        /\ \/ step = 0 /\ UNCHANGED spent
           \/ spent' = [spent EXCEPT ![created + 1] = step]

Edited(n, u) ==
    /\ users[n] # None /\ UNCHANGED created
    /\ users' = [users EXCEPT ![n] = u]
    /\ u \in User /\ u.id = users[n].id
    /\ LastAdmin(n) => u.admin /\ ~u.disabled
    /\ \/ u.totp_last_step = users[n].totp_last_step /\ UNCHANGED spent
       \/ spent' = [spent EXCEPT ![u.id] = u.totp_last_step]

Dropped(n) ==
    /\ users[n] # None /\ ~LastAdmin(n) /\ UNCHANGED <<created, spent>>
    /\ users' = [users EXCEPT ![n] = None]

AccountStep ==
    \/ UNCHANGED <<users, created, spent>>
    \/ \E n \in Name : Added(n) \/ Dropped(n) \/ \E u : Edited(n, u)

\* A step adds an account, edits one, drops one, or leaves them alone; it
\* edits or drops the last enabled administrator into no less.
LEMMA AccountSteps ==
  ASSUME Clocked, Accounts, [PeopleNext]_peopleVars PROVE AccountStep
<1>1. ASSUME NEW n \in Name, NEW flag \in BOOLEAN, add_user(n, flag)
                 PROVE Added(n)
  <2>1. /\ users[n] = None /\ created < MaxAccounts /\ created' = created + 1
        /\ users' = [users EXCEPT ![n] = Account(flag, 0)] /\ UNCHANGED spent
    BY <1>1, Zenon DEF add_user, check_name_available
  <2> QED BY <2>1, Zenon DEF Added
<1>2. ASSUME NEW n \in Name, NEW step \in Nat,
                 complete_user_registration(n, step)
      PROVE  Added(n)
  <2>1. evict_expired_invites[n].admin \in BOOLEAN
    BY <1>2, EvictsInvites, Zenon
    DEF complete_user_registration, Clocked, Invite
  <2>2. /\ users[n] = None /\ created < MaxAccounts /\ created' = created + 1
        /\ users' =
             [users EXCEPT ![n] =
                 Account(evict_expired_invites[n].admin, step)]
        /\ spent' = [spent EXCEPT ![created + 1] = step]
    BY <1>2, Zenon DEF complete_user_registration
  <2> QED BY <2>1, <2>2, Zenon DEF Added
<1>3. ASSUME NEW n \in Name, users[n] # None
      PROVE  /\ users[n] \in User
             /\ LastAdmin(n) => users[n].admin /\ ~users[n].disabled
  BY <1>3, Zenon DEF Accounts, LastAdmin
<1>4. ASSUME NEW n \in Name, NEW step \in Nat, NEW k,
                 authenticate_user(n, k, step)
      PROVE  \E u : Edited(n, u)
  <2> DEFINE v == users[n]
             u == [v EXCEPT !.totp_last_step = step]
  <2>1. /\ v # None /\ UNCHANGED created /\ users' = [users EXCEPT ![n] = u]
        /\ spent' = [spent EXCEPT ![v.id] = step]
    BY <1>4, Zenon DEF authenticate_user
  <2>2. v \in User /\ (LastAdmin(n) => v.admin /\ ~v.disabled)
    BY <2>1, <1>3, Zenon
  <2>3. /\ u \in User /\ u.id = v.id /\ u.admin = v.admin
        /\ u.disabled = v.disabled /\ u.totp_last_step = step
    <3> HIDE DEF v
    <3> QED BY <2>2, Zenon DEF User
  <2> HIDE DEF u
  <2> QED BY <2>1, <2>2, <2>3, Zenon DEF Edited
<1>5. ASSUME NEW n \in Name, NEW flag \in BOOLEAN, set_user_role(n, flag)
      PROVE  \E u : Edited(n, u)
  <2> DEFINE v == users[n]
             u == [v EXCEPT !.admin = flag]
  <2>1. /\ v # None /\ UNCHANGED <<created, spent>>
        /\ users' = [users EXCEPT ![n] = u]
        /\ v.admin # flag /\ (~flag => ~LastAdmin(n))
    BY <1>5, Zenon DEF set_user_role
  <2>2. v \in User /\ (LastAdmin(n) => v.admin /\ ~v.disabled)
    BY <2>1, <1>3, Zenon
  <2>3. /\ u \in User /\ u.id = v.id /\ u.admin = flag
        /\ u.disabled = v.disabled /\ u.totp_last_step = v.totp_last_step
    <3> HIDE DEF v
    <3> QED BY <2>2, Zenon DEF User
  <2> HIDE DEF u
  <2> QED BY <2>1, <2>2, <2>3, Zenon DEF Edited
<1>6. ASSUME NEW n \in Name, NEW flag \in BOOLEAN, set_user_enabled(n, flag)
      PROVE  \E u : Edited(n, u)
  <2> DEFINE v == users[n]
             u == [v EXCEPT !.disabled = ~flag]
  <2>1. /\ v # None /\ UNCHANGED <<created, spent>>
        /\ users' = [users EXCEPT ![n] = u]
        /\ v.disabled = flag /\ (~flag => ~LastAdmin(n))
    BY <1>6, Zenon DEF set_user_enabled
  <2>2. v \in User /\ (LastAdmin(n) => v.admin /\ ~v.disabled)
    BY <2>1, <1>3, Zenon
  <2>3. /\ u \in User /\ u.id = v.id /\ u.admin = v.admin
        /\ u.disabled = ~flag /\ u.totp_last_step = v.totp_last_step
    <3> HIDE DEF v
    <3> QED BY <2>2, Zenon DEF User
  <2> HIDE DEF u
  <2> QED BY <2>1, <2>2, <2>3, Zenon DEF Edited
<1>7. ASSUME NEW n \in Name, remove_user(n) PROVE Dropped(n)
  BY <1>7, Zenon DEF remove_user, Dropped
<1>8. 0 .. time + 1 \subseteq Nat
  BY DEF Clocked
<1>9. \/ UNCHANGED <<users, created, spent>>
      \/ \E n \in Name :
            \/ remove_user(n)
            \/ \E flag \in BOOLEAN : \/ add_user(n, flag)
                                          \/ set_user_role(n, flag)
                                      \/ set_user_enabled(n, flag)
            \/ \E step \in Nat : \/ complete_user_registration(n, step)
                                  \/ \E k : authenticate_user(n, k, step)
  BY <1>8, Zenon
  DEF PeopleNext, peopleVars, accounts, create_user_invite, revoke_user_invite,
     begin_user_registration, revoke_user_sessions, EvictInvitesOnly,
     sign_user_session, LoginLost, TimePasses, DisciplineChanges
<1> QED BY <1>1, <1>2, <1>4, <1>5, <1>6, <1>7, <1>9, Zenon DEF AccountStep

----------------------------------------------------------------------------
(* No code is good twice, and the mesh keeps an administrator.             *)

AccountInv == Clocked /\ Accounts /\ Distinct /\ CodesSpent /\ NotStranded

\* What a new account is.
LEMMA NewAccount ==
  ASSUME Accounts, NEW admin \in BOOLEAN, NEW step \in Nat
  PROVE  LET u == Account(admin, step)
         IN  /\ u \in User /\ u # None /\ u.id = created + 1
             /\ u.totp_last_step = step
<1>1. Account(admin, step) \in User
  BY PeopleAssumption DEF Account, User, Accounts, AccountId
<1>2. Account(admin, step).id = created + 1
          /\ Account(admin, step).totp_last_step = step
  BY Zenon DEF Account
<1> QED BY <1>1, <1>2, Zenon, PeopleAssumption

\* An account's id is one that was given out.
LEMMA GivenOut ==
  ASSUME Accounts, NEW m \in Name, users[m] # None
  PROVE  users[m].id \in AccountId /\ users[m].id < created + 1
<1>1. users[m].id \in 1 .. created
  BY Zenon DEF Accounts
<1>2. created \in Nat /\ MaxAccounts \in Nat /\ created <= MaxAccounts
  BY PeopleAssumption DEF Accounts, AccountId
<1> QED BY <1>1, <1>2 DEF AccountId

\* A new account takes an id of its own.
LEMMA AccountsAdded ==
  ASSUME AccountInv, NEW n \in Name, Added(n)
  PROVE  Accounts' /\ Distinct' /\ CodesSpent' /\ NotStranded'
<1>1. PICK admin \in BOOLEAN, step \in Nat :
        /\ users' = [users EXCEPT ![n] = Account(admin, step)]
        /\ \/ step = 0 /\ UNCHANGED spent
           \/ spent' = [spent EXCEPT ![created + 1] = step]
  BY Zenon DEF Added
<1> DEFINE u == Account(admin, step)
<1>2. u \in User /\ u # None /\ u.id = created + 1 /\ u.totp_last_step = step
  BY NewAccount, Zenon DEF AccountInv
<1>3. /\ users[n] = None /\ created' = created + 1
      /\ users' = [users EXCEPT ![n] = u]
  BY <1>1, Zenon DEF Added
<1> HIDE DEF u
<1>4. created \in Nat /\ created + 1 \in AccountId /\ created \in AccountId
  BY PeopleAssumption DEF Added, AccountInv, Accounts, AccountId
<1>5. /\ spent' \in [AccountId -> Nat] /\ spent'[created + 1] = step
      /\ \A i \in AccountId : i # created + 1 => spent'[i] = spent[i]
  BY <1>1, <1>4 DEF AccountInv, Accounts, Distinct
<1>6. /\ users'[n] = u
      /\ \A m \in Name : m # n => users'[m] = users[m]
  BY <1>3, Zenon DEF AccountInv, Clocked, NameInv
<1>7. \A m \in Name : m # n /\ users'[m] # None =>
        users'[m] \in User /\ users'[m].id \in 1 .. created
  BY <1>6, Zenon DEF AccountInv, Accounts
<1>8. Accounts'
  BY <1>2, <1>3, <1>4, <1>5, <1>6, <1>7 DEF Accounts, AccountId
<1>9. Distinct'
  BY <1>2, <1>3, <1>4, <1>5, <1>6, <1>7 DEF AccountInv, Distinct, AccountId
<1>10. CodesSpent'
  <2> SUFFICES ASSUME NEW m \in Name, users'[m] # None
               PROVE  spent'[users'[m].id] <= users'[m].totp_last_step
    BY Zenon DEF CodesSpent
  <2>1. CASE m = n
    BY <2>1, <1>2, <1>5, <1>6
  <2>2. CASE m # n
    <3>1. users[m] # None /\ users'[m] = users[m]
      BY <2>2, <1>6, Zenon
    <3>2. users[m].id \in AccountId /\ users[m].id # created + 1
      BY <3>1, <1>4, GivenOut DEF AccountInv, AccountId
    <3>3. spent'[users[m].id] = spent[users[m].id]
      BY <3>2, <1>5, Zenon
    <3> QED BY <3>1, <3>3, Zenon DEF AccountInv, CodesSpent
  <2> QED BY <2>1, <2>2, Zenon
<1>11. NotStranded'
  BY <1>3, <1>6, Zenon DEF AccountInv, NotStranded
<1> QED BY <1>8, <1>9, <1>10, <1>11, Zenon

\* An edit keeps the id and forgets no spent step.
LEMMA AccountsEdited ==
  ASSUME AccountInv, NEW n \in Name, NEW u, Edited(n, u)
  PROVE  Accounts' /\ Distinct' /\ CodesSpent' /\ NotStranded'
<1>1. /\ users[n] # None /\ u \in User /\ u.id = users[n].id /\ u # None
      /\ created' = created
  BY Zenon, PeopleAssumption DEF Edited
<1>2. /\ users'[n] = u
      /\ \A m \in Name : m # n => users'[m] = users[m]
  BY Zenon DEF Edited, AccountInv, Clocked, NameInv
<1>3. \A m \in Name : users'[m] # None <=> users[m] # None
  BY <1>1, <1>2, Zenon
<1>4. \A m \in Name : users[m] # None => users'[m].id = users[m].id
  BY <1>1, <1>2, Zenon
<1>5. u.id \in AccountId /\ u.totp_last_step \in Nat
  BY <1>1, GivenOut, Zenon DEF AccountInv, User
<1>6. /\ spent' \in [AccountId -> Nat]
      /\ \A i \in AccountId : i # u.id => spent'[i] = spent[i]
      /\ spent'[u.id] <= u.totp_last_step
  <2>1. CASE u.totp_last_step = users[n].totp_last_step /\ UNCHANGED spent
    BY <1>1, <2>1, Zenon DEF AccountInv, Accounts, CodesSpent
  <2>2. CASE spent' = [spent EXCEPT ![u.id] = u.totp_last_step]
    BY <1>5, <2>2 DEF AccountInv, Accounts
  <2> QED BY <2>1, <2>2, Zenon DEF Edited
<1>7. Accounts'
  BY <1>1, <1>2, <1>6, Zenon DEF AccountInv, Accounts
<1>8. Distinct'
  <2>1. u.id \in 1 .. created
    BY <1>1, Zenon DEF AccountInv, Accounts
  <2>2. \A i \in AccountId : i > created' => spent'[i] = 0
    BY <1>1, <1>6, <2>1 DEF AccountInv, Accounts, Distinct, AccountId
  <2> QED BY <1>3, <1>4, <2>2, Zenon DEF AccountInv, Distinct
<1>9. CodesSpent'
  <2> SUFFICES ASSUME NEW m \in Name, users'[m] # None
               PROVE  spent'[users'[m].id] <= users'[m].totp_last_step
    BY Zenon DEF CodesSpent
  <2>1. CASE m = n
    BY <2>1, <1>1, <1>2, <1>6, Zenon
  <2>2. CASE m # n
    <3>1. users[m] # None /\ users'[m] = users[m] /\ users[m].id # u.id
      BY <2>2, <1>1, <1>2, Zenon DEF AccountInv, Distinct
    <3>2. users[m].id \in AccountId
      BY <3>1, GivenOut, Zenon DEF AccountInv
    <3>3. spent'[users[m].id] = spent[users[m].id]
      BY <3>1, <3>2, <1>6, Zenon
    <3> QED BY <3>1, <3>3, Zenon DEF AccountInv, CodesSpent
  <2> QED BY <2>1, <2>2, Zenon
<1>10. NotStranded'
  <2>1. PICK m \in Name : users[m] # None /\ users[m].admin
            /\ ~users[m].disabled
    BY Zenon DEF AccountInv, NotStranded
  <2>2. CASE LastAdmin(n)
    BY <2>2, <1>1, <1>2, Zenon DEF Edited, NotStranded
  <2>3. CASE ~LastAdmin(n)
    <3>1. \E l \in Name \ {n} : users[l] # None /\ users[l].admin
              /\ ~users[l].disabled
      BY <2>1, <2>3, Zenon DEF LastAdmin
    <3> QED BY <3>1, <1>2, Zenon DEF NotStranded
  <2> QED BY <2>2, <2>3, Zenon
<1> QED BY <1>7, <1>8, <1>9, <1>10, Zenon

\* A removal leaves another enabled administrator.
LEMMA AccountsDropped ==
  ASSUME AccountInv, NEW n \in Name, Dropped(n)
  PROVE  Accounts' /\ Distinct' /\ CodesSpent' /\ NotStranded'
<1>1. /\ created' = created /\ spent' = spent /\ users'[n] = None
      /\ \A m \in Name : m # n => users'[m] = users[m]
  BY Zenon DEF Dropped, AccountInv, Clocked, NameInv
<1>2. Accounts'
  BY <1>1, Zenon DEF AccountInv, Accounts
<1>3. Distinct'
  BY <1>1, Zenon DEF AccountInv, Distinct
<1>4. CodesSpent'
  BY <1>1, Zenon DEF AccountInv, CodesSpent
<1>5. NotStranded'
  <2>1. PICK m \in Name : users[m] # None /\ users[m].admin
            /\ ~users[m].disabled
    BY Zenon DEF AccountInv, NotStranded
  <2>2. \E l \in Name \ {n} : users[l] # None /\ users[l].admin
            /\ ~users[l].disabled
    BY <2>1, Zenon DEF LastAdmin, Dropped
  <2> QED BY <1>1, <2>2, Zenon DEF NotStranded
<1> QED BY <1>2, <1>3, <1>4, <1>5, Zenon

\* AccountInv is preserved.
LEMMA AccountInvStep ==
  ASSUME AccountInv, [PeopleNext]_peopleVars PROVE AccountInv'
<1>1. Clocked'
  BY ClockedStep, Zenon DEF AccountInv
<1>2. CASE UNCHANGED <<users, created, spent>>
  BY <1>1, <1>2, Zenon
  DEF AccountInv, Accounts, Distinct, CodesSpent, NotStranded
<1>3. CASE \E n \in Name : Added(n) \/ Dropped(n) \/ \E u : Edited(n, u)
  BY <1>1, <1>3, AccountsAdded, AccountsDropped, AccountsEdited, Zenon
     DEF AccountInv
<1> QED BY <1>2, <1>3, AccountSteps, Zenon DEF AccountStep, AccountInv

\* AccountInv holds at the start.
LEMMA AccountInvInit == ASSUME PeopleInit PROVE AccountInv
<1>1. PICK n \in Name :
        users = [m \in Name |-> IF m = n
                                THEN [id |-> 1, admin |-> TRUE,
                                    disabled |-> FALSE,
                                      totp_last_step |-> 0]
                                ELSE None]
  BY Zenon DEF PeopleInit
<1> DEFINE u == [id |-> 1, admin |-> TRUE, disabled |-> FALSE,
        totp_last_step |-> 0]
<1>2. /\ u \in User /\ u.id = 1 /\ u.admin = TRUE /\ u.disabled = FALSE
      /\ u.totp_last_step = 0 /\ u # None
  <2>1. u \in User
    BY Zenon DEF User
  <2>2. u # None
    BY <2>1, Zenon, PeopleAssumption
  <2> QED BY <2>1, <2>2, Zenon
<1>3. users = [m \in Name |-> IF m = n THEN u ELSE None]
  BY <1>1, Zenon
<1> HIDE DEF u
<1>4. created = 1 /\ spent = [i \in AccountId |-> 0] /\ 1 \in AccountId
  BY PeopleAssumption DEF PeopleInit, AccountId
<1>5. Clocked
  BY <1>3 DEF PeopleInit, Clocked, NameInv, NameOnce
<1>6. Accounts /\ Distinct /\ CodesSpent /\ NotStranded
  BY <1>2, <1>3, <1>4 DEF Accounts, Distinct, CodesSpent, NotStranded
<1> QED BY <1>5, <1>6, Zenon DEF AccountInv

\* AccountInv holds throughout.
LEMMA AccountInvAlways == PeopleSpec => []AccountInv
<1>1. PeopleInit => AccountInv
  BY AccountInvInit, Zenon
<1>2. AccountInv /\ [PeopleNext]_peopleVars => AccountInv'
  BY AccountInvStep, Zenon
<1> QED BY <1>1, <1>2, PTL DEF PeopleSpec

\* For any accounts, no sequence of demotions, disablings and removals leaves
\* the mesh without an enabled administrator (`refuse_to_strand_the_mesh`).
THEOREM NeverStranded == PeopleSpec => []NotStranded
<1>1. AccountInv => NotStranded
  BY Zenon DEF AccountInv
<1> QED BY <1>1, AccountInvAlways, PTL

\* For any accounts, the log never forgets a second-factor step that was
\* used, crashes between the two commits of a login included
\* (`authenticate_user`, `complete_user_registration`).
THEOREM CodesAlwaysSpent == PeopleSpec => []CodesSpent
<1>1. AccountInv => CodesSpent
  BY Zenon DEF AccountInv
<1> QED BY <1>1, AccountInvAlways, PTL

----------------------------------------------------------------------------
(* A session still good has an account behind it.                          *)

Backed(k) ==
    \E n \in Name :
        /\ users[n] # None /\ users[n].id = sessions[k].account
        /\ ~users[n].disabled
        /\ sessions[k].admin => users[n].admin

Filed(k) ==
    \E r \in recalled :
        /\ r.key = k
        /\ sessions[k].not_before <= r.not_before
        /\ sessions[k].not_after <= r.not_after

SessionInForce(k) == sessions[k] # None /\ time < sessions[k].not_after

SessionTables ==
    /\ sessions = [k \in Key |-> sessions[k]]
    /\ \A k \in Key : sessions[k] # None =>
        sessions[k] \in Session /\ sessions[k].not_before <= time
    /\ \A r \in recalled : r.not_after \in Nat

SessionInv ==
    /\ AccountInv
    /\ SessionTables
    /\ \A k \in Key : SessionInForce(k) =>
        \/ ~sessions[k].revoked /\ Backed(k)
        \/ sessions[k].revoked /\ Filed(k)

\* A login half done is for an account that stands: no request is served
\* before it is finished or lost.
LoginInv ==
    login # None =>
        /\ login \in Login
        /\ \E n \in Name :
            /\ users[n] # None /\ users[n].id = login.account
            /\ ~users[n].disabled /\ users[n].admin = login.admin

\* What the sessions of m need a step to keep.
Keeps(m) ==
    users[m] # None /\ ~users[m].disabled =>
        /\ users'[m] # None /\ ~users'[m].disabled
        /\ users'[m].id = users[m].id
        /\ users[m].admin => users'[m].admin

\* Revoking sessions: what is revoked is on file, and what was on file and
\* in force stays there.
LEMMA Revoked ==
  ASSUME SessionInv, NEW ks \in SUBSET Key, revoke_sessions(ks),
         \A k \in ks : sessions[k] # None, UNCHANGED time
  PROVE  /\ SessionTables'
         /\ \A k \in Key \ ks : sessions'[k] = sessions[k]
         /\ \A k \in ks : sessions'[k].revoked /\ Filed(k)'
         /\ \A k \in Key \ ks : SessionInForce(k) /\ Filed(k) => Filed(k)'
<1>1. /\ ks # {} => time_unix # 0
      /\ sessions' = [k \in Key |-> IF k \in ks
                                    THEN [sessions[k] EXCEPT !.revoked = TRUE]
                                    ELSE sessions[k]]
      /\ recalled' =
          {r \in recalled : r.not_after > time_unix} \cup
          {[key |-> k, not_before |-> time,
              not_after |-> sessions[k].not_after] : k \in ks}
  BY Zenon DEF revoke_sessions
<1>2. time \in Nat /\ time_unix \in {0, time}
  BY Zenon DEF SessionInv, AccountInv, Clocked, time_unix
<1>3. \A k \in Key \ ks : sessions'[k] = sessions[k]
  BY <1>1, Zenon
<1>4. ASSUME NEW k \in ks
      PROVE  /\ sessions'[k] \in Session /\ sessions'[k].revoked
             /\ sessions'[k].not_before = sessions[k].not_before
             /\ sessions'[k].not_after = sessions[k].not_after
             /\ sessions[k].not_before <= time /\ sessions[k].not_after \in Nat
  <2> DEFINE v == sessions[k]
  <2>1. v \in Session /\ v.not_before <= time
    BY Zenon DEF SessionInv, SessionTables
  <2>2. sessions'[k] = [v EXCEPT !.revoked = TRUE]
    BY <1>1, Zenon
  <2> HIDE DEF v
  <2>3. /\ sessions'[k] \in Session /\ sessions'[k].revoked
        /\ sessions'[k].not_before = v.not_before
        /\ sessions'[k].not_after = v.not_after
        /\ v.not_after \in Nat
    BY <2>1, <2>2, Zenon DEF Session
  <2> QED BY <2>1, <2>3, Zenon DEF v
<1>5. SessionTables'
  <2>1. ASSUME NEW r \in recalled' PROVE r.not_after \in Nat
    <3>1. CASE r \in recalled
      BY <3>1, Zenon DEF SessionInv, SessionTables
    <3>2. CASE \E k \in ks : r = [key |-> k, not_before |-> time,
                                  not_after |-> sessions[k].not_after]
      BY <1>4, <3>2
    <3> QED BY <1>1, <3>1, <3>2, Zenon
  <2>2. sessions' = [k \in Key |-> sessions'[k]]
    BY <1>1, Zenon
  <2>3. ASSUME NEW k \in Key, sessions'[k] # None
        PROVE  sessions'[k] \in Session /\ sessions'[k].not_before <= time'
    BY <1>3, <1>4, <2>3, Zenon DEF SessionInv, SessionTables
  <2> QED BY <2>1, <2>2, <2>3, Zenon DEF SessionTables
<1>6. ASSUME NEW k \in ks PROVE Filed(k)'
  <2> DEFINE r == [key |-> k, not_before |-> time,
                   not_after |-> sessions[k].not_after]
  <2>1. r \in recalled'
    BY <1>1, Zenon
  <2>2. r.key = k /\ r.not_before = time /\ r.not_after = sessions[k].not_after
    BY Zenon
  <2> HIDE DEF r
  <2> QED BY <1>4, <2>1, <2>2 DEF Filed
<1>7. ASSUME NEW k \in Key \ ks, SessionInForce(k), Filed(k) PROVE Filed(k)'
  <2>1. PICK r \in recalled : /\ r.key = k
                                 /\ sessions[k].not_before <= r.not_before
                                 /\ sessions[k].not_after <= r.not_after
    BY <1>7, Zenon DEF Filed
  <2>2. sessions[k].not_after \in Nat /\ r.not_after \in Nat
    BY <1>7, Zenon DEF SessionInForce, SessionInv, SessionTables, Session
  <2>3. r.not_after > time_unix
    BY <1>2, <1>7, <2>1, <2>2 DEF SessionInForce
  <2>4. r \in recalled'
    BY <1>1, <2>3, Zenon
  <2> QED BY <1>3, <2>1, <2>4, Zenon DEF Filed
<1> QED BY <1>3, <1>4, <1>5, <1>6, <1>7, Zenon

\* A session is good on as long as its account is kept.
LEMMA BackedOn ==
  ASSUME NEW k, sessions'[k] = sessions[k], Backed(k),
         \A m \in Name : users[m] # None
             /\ users[m].id = sessions[k].account =>
            Keeps(m)
  PROVE  Backed(k)'
BY Zenon DEF Backed, Keeps

\* A change to one account that takes something away ends its sessions.
LEMMA AccountChanged ==
  ASSUME SessionInv, AccountInv', UNCHANGED time,
         NEW n \in Name, users[n] # None,
         \A m \in Name \ {n} : Keeps(m),
         NEW ks, revoke_sessions(ks),
         (Keeps(n) /\ ks = {}) \/ ks = live_sessions_of(users[n].id)
  PROVE  SessionInv'
<1>1. ks \in SUBSET Key /\ \A k \in ks : sessions[k] # None
  BY Zenon DEF live_sessions_of
<1>2. /\ SessionTables'
      /\ \A k \in Key \ ks : sessions'[k] = sessions[k]
      /\ \A k \in ks : sessions'[k].revoked /\ Filed(k)'
      /\ \A k \in Key \ ks : SessionInForce(k) /\ Filed(k) => Filed(k)'
  BY <1>1, Revoked, Zenon
<1>3. ASSUME NEW k \in Key, SessionInForce(k)'
      PROVE  \/ ~sessions'[k].revoked /\ Backed(k)'
             \/ sessions'[k].revoked /\ Filed(k)'
  <2>1. CASE k \in ks
    BY <1>2, <2>1, Zenon
  <2>2. CASE k \notin ks
    <3>1. sessions'[k] = sessions[k] /\ SessionInForce(k)
      BY <1>2, <1>3, <2>2, Zenon DEF SessionInForce
    <3>2. CASE sessions[k].revoked
      BY <1>2, <2>2, <3>1, <3>2, Zenon DEF SessionInv
    <3>3. CASE ~sessions[k].revoked
      <4>1. Backed(k)
        BY <3>1, <3>3, Zenon DEF SessionInv
      <4>2. ASSUME NEW m \in Name, users[m] # None,
                   users[m].id = sessions[k].account
            PROVE  Keeps(m)
        <5>1. CASE m # n
          BY <5>1, Zenon
        <5>2. CASE m = n
          <6>1. sessions[k].not_after \in Nat /\ time \in Nat
            BY <3>1, Zenon
            DEF SessionInForce, SessionInv, SessionTables, Session,
               AccountInv, Clocked
          <6>2. sessions[k].not_after > time_unix
            BY <3>1, <6>1 DEF time_unix, SessionInForce
          <6>3. ks # live_sessions_of(users[n].id)
            BY <2>2, <3>1, <3>3, <4>2, <5>2, <6>2, Zenon
               DEF live_sessions_of, SessionInForce
          <6> QED BY <5>2, <6>3, Zenon
        <5> QED BY <5>1, <5>2, Zenon
      <4> QED BY <3>1, <3>3, <4>1, <4>2, BackedOn, Zenon
    <3> QED BY <3>2, <3>3, Zenon
  <2> QED BY <2>1, <2>2, Zenon
<1> QED BY <1>2, <1>3, Zenon DEF SessionInv

\* Steps that leave sessions and their accounts alone.
LEMMA AccountKept ==
  ASSUME SessionInv, AccountInv', time <= time', time' \in Nat,
         UNCHANGED <<sessions, recalled>>, \A m \in Name : Keeps(m)
  PROVE  SessionInv'
<1>1. SessionTables'
  <2>1. \A k \in Key : sessions[k] # None => sessions[k].not_before \in Nat
    BY Zenon DEF SessionInv, SessionTables, Session
  <2>2. time \in Nat
    BY Zenon DEF SessionInv, AccountInv, Clocked
  <2> QED BY <2>1, <2>2 DEF SessionInv, SessionTables
<1>2. ASSUME NEW k \in Key, SessionInForce(k)'
      PROVE  \/ ~sessions'[k].revoked /\ Backed(k)'
             \/ sessions'[k].revoked /\ Filed(k)'
  <2>1. time \in Nat /\ (sessions[k] # None => sessions[k].not_after \in Nat)
    BY Zenon DEF SessionInv, AccountInv, Clocked, SessionTables, Session
  <2>2. SessionInForce(k)
    BY <1>2, <2>1 DEF SessionInForce
  <2>3. Filed(k) => Filed(k)'
    BY Zenon DEF Filed
  <2>4. Backed(k) => Backed(k)'
    BY BackedOn, Zenon
  <2> QED BY <2>2, <2>3, <2>4, Zenon DEF SessionInv
<1> QED BY <1>1, <1>2, Zenon DEF SessionInv

\* The operator's changes to an account.
LEMMA SessionChanges ==
  ASSUME SessionInv, AccountInv', NEW n \in Name, NEW flag \in BOOLEAN,
         \/ remove_user(n) \/ set_user_role(n, flag)
         \/ set_user_enabled(n, flag) \/ revoke_user_sessions(n)
  PROVE  SessionInv'
<1> DEFINE v == users[n]
           live == live_sessions_of(users[n].id)
<1>1. users = [m \in Name |-> users[m]]
  BY Zenon DEF SessionInv, AccountInv, Clocked, NameInv
<1>2. v # None /\ UNCHANGED time
  BY Zenon
     DEF remove_user, set_user_role, set_user_enabled, revoke_user_sessions
<1>3. v \in User
  BY <1>2, Zenon DEF SessionInv, AccountInv, Accounts
<1>4. \A m \in Name \ {n} : Keeps(m)
  BY <1>1, Zenon DEF remove_user, set_user_role, set_user_enabled,
     revoke_user_sessions, Keeps
<1>5. CASE revoke_sessions(live)
  BY <1>2, <1>4, <1>5, AccountChanged, Zenon
<1>6. CASE set_user_role(n, TRUE)
  <2>1. users'[n] = [v EXCEPT !.admin = TRUE] /\ revoke_sessions({})
    BY <1>1, <1>6, Zenon DEF set_user_role
  <2>2. /\ users'[n] \in User /\ users'[n].id = v.id
        /\ users'[n].disabled = v.disabled /\ users'[n].admin = TRUE
    <3> HIDE DEF v
    <3> QED BY <1>3, <2>1, Zenon DEF User
  <2>3. Keeps(n)
    BY <2>2, Zenon, PeopleAssumption DEF Keeps
  <2> QED BY <1>2, <1>4, <2>1, <2>3, AccountChanged, Zenon
<1>7. CASE set_user_enabled(n, TRUE)
  <2>1. v.disabled /\ revoke_sessions({})
    BY <1>7, Zenon DEF set_user_enabled
  <2>2. Keeps(n)
    BY <2>1, Zenon DEF Keeps
  <2> QED BY <1>2, <1>4, <2>1, <2>2, AccountChanged, Zenon
<1> QED BY <1>5, <1>6, <1>7, Zenon
     DEF remove_user, set_user_role, set_user_enabled, revoke_user_sessions

\* The second commit of a login.
LEMMA SessionSigned ==
  ASSUME SessionInv, LoginInv, AccountInv', sign_user_session
  PROVE  SessionInv'
<1> DEFINE new == [account |-> login.account, admin |-> login.admin,
                   not_before |-> time_unix,
                   not_after |-> IF disciplined THEN time + SessionTtl ELSE 0,
                   revoked |-> FALSE]
<1>1. /\ login \in Login /\ UNCHANGED <<time, users, recalled>>
      /\ sessions' = [[k \in Key |->
                        IF sessions[k] # None
                            /\ sessions[k].not_after <= login.at
                        THEN None
                        ELSE sessions[k]] EXCEPT ![login.key] = new]
  BY Zenon DEF sign_user_session, LoginInv
<1>2. time \in Nat /\ time_unix \in Nat /\ time_unix <= time
  BY DEF SessionInv, AccountInv, Clocked, time_unix
<1>3. /\ new \in Session /\ new.account = login.account
      /\ new.admin = login.admin /\ new.revoked = FALSE
      /\ new.not_before = time_unix
  <2>1. login.account \in Nat /\ login.admin \in BOOLEAN
    BY <1>1, Zenon DEF Login
  <2>2. (IF disciplined THEN time + SessionTtl ELSE 0) \in Nat
    BY <1>2, PeopleAssumption
  <2> QED BY <1>2, <2>1, <2>2, Zenon DEF Session
<1> HIDE DEF new
<1>4. login.key \in Key
  BY <1>1, Zenon DEF Login
<1>5. /\ sessions' = [k \in Key |-> sessions'[k]]
      /\ sessions'[login.key] = new
      /\ \A k \in Key \ {login.key} : sessions'[k] \in {None, sessions[k]}
  BY <1>1, <1>4, Zenon
<1>6. SessionTables'
  <2>1. ASSUME NEW k \in Key, sessions'[k] # None
        PROVE  sessions'[k] \in Session /\ sessions'[k].not_before <= time'
    BY <1>1, <1>2, <1>3, <1>5, <2>1, Zenon DEF SessionInv, SessionTables
  <2> QED BY <1>1, <1>5, <2>1, Zenon DEF SessionInv, SessionTables
<1>7. ASSUME NEW k \in Key, SessionInForce(k)'
      PROVE  \/ ~sessions'[k].revoked /\ Backed(k)'
             \/ sessions'[k].revoked /\ Filed(k)'
  <2>1. CASE k = login.key
    BY <1>1, <1>3, <1>5, <2>1
       DEF LoginInv, Backed, sign_user_session
  <2>2. CASE k # login.key
    <3>1. sessions'[k] = sessions[k] /\ SessionInForce(k)
      BY <1>1, <1>5, <1>7, <2>2, Zenon DEF SessionInForce
    <3>2. (Backed(k) => Backed(k)') /\ (Filed(k) => Filed(k)')
      BY <1>1, <3>1, Zenon DEF Backed, Filed
    <3> QED BY <3>1, <3>2, Zenon DEF SessionInv
  <2> QED BY <2>1, <2>2, Zenon
<1> QED BY <1>6, <1>7, Zenon DEF SessionInv

\* SessionInv is preserved.
LEMMA SessionStep ==
  ASSUME SessionInv, LoginInv, [PeopleNext]_peopleVars PROVE SessionInv'
<1>1. AccountInv'
  BY AccountInvStep, Zenon DEF SessionInv
<1>2. users = [m \in Name |-> users[m]] /\ time \in Nat
  BY Zenon DEF SessionInv, AccountInv, Clocked, NameInv
<1>3. ASSUME NEW n \in Name, NEW flag, NEW step,
             add_user(n, flag) \/ complete_user_registration(n, step)
      PROVE  SessionInv'
  <2>1. UNCHANGED <<time, sessions, recalled>> /\ users[n] = None
    BY <1>3, Zenon
       DEF add_user, check_name_available, complete_user_registration
  <2>2. \A m \in Name : Keeps(m)
    BY <1>2, <1>3, <2>1, Zenon DEF add_user, complete_user_registration, Keeps
  <2> QED BY <1>1, <1>2, <2>1, <2>2, AccountKept
<1>4. ASSUME NEW n \in Name, NEW step \in Nat, NEW k \in Key,
             authenticate_user(n, k, step)
      PROVE  SessionInv'
  <2> DEFINE v == users[n]
  <2>1. /\ UNCHANGED <<time, sessions, recalled>>
        /\ \A m \in Name \ {n} : Keeps(m)
        /\ v # None /\ users'[n] = [v EXCEPT !.totp_last_step = step]
    BY <1>2, <1>4, Zenon DEF authenticate_user, Keeps
  <2>2. v \in User
    BY <2>1, Zenon DEF SessionInv, AccountInv, Accounts
  <2>3. /\ users'[n].id = v.id /\ users'[n].disabled = v.disabled
        /\ users'[n].admin = v.admin /\ users'[n] \in User
    <3> HIDE DEF v
    <3> QED BY <2>1, <2>2, Zenon DEF User
  <2>4. \A m \in Name : Keeps(m)
    BY <2>1, <2>3, Zenon, PeopleAssumption DEF Keeps
  <2> QED BY <1>1, <1>2, <2>1, <2>4, AccountKept
<1>5. ASSUME UNCHANGED <<users, sessions, recalled>>,
                 time' \in {time, time + 1}
      PROVE  SessionInv'
  <2>1. \A m \in Name : Keeps(m)
    BY <1>5, Zenon DEF Keeps
  <2> QED BY <1>1, <1>2, <1>5, <2>1, AccountKept
<1>6. \/ \E n \in Name, flag \in BOOLEAN :
            \/ remove_user(n) \/ set_user_role(n, flag)
            \/ set_user_enabled(n, flag) \/ revoke_user_sessions(n)
            \/ add_user(n, flag)
      \/ sign_user_session
      \/ \E n \in Name, step \in Nat :
            \/ complete_user_registration(n, step)
            \/ \E k \in Key : authenticate_user(n, k, step)
      \/ UNCHANGED <<users, sessions, recalled>> /\ time' \in {time, time + 1}
  <2>1. 0 .. time + 1 \subseteq Nat
    BY <1>2
  <2> QED BY <2>1, Zenon
             DEF PeopleNext, peopleVars, accounts, create_user_invite,
                 revoke_user_invite,
     begin_user_registration, EvictInvitesOnly, LoginLost, TimePasses,
         DisciplineChanges
<1>7. ASSUME NEW n \in Name, NEW flag \in BOOLEAN,
             \/ remove_user(n) \/ set_user_role(n, flag)
             \/ set_user_enabled(n, flag) \/ revoke_user_sessions(n)
      PROVE  SessionInv'
  BY <1>1, <1>7, SessionChanges, Zenon
<1>8. CASE sign_user_session
  BY <1>1, <1>8, SessionSigned, Zenon
<1> QED BY <1>3, <1>4, <1>5, <1>6, <1>7, <1>8, Zenon

\* LoginInv is preserved.
LEMMA LoginStep ==
  ASSUME AccountInv, LoginInv, [PeopleNext]_peopleVars PROVE LoginInv'
<1>1. users = [m \in Name |-> users[m]] /\ time \in Nat
  BY Zenon DEF AccountInv, Clocked, NameInv
<1>2. CASE login' = None
  BY <1>2, Zenon DEF LoginInv
<1>3. CASE UNCHANGED <<users, login>>
  BY <1>3, Zenon DEF LoginInv
<1>4. ASSUME NEW n \in Name, NEW step \in Nat, NEW k \in Key,
             authenticate_user(n, k, step)
      PROVE  LoginInv'
  <2> DEFINE v == users[n]
  <2>1. /\ v # None /\ ~v.disabled
        /\ users'[n] = [v EXCEPT !.totp_last_step = step]
        /\ login' =
             [key |-> k, account |-> v.id, admin |-> v.admin, at |-> time]
    BY <1>1, <1>4, Zenon DEF authenticate_user
  <2>2. v \in User
    BY <2>1, Zenon DEF AccountInv, Accounts
  <2>3. /\ users'[n].id = v.id /\ users'[n].disabled = v.disabled
        /\ users'[n].admin = v.admin /\ users'[n] \in User
    <3> HIDE DEF v
    <3> QED BY <2>1, <2>2, Zenon DEF User
  <2>4. /\ login' \in Login /\ login'.account = v.id /\ login'.admin = v.admin
    <3>1. v.id \in Nat /\ v.admin \in BOOLEAN
      BY <2>2, Zenon DEF User
    <3> HIDE DEF v
    <3> QED BY <1>1, <2>1, <3>1, Zenon DEF Login
  <2>5. users'[n] # None
    BY <2>3, Zenon, PeopleAssumption
  <2> QED BY <2>1, <2>3, <2>4, <2>5, Zenon DEF LoginInv
<1>5. \/ login' = None \/ UNCHANGED <<users, login>>
      \/ \E n \in Name, k \in Key, step \in Nat : authenticate_user(n, k, step)
  <2>1. 0 .. time + 1 \subseteq Nat
    BY <1>1
  <2> QED BY <2>1, Zenon
             DEF PeopleNext, peopleVars, accounts, Idle, add_user,
                 create_user_invite, set_user_role,
     set_user_enabled, revoke_user_invite, begin_user_registration,
     remove_user, revoke_user_sessions, complete_user_registration,
     EvictInvitesOnly, sign_user_session, LoginLost, TimePasses,
         DisciplineChanges
<1> QED BY <1>2, <1>3, <1>4, <1>5, Zenon

\* For any accounts and keys, a session that is still good belongs to an
\* account that exists, is enabled and has the session's role, or its
\* revocation is on file until its last instant: across demotions, removals,
\* re-created names, an undisciplined clock, and a login interrupted between
\* its two commits (`revoke_sessions`, `live_sessions_of`).
THEOREM SessionsAlwaysBacked == PeopleSpec => []SessionsBacked
<1> DEFINE J == SessionInv /\ LoginInv
<1>1. PeopleInit => J
  <2> SUFFICES ASSUME PeopleInit PROVE J
    BY Zenon
  <2>1. AccountInv
    BY AccountInvInit, Zenon
  <2> QED BY <2>1, Zenon
             DEF PeopleInit, SessionInv, SessionTables, LoginInv,
                 SessionInForce
<1>2. J /\ [PeopleNext]_peopleVars => J'
  BY SessionStep, LoginStep, Zenon DEF SessionInv
<1>3. J => SessionsBacked
  BY Zenon DEF SessionInv, SessionsBacked, Backed, Filed, SessionInForce
<1> HIDE DEF J
<1> QED BY <1>1, <1>2, <1>3, PTL DEF PeopleSpec

-----------------------------------------------------------------------------
(* The authority's database.                                               *)

\* A list that names nothing twice.
Once(list) == \A i, j \in 1 .. Len(list) : list[i] = list[j] => i = j

\* What maps one set onto another and no two members to one counts both.
LEMMA OneToOne ==
    ASSUME NEW S, NEW T, NEW f \in [S -> T],
           \A a, b \in S : f[a] = f[b] => a = b,
           \A t \in T : \E s \in S : f[s] = t
    PROVE  ExistsBijection(S, T)
BY Zenon
   DEF ExistsBijection, Bijection, Injection, Surjection, IsInjective

\* A list without repetition is as long as what it names.
LEMMA OnceCounts ==
    ASSUME NEW S, NEW list \in Seq(S), Once(list)
    PROVE  Cardinality(Range(list)) = Len(list)
<1> DEFINE n == Len(list)
           T == Range(list)
<1>1. n \in Nat /\ DOMAIN list = 1 .. n /\ list \in [1 .. n -> S]
  OBVIOUS
<1>2. T = {list[i] : i \in 1 .. n}
  BY <1>1 DEF Range
<1>3. list \in [1 .. n -> T]
  BY <1>1, <1>2
<1>4. \A a, b \in 1 .. n : list[a] = list[b] => a = b
  BY DEF Once
<1>5. \A t \in T : \E a \in 1 .. n : list[a] = t
  BY <1>2
<1> HIDE DEF n, T
<1>6. ExistsBijection(1 .. n, T)
  <2> DEFINE D == 1 .. n
  <2> HIDE DEF D
  <2>1. /\ list \in [D -> T] /\ \A t \in T : \E a \in D : list[a] = t
        /\ \A a, b \in D : list[a] = list[b] => a = b
    BY <1>3, <1>4, <1>5 DEF D
  <2>2. ExistsBijection(D, T)
    BY ONLY <2>1, OneToOne
  <2> QED BY <2>2 DEF D
<1>7. IsFiniteSet(1 .. n) /\ Cardinality(1 .. n) = n
  BY <1>1, FS_Interval
<1> QED BY <1>6, <1>7, FS_Bijection DEF n, T

\* A record's rows in the index: each of them once.
Names(lists, copies) ==
    /\ lists \in [Body -> Seq(RowId)]
    /\ \A b \in Body : Once(lists[b]) /\ Range(lists[b]) = copies[b]

\* The rows of the table that hold each record.
Held == [b \in Body |-> RowsOf(b)]

\* A list that names the rows of a record is as long as they are many.
LEMMA NamesCounts ==
    ASSUME NEW lists, NEW copies, Names(lists, copies), NEW b \in Body
    PROVE  Len(lists[b]) = Cardinality(copies[b])
BY OnceCounts DEF Names

\* A table has finitely many rows.
LEMMA RowsFinite ==
    ASSUME NEW T \in SUBSET RowId
    PROVE  IsFiniteSet(T) /\ Cardinality(T) \in Nat
<1>1. IsFiniteSet(RowId)
  BY FS_Interval, DbAssumption DEF RowId
<1> QED BY <1>1, FS_Subset, FS_CardinalityType

\* Listing rows in the order of their ids names each of them once.
LEMMA ListedOnce ==
    ASSUME NEW T \in SUBSET RowId, NEW list \in Listed(T)
    PROVE  list \in Seq(RowId) /\ Once(list) /\ Range(list) = T
<1> DEFINE n == Cardinality(T)
<1>1. n \in Nat /\ IsFiniteSet(T)
  BY RowsFinite
<1>2. /\ list \in [1 .. n -> T]
      /\ \A i, j \in 1 .. n : i < j => list[i] < list[j]
  BY DEF Listed
<1>3. T \subseteq Int
  BY DEF RowId
<1> HIDE DEF n
<1>4. list \in Seq(RowId) /\ Len(list) = n
  BY <1>1, <1>2
<1>5. \A i, j \in 1 .. n : list[i] = list[j] => i = j
  <2> SUFFICES ASSUME NEW i \in 1 .. n, NEW j \in 1 .. n, list[i] = list[j],
                          i # j
               PROVE  FALSE
    BY Zenon
  <2>1. list[i] \in Int /\ list[j] \in Int
    <3>1. list[i] \in T /\ list[j] \in T
      BY <1>2, Zenon
    <3> QED BY <1>3, <3>1, Zenon
  <2>2. i < j \/ j < i
    BY <1>1
  <2> QED BY <1>2, <2>1, <2>2
<1>6. Once(list)
  BY <1>4, <1>5 DEF Once
<1>7. Range(list) \subseteq T
  BY <1>2 DEF Range
<1>8. Cardinality(Range(list)) = n
  BY <1>4, <1>6, OnceCounts
<1>9. Range(list) = T
  BY <1>1, <1>7, <1>8, FS_Subset DEF n
<1> QED BY <1>4, <1>6, <1>9

\* The index built while loading names the rows of every record.
LEMMA IndexesName ==
    ASSUME NEW copies, \A b \in Body : copies[b] \in SUBSET RowId,
           NEW lists \in Indexes(copies)
    PROVE  Names(lists, copies)
<1>1. \A b \in Body : lists[b] \in Listed(copies[b])
  BY DEF Indexes
<1>2. \A b \in Body : /\ lists[b] \in Seq(RowId) /\ Once(lists[b])
                      /\ Range(lists[b]) = copies[b]
  BY <1>1, ListedOnce
<1>3. lists = [b \in Body |-> lists[b]]
  BY DEF Indexes
<1> QED BY <1>2, <1>3 DEF Names

-----------------------------------------------------------------------------

\* A database that is set up holds the records, and the snapshot it was
\* imported from is the one still on disk, if one is.
Settled == Stored = records /\ (json = NoBody \/ imported = json)

\* The inductive invariant: what the index, the view in memory and the
\* snapshot are worth in each phase of the store. Outside a change the view
\* is the records; inside one it is one request away from them.
DbInv ==
    /\ rows \in [RowId -> Body \cup {NoBody}]
    /\ last_row \in 0 .. MaxRows
    /\ \A r \in RowId : r > last_row => rows[r] = NoBody
    /\ json \in Snapshots \cup {NoBody}
    /\ phase \in {"closed", "importing", "open", "changing"}
    /\ IF initialized THEN Settled ELSE phase = "closed" /\ last_row = 0
    /\ phase # "closed" => Names(index, Held)
    /\ phase \in {"importing", "open"} => view = records
    /\ phase = "changing" => before = records /\ view \in Changed(records)
                             /\ last_row < MaxRows

\* The import of a snapshot, in one transaction with the mark that it was
\* made, keeps the invariant.
LEMMA ImportKeeps ==
    ASSUME DbInv, Import
    PROVE  DbInv'
<1> DEFINE state == IF json = NoBody THEN <<>> ELSE json
           copies == [b \in Body |-> Places(state, b)]
<1>1. /\ phase = "closed" /\ ~initialized
      /\ rows' = [r \in RowId |-> IF r <= Len(state) THEN state[r]
           ELSE rows[r]]
      /\ index' \in Indexes(copies)
      /\ last_row' = Len(state) /\ view' = Count(state)
           /\ records' = Count(state)
      /\ initialized' = TRUE /\ imported' = json /\ phase' = "importing"
      /\ json' = json
  BY Zenon DEF Import
<1>2. state \in Seq(Body) /\ Len(state) \in 0 .. MaxRows
  BY DbAssumption DEF DbInv
<1>3. rows \in [RowId -> Body \cup {NoBody}]
          /\ \A r \in RowId : rows[r] = NoBody
      /\ json \in Snapshots \cup {NoBody}
  BY <1>1 DEF DbInv, RowId
<1> HIDE DEF state
<1>4. /\ rows' \in [RowId -> Body \cup {NoBody}]
      /\ \A r \in RowId : r > Len(state) => rows'[r] = NoBody
      /\ \A r \in RowId : r <= Len(state) => rows'[r] = state[r]
  BY <1>1, <1>2, <1>3, DbAssumption DEF RowId
<1>5. \A b \in Body : Held'[b] = copies[b] /\ copies[b] \in SUBSET RowId
  <2> TAKE b \in Body
  <2>1. Places(state, b) = {r \in RowId : rows'[r] = b}
    BY <1>2, <1>4, DbAssumption DEF Places, RowId
  <2> QED BY <2>1 DEF Held, RowsOf
<1>6. Names(index', copies)
  BY <1>1, <1>5, IndexesName
<1>7. Names(index', Held')
  BY <1>5, <1>6 DEF Names
<1>8. Stored' = Count(state)
  BY <1>5 DEF Stored, Count, Held
<1> QED BY <1>1, <1>2, <1>3, <1>4, <1>7, <1>8 DEF DbInv, Settled

\* Reading the table at start keeps the invariant.
LEMMA LoadKeeps ==
    ASSUME DbInv, Load
    PROVE  DbInv'
<1>1. /\ phase = "closed" /\ initialized /\ view' = Stored
      /\ index' \in Indexes(Held)
      /\ phase' = IF json = NoBody THEN "open"
                  ELSE IF IsLeftover THEN "importing" ELSE "refused"
      /\ UNCHANGED <<rows, last_row, initialized, imported, json, records>>
  BY DEF Load, Held
<1>2. Stored = records /\ (json = NoBody \/ imported = json)
  BY <1>1 DEF DbInv, Settled
<1>3. phase' \in {"open", "importing"}
  BY <1>1, <1>2 DEF IsLeftover
<1>4. Names(index', Held)
  <2>1. \A b \in Body : Held[b] \in SUBSET RowId
    BY DEF Held, RowsOf
  <2> QED BY <1>1, <2>1, IndexesName
<1>5. Held' = Held /\ Stored' = Stored
  BY <1>1 DEF Held, Stored, RowsOf
<1>6. Names(index', Held')
  BY <1>4, <1>5
<1> QED BY <1>1, <1>2, <1>3, <1>5, <1>6 DEF DbInv, Settled

\* Moving the imported snapshot aside, or failing to, keeps the invariant.
LEMMA MoveAsideKeeps ==
    ASSUME DbInv, MoveAside
    PROVE  DbInv'
<1>1. /\ phase = "importing" /\ phase' = "open" /\ json' \in {json, NoBody}
      /\ UNCHANGED <<view, index, rows, last_row, initialized, imported,
           records>>
  BY DEF MoveAside
<1>2. Held' = Held /\ Stored' = Stored
  BY <1>1 DEF Held, Stored, RowsOf
<1>3. Names(index', Held')
  BY <1>1, <1>2 DEF DbInv
<1> QED BY <1>1, <1>2, <1>3 DEF DbInv, Settled

\* The change made in memory keeps the invariant.
LEMMA MutateKeeps ==
    ASSUME DbInv, NEW v \in Changed(view), mutate(v)
    PROVE  DbInv'
<1>1. /\ phase = "open" /\ phase' = "changing" /\ before' = view /\ view' = v
      /\ last_row < MaxRows
      /\ UNCHANGED <<index, rows, last_row, initialized, imported, json,
           records>>
  BY DEF mutate
<1>2. Held' = Held /\ Stored' = Stored
  BY <1>1 DEF Held, Stored, RowsOf
<1>3. Names(index', Held') /\ view = records
  BY <1>1, <1>2 DEF DbInv
<1>4. v \in Changed(records')
  BY <1>1, <1>3
<1> QED BY <1>1, <1>2, <1>3, <1>4 DEF DbInv, Settled

\* A transaction that fails, and the view restored, keep the invariant.
LEMMA RollbackKeeps ==
    ASSUME DbInv, Rollback
    PROVE  DbInv'
<1>1. /\ phase = "changing" /\ phase' = "open" /\ view' = before
      /\ UNCHANGED <<index, rows, last_row, initialized, imported, json,
           records>>
  BY DEF Rollback
<1>2. Held' = Held /\ Stored' = Stored
  BY <1>1 DEF Held, Stored, RowsOf
<1>3. Names(index', Held') /\ before = records
  BY <1>1, <1>2 DEF DbInv
<1> QED BY <1>1, <1>2, <1>3 DEF DbInv, Settled

\* A crash at any point keeps the invariant.
LEMMA DieKeeps ==
    ASSUME DbInv, Die
    PROVE  DbInv'
<1>1. /\ phase # "closed" /\ phase' = "closed"
      /\ UNCHANGED <<rows, last_row, initialized, imported, json, records>>
  BY DEF Die
<1>2. Stored' = Stored
  BY <1>1 DEF Stored, RowsOf
<1> QED BY <1>1, <1>2 DEF DbInv, Settled

\* A request asks for at most one record more than the rows hold, and for
\* no record twice more.
LEMMA OneMissing ==
    ASSUME NEW old, NEW v \in Changed(old), DOMAIN old = Body,
           \A b \in Body : old[b] \in Nat
    PROVE  /\ \A b \in Body : v[b] \in Nat /\ v[b] <= old[b] + 1
           /\ \A b, c \in Body : v[b] > old[b] /\ v[c] > old[c] => b = c
<1>1. \A b \in Body : v[b] \in Nat
  BY DEF Changed
<1>2. CASE \E b \in Body : v = [old EXCEPT ![b] = @ + 1]
  BY <1>1, <1>2
<1>3. CASE \E b \in Body : old[b] > 0 /\ v = [old EXCEPT ![b] = @ - 1]
  BY <1>1, <1>3
<1>4. CASE \E b, c \in Body :
              /\ b # c /\ old[b] > 0
              /\ v = [old EXCEPT ![b] = @ - 1, ![c] = @ + 1]
  BY <1>1, <1>4
<1> QED BY <1>2, <1>3, <1>4 DEF Changed

\* The first n of a list that names nothing twice.
LEMMA FirstOnce ==
    ASSUME NEW S, NEW list \in Seq(S), Once(list), NEW n \in 0 .. Len(list)
    PROVE  LET first == SubSeq(list, 1, n)
           IN  /\ first \in Seq(S) /\ Len(first) = n /\ Once(first)
               /\ Range(first) \subseteq Range(list)
<1> DEFINE first == SubSeq(list, 1, n)
<1>1. first \in Seq(S) /\ Len(first) = n
  OBVIOUS
<1>2. \A i \in 1 .. n : first[i] = list[i]
  OBVIOUS
<1> HIDE DEF first
<1>3. Once(first)
  BY <1>1, <1>2 DEF Once
<1>4. DOMAIN first = 1 .. n /\ DOMAIN list = 1 .. Len(list)
  BY <1>1
<1>5. Range(first) \subseteq Range(list)
  BY <1>2, <1>4 DEF Range
<1> QED BY <1>1, <1>3, <1>5 DEF first

\* A new row appended to a list that does not name it.
LEMMA AppendOnce ==
    ASSUME NEW S, NEW list \in Seq(S), Once(list), NEW x \in S,
           x \notin Range(list)
    PROVE  LET more == Append(list, x)
           IN  /\ more \in Seq(S) /\ Len(more) = Len(list) + 1 /\ Once(more)
               /\ Range(more) = Range(list) \cup {x}
<1> DEFINE more == Append(list, x)
           n == Len(list)
<1>1. n \in Nat /\ more \in Seq(S) /\ Len(more) = n + 1
  OBVIOUS
<1>2. (\A i \in 1 .. n : more[i] = list[i]) /\ more[n + 1] = x
  OBVIOUS
<1>3. DOMAIN more = 1 .. n + 1 /\ DOMAIN list = 1 .. n
  BY <1>1
<1>4. \A i \in 1 .. n : list[i] # x
  BY <1>3 DEF Range
<1> HIDE DEF more
<1>5. Once(more)
  BY <1>1, <1>2, <1>4 DEF Once
<1>6. Range(more) = Range(list) \cup {x}
  BY <1>1, <1>2, <1>3 DEF Range
<1> QED BY <1>1, <1>5, <1>6 DEF more

\* Deleting what is held too often and inserting the one record that is
\* lacking leaves the rows, the index and the answer the same
\* (`Backing::commit`).
LEMMA CommitKeeps ==
    ASSUME DbInv, commit
    PROVE  DbInv'
<1> DEFINE new == last_row + 1
           Stays(b) == IF view[b] < Len(index[b]) THEN view[b]
               ELSE Len(index[b])
<1>1. /\ phase = "changing" /\ phase' = "open" /\ records' = view
      /\ rows' = [r \in RowId |->
                     IF r = new /\ Missing # {}
                     THEN CHOOSE b \in Missing : TRUE
                     ELSE IF \E b \in Body : r \in Surplus(b) THEN NoBody
                     ELSE rows[r]]
      /\ last_row' = IF Missing = {} THEN last_row ELSE new
      /\ index' = Reindex
      /\ UNCHANGED <<view, initialized, imported, json>>
  BY Zenon DEF commit
<1>2. /\ rows \in [RowId -> Body \cup {NoBody}] /\ last_row \in 0 .. MaxRows
      /\ \A r \in RowId : r > last_row => rows[r] = NoBody
      /\ Names(index, Held) /\ view \in Changed(records) /\ last_row < MaxRows
      /\ initialized /\ Settled /\ json \in Snapshots \cup {NoBody}
  BY <1>1 DEF DbInv
<1>3. /\ index \in [Body -> Seq(RowId)]
      /\ \A b \in Body : /\ index[b] \in Seq(RowId) /\ Len(index[b]) \in Nat
                         /\ Once(index[b]) /\ Range(index[b]) = RowsOf(b)
  BY <1>2 DEF Names, Held
<1>4. records = Stored /\ DOMAIN records = Body
      /\ \A b \in Body : records[b] = Len(index[b])
  <2>1. \A b \in Body : Len(index[b]) = Cardinality(RowsOf(b))
    BY <1>2, NamesCounts DEF Held
  <2> QED BY <1>2, <2>1 DEF Settled, Stored
<1>5. /\ \A b \in Body : view[b] \in Nat /\ view[b] <= Len(index[b]) + 1
      /\ \A b, c \in Body :
            view[b] > Len(index[b]) /\ view[c] > Len(index[c]) => b = c
  <2>1. \A b \in Body : records[b] \in Nat
    BY <1>3, <1>4
  <2>2. /\ \A b \in Body : view[b] \in Nat /\ view[b] <= records[b] + 1
        /\ \A b, c \in Body : view[b] > records[b] /\ view[c] > records[c] =>
             b = c
    <3>1. view \in Changed(records) /\ DOMAIN records = Body
      BY <1>2, <1>4
    <3> QED BY <2>1, <3>1, OneMissing
  <2> QED BY <1>4, <2>2
<1>6. \A b \in Body : b \in Missing =>
          Missing = {b} /\ view[b] = Len(index[b]) + 1
  BY <1>3, <1>5 DEF Missing
<1>7. \A b \in Body :
         /\ Kept(b) \in Seq(RowId) /\ Len(Kept(b)) = Stays(b) /\ Once(Kept(b))
         /\ Range(Kept(b)) \subseteq RowsOf(b)
  <2> TAKE b \in Body
  <2>1. Stays(b) \in 0 .. Len(index[b])
    BY <1>3, <1>5
  <2>2. Kept(b) = SubSeq(index[b], 1, Stays(b))
    BY DEF Kept
  <2> HIDE DEF Stays
  <2> QED BY <1>3, <2>1, <2>2, FirstOnce
<1>8. \A b \in Body : /\ Surplus(b) = RowsOf(b) \ Range(Kept(b))
                      /\ b \in Missing => Kept(b) = index[b]
  <2> TAKE b \in Body
  <2>1. ASSUME b \in Missing PROVE Kept(b) = index[b]
    <3>1. ~(view[b] < Len(index[b]))
      BY <1>3, <1>6, <2>1
    <3>2. Kept(b) = SubSeq(index[b], 1, Len(index[b]))
      BY <3>1 DEF Kept
    <3> QED BY <1>3, <3>2
  <2> QED BY <1>3, <2>1 DEF Surplus
<1>9. new \in RowId /\ new > last_row /\ rows[new] = NoBody
  BY <1>2, DbAssumption DEF RowId
<1>10. \A b \in Body : new \notin RowsOf(b)
  BY <1>9, DbAssumption DEF RowsOf
<1> HIDE DEF new, Stays
<1>11. \A b \in Body :
          RowsOf(b)' = Range(Kept(b))
              \cup (IF b \in Missing THEN {new} ELSE {})
  <2> SUFFICES ASSUME NEW b \in Body
               PROVE  {r \in RowId : rows'[r] = b} =
                         Range(Kept(b))
                             \cup (IF b \in Missing THEN {new} ELSE {})
    BY DEF RowsOf
  <2>1. ASSUME NEW r \in RowId, r # new \/ Missing = {}
        PROVE  rows'[r] = b <=> r \in Range(Kept(b))
    <3>1. rows'[r] = IF \E c \in Body : r \in Surplus(c) THEN NoBody
              ELSE rows[r]
      BY <1>1, <2>1
    <3>2. r \in RowsOf(b) <=> rows[r] = b
      BY DEF RowsOf
    <3>3. CASE r \in Range(Kept(b))
      <4>1. rows[r] = b
        BY <1>7, <3>2, <3>3
      <4>2. \A c \in Body : r \notin Surplus(c)
        BY <1>8, <3>3, <4>1 DEF RowsOf
      <4> QED BY <3>1, <3>3, <4>1, <4>2
    <3>4. CASE r \notin Range(Kept(b))
      <4>1. CASE rows[r] = b
        <5>1. r \in Surplus(b)
          BY <1>8, <3>2, <3>4, <4>1
        <5> QED BY <3>1, <3>4, <5>1, DbAssumption
      <4>2. CASE rows[r] # b
        BY <3>1, <3>4, <4>2, DbAssumption
      <4> QED BY <4>1, <4>2
    <3> QED BY <3>3, <3>4
  <2>2. new \notin Range(Kept(b)) /\ Range(Kept(b)) \subseteq RowId
    BY <1>7, <1>10 DEF RowsOf
  <2>3. CASE Missing = {}
    BY <2>1, <2>2, <2>3
  <2>4. CASE Missing # {}
    <3>1. rows'[new] = CHOOSE c \in Missing : TRUE
      BY <1>1, <1>9, <2>4
    <3>2. rows'[new] \in Missing
      BY <2>4, <3>1
    <3>3. rows'[new] = b <=> b \in Missing
      BY <1>6, <3>2 DEF Missing
    <3> QED BY <1>9, <2>1, <2>2, <3>3
  <2> QED BY <2>3, <2>4
<1>12. \A b \in Body : /\ index'[b] \in Seq(RowId) /\ Once(index'[b])
                       /\ Range(index'[b]) = RowsOf(b)'
                       /\ Len(index'[b]) = view[b]
  <2> TAKE b \in Body
  <2>1. CASE b \in Missing
    <3>1. index'[b] = Append(Kept(b), new) /\ Kept(b) = index[b]
      BY <1>1, <1>8, <2>1 DEF Reindex, new
    <3>2. new \notin Range(Kept(b))
      BY <1>7, <1>10
    <3>3. /\ Append(Kept(b), new) \in Seq(RowId)
          /\ Len(Append(Kept(b), new)) = Len(Kept(b)) + 1
          /\ Once(Append(Kept(b), new))
          /\ Range(Append(Kept(b), new)) = Range(Kept(b)) \cup {new}
      BY <1>7, <1>9, <3>2, AppendOnce
    <3>4. Len(Kept(b)) + 1 = view[b]
      BY <1>6, <2>1, <3>1
    <3> QED BY <1>11, <2>1, <3>1, <3>3, <3>4
  <2>2. CASE b \notin Missing
    <3>1. index'[b] = Kept(b)
      BY <1>1, <2>2 DEF Reindex
    <3>2. Stays(b) = view[b]
      BY <1>3, <1>5, <2>2 DEF Stays, Missing
    <3>3. RowsOf(b)' = Range(Kept(b))
      BY <1>11, <2>2
    <3>4. Kept(b) \in Seq(RowId) /\ Len(Kept(b)) = Stays(b) /\ Once(Kept(b))
      BY <1>7
    <3> QED BY <3>1, <3>2, <3>3, <3>4, Zenon
  <2> QED BY <2>1, <2>2
<1>13. Names(index', Held')
  <2>1. index' = [b \in Body |-> index'[b]]
    BY <1>1 DEF Reindex
  <2>2. \A b \in Body : Held'[b] = RowsOf(b)'
    BY DEF Held
  <2> QED BY <1>12, <2>1, <2>2 DEF Names
<1>14. Stored' = view
  <2>1. \A b \in Body : Cardinality(RowsOf(b)') = view[b]
    BY <1>12, OnceCounts
  <2>2. view = [b \in Body |-> view[b]]
    BY <1>2 DEF Changed
  <2> QED BY <2>1, <2>2 DEF Stored
<1>15. /\ rows' \in [RowId -> Body \cup {NoBody}] /\ last_row' \in 0 .. MaxRows
       /\ \A r \in RowId : r > last_row' => rows'[r] = NoBody
  <2>1. Missing \subseteq Body
    BY DEF Missing
  <2>2. \A r \in RowId : rows'[r] \in Body \cup {NoBody}
    BY <1>1, <1>2, <2>1
  <2>3. last_row' \in 0 .. MaxRows /\ last_row' >= last_row
        /\ (Missing # {} => last_row' = new)
    BY <1>1, <1>2, <1>9, DbAssumption DEF new, RowId
  <2>4. ASSUME NEW r \in RowId, r > last_row' PROVE rows'[r] = NoBody
    <3>1. ~(r = new /\ Missing # {}) /\ r > last_row
      BY <1>2, <2>3, <2>4 DEF RowId, new
    <3> QED BY <1>1, <1>2, <3>1
  <2> QED BY <1>1, <2>2, <2>3, <2>4
<1>16. Settled'
  BY <1>1, <1>2, <1>14 DEF Settled
<1> QED BY <1>1, <1>2, <1>13, <1>15, <1>16 DEF DbInv

\* Every step keeps the invariant.
LEMMA DbStepKeeps ==
    ASSUME DbInv, [DbNext]_dbVars
    PROVE  DbInv'
<1>1. CASE UNCHANGED dbVars
  <2>1. Held' = Held /\ Stored' = Stored
    BY <1>1 DEF Held, Stored, RowsOf, dbVars
  <2> QED BY <1>1, <2>1 DEF DbInv, Settled, dbVars
<1> QED BY <1>1, ImportKeeps, LoadKeeps, MoveAsideKeeps, DieKeeps, MutateKeeps,
           CommitKeeps, RollbackKeeps DEF DbNext

\* For any records, snapshots and bounds: what a request is answered from is
\* what the database holds, and what it holds is what was acknowledged,
\* whatever fails or crashes on the way (`mutate`, `CaStore::load`,
\* `move_aside`).
THEOREM LogStoredIsAnswered == DbSpec => []StoredIsAnswered
<1>1. DbInit => DbInv
  BY DbAssumption DEF DbInit, DbInv
<1>2. DbInv /\ [DbNext]_dbVars => DbInv'
  BY DbStepKeeps
<1>3. DbInv => StoredIsAnswered
  <2> SUFFICES ASSUME DbInv PROVE StoredIsAnswered
    OBVIOUS
  <2>1. phase # "refused" /\ (initialized => Stored = records)
    BY DEF DbInv, Settled
  <2>2. ASSUME phase \in {"importing", "open"}, NEW b \in Body
        PROVE  Range(index[b]) = RowsOf(b) /\ Len(index[b]) = view[b]
    <3>1. Names(index, Held) /\ view = records /\ Stored = records
      BY <2>2 DEF DbInv, Settled
    <3>2. Len(index[b]) = Cardinality(RowsOf(b))
      BY <3>1, NamesCounts DEF Held
    <3> QED BY <3>1, <3>2 DEF Names, Held, Stored
  <2>3. phase \in {"importing", "open"} => view = records
    BY DEF DbInv
  <2> QED BY <2>1, <2>2, <2>3 DEF StoredIsAnswered
<1> QED BY <1>1, <1>2, <1>3, PTL DEF DbSpec
=============================================================================
