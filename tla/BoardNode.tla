----------------------------- MODULE BoardNode -----------------------------
(***************************************************************************)
(* The life of an embedded node across resets: what it keeps in its        *)
(* durable record, what it runs under, and how the two are kept together.  *)
(*                                                                         *)
(* The board boots from the record (load_or_init_record, Driver::restore), *)
(* then turns its loop (run_once_with_mgmt): write the clock checkpoint if *)
(* one is due, make a renewed certificate durable, then serve one event: a *)
(* renewal reply, a renewal poll, a revocation of this node, a management  *)
(* write.  The power can be cut at any point, in the middle of a write     *)
(* too.                                                                    *)
(*                                                                         *)
(* The medium is a DurableStore.  A call to it is one step here, with the  *)
(* outcomes the contract of module DurableRegister allows.                 *)
(***************************************************************************)
EXTENDS Naturals, FiniteSets

CONSTANTS
    Seed,                 \* identity seeds
    Factory,              \* the chip's factory address
    None,
    Legacy, Unreadable,   \* blobs that are not a record of this build
    Provider,             \* renewal providers an installer names, or None
    Posture,              \* values an operator gives require_auth
    MaxTime,              \* bound: the clock stops here
    IssueTimes,           \* bound: instants the authority issues at
    MaxCopies,            \* bound: superseded blobs left on the medium
    CheckpointInterval,   \* CHECKPOINT_INTERVAL, in ticks
    Life                  \* a certificate's validity, in ticks

VARIABLES
    time,       \* true time, in unix ticks; 0 is implausible
    blob,       \* what the store's load() answers
    copies,     \* what superseded blobs on the medium still give away
    retired,    \* seeds whose superseded copies a scrub has removed
    phase,      \* where the loop is
    durable,    \* the store is RecordSettings, not NullStore
    rec,        \* Persisted::value
    view,       \* RecordSettings::view
    ident,      \* the address this node routes under
    slot,       \* Driver::identity_seed
    auth,       \* the router's OgmAuth
    asked,      \* OgmAuth::outstanding_renewal
    pending,    \* OgmAuth::pending_renewed_cert
    latch,      \* the revocation this node is under
    gate,       \* the router's require_auth
    estimate,   \* WallClock::estimate
    tried,      \* ticks since checkpoint_attempted
    alarms      \* alarms raised since boot

medium == <<blob, copies, retired>>

ram == <<durable, rec, view, ident, slot, auth, asked, pending, latch, gate,
         estimate, tried, alarms>>

vars == <<time, medium, phase, ram>>

----------------------------------------------------------------------------
(* A certificate is known by the key it certifies and its not_before; a    *)
(* node's address is derived from its key, so a seed stands for it too.    *)

Cert == [seed : Seed, from : IssueTimes]

not_after(c) == c.from + Life

renew_from(c) == not_after(c) - Life \div 4

NodeRecord == [seed : Seed, checkpoint : 0..MaxTime, cert : Cert \cup {None},
               provider : Provider \cup {None},
               require_auth : Posture \cup {None}]

fresh(s) == [seed |-> s, checkpoint |-> 0, cert |-> None, provider |-> None,
             require_auth |-> None]

NotRecords == {None, Legacy, Unreadable}

Maybe(S) == S \cup {None}

Identity == [seed : Seed, cert : Cert, provider : Maybe(Provider)]

\* The clock reads seconds, an absent value is none of the values present,
\* and a blob of another build does not parse as a record of this one.
ASSUME BoardAssumption ==
    /\ MaxTime \in Nat \ {0} /\ IssueTimes \subseteq Nat
    /\ MaxCopies \in Nat \ {0} /\ CheckpointInterval \in Nat /\ Life \in Nat
    /\ Posture \subseteq BOOLEAN
    /\ None \notin Seed /\ None \notin Cert /\ None \notin Identity
    /\ NodeRecord \cap NotRecords = {}

Readable(b) == b \notin NotRecords

\* AtLeast(estimate) proves an instant past; Unknown proves nothing.
proves_past(t) == estimate # None /\ estimate > t

\* TrustAnchor::verify_cert, for a certificate the authority has signed.  A
\* clock that is only a floor never proves an instant still to come.
verify_cert(c) == ~proves_past(not_after(c))

Issued == {c \in Cert : c.from <= time}

\* The NodeSettings view of a record.
project(r) ==
    [require_auth |-> r.require_auth,
     identity |-> IF r.cert = None THEN None
                  ELSE [seed |-> r.seed, cert |-> r.cert,
                        provider |-> r.provider]]

\* NodeSettings::merge of an update onto the view, and then apply: the
\* record the merged settings describe, over what they have no room for.
merge(update) ==
    [require_auth |-> IF update.require_auth = None THEN view.require_auth
                                                    ELSE update.require_auth,
     identity |-> IF update.identity = None THEN view.identity
                                            ELSE update.identity]

apply(base, settings) ==
    LET kept == [base EXCEPT !.require_auth = settings.require_auth]
    IN  IF settings.identity = None THEN kept
        ELSE [kept EXCEPT !.seed = settings.identity.seed,
                          !.cert = settings.identity.cert,
                          !.provider = settings.identity.provider]

----------------------------------------------------------------------------
(* The durable store.                                                      *)

\* Of a superseded record only its seed is followed.  No record is ever
\* behind an unreadable blob, so an erase never brings one back.
Trace(b) == IF b = None THEN {} ELSE IF Readable(b) THEN {b.seed} ELSE {b}

AtMost(c) == {k \in SUBSET c : Cardinality(k) <= MaxCopies}

SaveLands(b) ==
    /\ blob' = b
    /\ copies' \in AtMost(copies \cup Trace(blob))
    /\ retired' = retired \ {b.seed}

SaveFails(b) ==
    /\ copies' \in AtMost(copies \cup Trace(b))
    /\ retired' = retired \ {b.seed}
    /\ UNCHANGED blob

\* Mutant: the scrub runs before the save.
SealTooEarly(b) ==
    /\ blob' = b
    /\ copies' = Trace(blob)
    /\ retired' = (retired \cup {blob.seed}) \ {b.seed}

\* mutate_sealed: the save landed and the scrub after it did as well.
SealLands(b) ==
    /\ blob' = b
    /\ copies' = {}
    /\ retired' = (retired \cup {blob.seed}) \ {b.seed}

\* What an erase that fails or is cut short can leave a load to answer.
EraseStops ==
    /\ blob' \in {blob, None} \cup (copies \cap NotRecords)
    /\ copies' \in AtMost(copies \cup Trace(blob))
    /\ UNCHANGED retired

\* An erase, and the save of b after it.
Erased(b) ==
    /\ blob' = b
    /\ copies' = {}
    /\ UNCHANGED retired

EraseThenSaveFails(b) ==
    /\ blob' = None
    /\ copies' \in AtMost(Trace(b))
    /\ UNCHANGED retired

\* The board loses everything it holds in memory.
Dark ==
    /\ phase' = "off"
    /\ durable' = FALSE
    /\ rec' = None /\ view' = None
    /\ ident' = None /\ slot' = None
    /\ auth' = None /\ asked' = FALSE /\ pending' = None
    /\ latch' = None /\ gate' = FALSE
    /\ estimate' = None /\ tried' = None
    /\ alarms' = {}

\* The power is cut in the middle of a write.
CutIn(b) == (SaveLands(b) \/ SaveFails(b)) /\ Dark /\ UNCHANGED time

----------------------------------------------------------------------------
(* Boot.                                                                   *)

\* Driver::restore.  The clock comes from the checkpoint and nothing else,
\* and neither of the two settings flags is read.
restore(r) ==
    /\ slot' = r.seed
    /\ estimate' = IF r.checkpoint = 0 THEN None ELSE r.checkpoint
    /\ auth' = IF r.cert = None \/ r.cert.seed # r.seed THEN None
               ELSE [seed |-> r.seed, cert |-> r.cert,
                     provider |-> r.provider]

\* A board that came up on a record, and one that could not.
Durable(r) ==
    /\ phase' = "top"
    /\ durable' = TRUE
    /\ rec' = r
    /\ view' = project(r)
    /\ ident' = r.seed
    /\ restore(r)
    /\ UNCHANGED <<time, asked, pending, latch, gate, tried, alarms>>

ephemeral ==
    /\ phase' = "top"
    /\ ident' = Factory
    /\ UNCHANGED <<time, durable, rec, view, slot, auth, asked, pending,
                   latch, gate, estimate, tried, alarms>>

LoadRecord ==
    /\ phase = "off"
    /\ Readable(blob)
    /\ Durable(blob)
    /\ UNCHANGED medium

LoadFails == phase = "off" /\ ephemeral /\ UNCHANGED medium

\* A seed the random number generator has not given out before.
Minted(s) == s \notin retired \cup copies

MintRecord ==
    /\ phase = "off"
    /\ blob \in {None, Legacy}
    /\ \E s \in Seed :
           Minted(s) /\ SaveLands(fresh(s)) /\ Durable(fresh(s))

MintFails ==
    /\ phase = "off"
    /\ blob \in {None, Legacy}
    /\ \E s \in Seed :
           /\ Minted(s)
           /\ \/ SaveFails(fresh(s)) /\ ephemeral
              \/ CutIn(fresh(s))

\* Mutant: the unreadable record is reported and left in place.
RepairNothing ==
    /\ phase = "off"
    /\ blob = Unreadable
    /\ UNCHANGED medium
    /\ ephemeral

\* An unreadable record is erased and a fresh one saved in its place, which
\* the next boot comes up under; this one does not.
RepairRecord ==
    /\ phase = "off"
    /\ blob = Unreadable
    /\ \E s \in Seed : Minted(s) /\ Erased(fresh(s))
    /\ ephemeral

RepairFails ==
    /\ phase = "off"
    /\ blob = Unreadable
    /\ \/ /\ \/ EraseStops
             \/ \E s \in Seed : Minted(s) /\ EraseThenSaveFails(fresh(s))
          /\ ephemeral \/ (Dark /\ UNCHANGED time)
       \/ /\ \E s \in Seed : Minted(s) /\ Erased(fresh(s))
          /\ Dark /\ UNCHANGED time

load_or_init_record ==
    LoadRecord \/ LoadFails \/ MintRecord \/ MintFails
        \/ RepairRecord \/ RepairFails

----------------------------------------------------------------------------
(* The top of the loop.                                                    *)

CheckpointDue ==
    /\ estimate # None
    /\ durable
    /\ estimate >= rec.checkpoint + CheckpointInterval
    /\ tried = None \/ tried >= CheckpointInterval

\* Mutant: the checkpoint written is the instant the next one is due.
CheckpointAhead ==
    /\ phase = "top"
    /\ IF ~CheckpointDue
       THEN phase' = "persist" /\ UNCHANGED <<time, medium, ram>>
       ELSE LET next == [rec EXCEPT !.checkpoint =
                                    estimate + CheckpointInterval]
            IN  /\ SaveLands(next)
                /\ rec' = next
                /\ tried' = 0
                /\ phase' = "persist"
                /\ UNCHANGED <<time, durable, view, ident, slot, auth,
                               asked, pending, latch, gate, estimate,
                               alarms>>

write_checkpoint_if_due ==
    /\ phase = "top"
    /\ IF ~CheckpointDue
       THEN phase' = "persist" /\ UNCHANGED <<time, medium, ram>>
       ELSE LET next == [rec EXCEPT !.checkpoint = estimate]
            IN  \/ /\ \/ SaveLands(next) /\ rec' = next
                      \/ SaveFails(next) /\ UNCHANGED rec
                   /\ tried' = 0
                   /\ phase' = "persist"
                   /\ UNCHANGED <<time, durable, view, ident, slot, auth,
                                  asked, pending, latch, gate, estimate,
                                  alarms>>
                \/ CutIn(next)

\* RecordSettings::persist.  A seed that rotates is written sealed; the view
\* follows the record only when the write is durable.
PersistLands(update) ==
    LET next == apply(rec, merge(update))
    IN  /\ durable
        /\ \/ SaveLands(next)
           \/ next.seed # rec.seed /\ SealLands(next)
        /\ rec' = next
        /\ view' = project(next)

PersistFails(update) ==
    /\ IF durable THEN SaveFails(apply(rec, merge(update)))
                  ELSE UNCHANGED medium
    /\ UNCHANGED <<rec, view>>

PersistCut(update) ==
    LET next == apply(rec, merge(update))
    IN  /\ durable
        /\ \/ CutIn(next)
           \/ next.seed # rec.seed /\ SealLands(next) /\ Dark /\ UNCHANGED time

\* Everything but the certificate is carried over from what is stored.
persist_renewed_cert ==
    /\ phase = "persist"
    /\ IF pending = None \/ ~durable \/ view.identity = None
       THEN /\ pending' = None
            /\ phase' = "wait"
            /\ UNCHANGED <<time, medium, durable, rec, view, ident, slot,
                           auth, asked, latch, gate, estimate, tried, alarms>>
       ELSE LET update == [require_auth |-> None,
                           identity |-> [view.identity EXCEPT
                                             !.cert = pending]]
            IN  \/ /\ \/ PersistLands(update) /\ UNCHANGED alarms
                      \/ /\ PersistFails(update)
                         /\ alarms' = alarms \cup {"CertNotDurable"}
                   /\ pending' = None
                   /\ phase' = "wait"
                   /\ UNCHANGED <<time, durable, ident, slot, auth, asked,
                                  latch, gate, estimate, tried>>
                \/ PersistCut(update)

----------------------------------------------------------------------------
(* One event per turn of the loop.                                         *)

Serve == phase = "wait" /\ phase' = "top" /\ UNCHANGED time

\* A frame, timer or query that touches none of this.
OtherEvent == Serve /\ UNCHANGED <<medium, ram>>

\* OgmAuth::poll_renewal, when it gets as far as sending a request.
poll_renewal ==
    /\ Serve
    /\ auth # None
    /\ auth.provider # None
    /\ proves_past(renew_from(auth.cert))
    /\ asked' = TRUE
    /\ UNCHANGED <<medium, durable, rec, view, ident, slot, auth, pending,
                   latch, gate, estimate, tried, alarms>>

\* Mutants: a reply that certifies another identity is installed; a renewed
\* certificate is not queued to be written.
IngestAnyIdentity(c) ==
    /\ Serve
    /\ auth # None
    /\ asked
    /\ verify_cert(c)
    /\ auth' = [auth EXCEPT !.cert = c]
    /\ asked' = FALSE
    /\ pending' = c
    /\ UNCHANGED <<medium, durable, rec, view, ident, slot, latch, gate,
                   estimate, tried, alarms>>

IngestUnqueued(c) ==
    /\ Serve
    /\ auth # None
    /\ asked
    /\ verify_cert(c)
    /\ c.seed = auth.cert.seed
    /\ not_after(c) > not_after(auth.cert)
    /\ auth' = [auth EXCEPT !.cert = c]
    /\ asked' = FALSE
    /\ UNCHANGED <<medium, durable, rec, view, ident, slot, pending, latch,
                   gate, estimate, tried, alarms>>

ingest_renew_reply(c) ==
    /\ Serve
    /\ auth # None
    /\ asked
    /\ verify_cert(c)
    /\ c.seed = auth.cert.seed
    /\ not_after(c) > not_after(auth.cert)
    /\ c.from >= auth.cert.from
    /\ auth' = [auth EXCEPT !.cert = c]
    /\ asked' = FALSE
    /\ pending' = c
    /\ UNCHANGED <<medium, durable, rec, view, ident, slot, latch, gate,
                   estimate, tried, alarms>>

\* A revocation of the certificate this node runs under, now in force.
apply_self_revocation ==
    /\ Serve
    /\ auth # None
    /\ estimate # None
    /\ \E t \in auth.cert.from..estimate :
           latch' = [seed |-> auth.seed, at |-> t]
    /\ auth' = None
    /\ asked' = FALSE
    /\ pending' = None
    /\ UNCHANGED <<medium, durable, rec, view, ident, slot, gate, estimate,
                   tried, alarms>>

\* WallClock::anchor, which only moves the estimate forward.
anchor(unix) ==
    estimate' = IF unix = 0 \/ (estimate # None /\ unix <= estimate)
                THEN estimate ELSE unix

self_revocation_cancels(c) ==
    latch # None /\ c.seed = latch.seed /\ c.from <= latch.at

Max2(a, b) == IF a > b THEN a ELSE b

\* SetAuth: certify the identity this node has (s is None), or replace it.
\* Durable before it is applied; a failed write changes nothing.
set_auth(s, c, p, unix) ==
    LET seed == IF s = None THEN slot ELSE s
        identity == [seed |-> seed, cert |-> c, provider |-> p]
        update == [require_auth |-> None, identity |-> identity]
    IN  /\ Serve
        /\ seed # None
        /\ verify_cert(c)
        /\ c.seed = seed
        /\ s = None => c.seed = ident
        /\ ~self_revocation_cancels(c)
        /\ PersistLands(update)
        /\ alarms' = IF c.seed = ident THEN alarms
                     ELSE alarms \cup {"CertifiedAddressMismatch"}
        /\ auth' = identity
        /\ asked' = FALSE
        /\ pending' = None
        /\ latch' = None
        /\ slot' = seed
        /\ anchor(Max2(unix, c.from))
        /\ UNCHANGED <<durable, ident, gate, tried>>

\* A management write the store refuses, or loses the power under.
WriteFails(update) ==
    /\ phase = "wait"
    /\ \/ /\ PersistFails(update)
          /\ phase' = "top"
          /\ UNCHANGED <<time, durable, ident, slot, auth, asked, pending,
                         latch, gate, estimate, tried, alarms>>
       \/ PersistCut(update)

set_auth_fails(c, p) ==
    /\ verify_cert(c)
    /\ ~self_revocation_cancels(c)
    /\ WriteFails([require_auth |-> None,
                   identity |-> [seed |-> c.seed, cert |-> c,
                                 provider |-> p]])

set_time(unix) ==
    LET floored == Max2(unix, IF auth = None THEN 0 ELSE auth.cert.from)
    IN  /\ Serve
        /\ unix # 0
        /\ anchor(floored)
        /\ UNCHANGED <<medium, durable, rec, view, ident, slot, auth, asked,
                       pending, latch, gate, tried, alarms>>

set_config(require) ==
    /\ Serve
    /\ PersistLands([require_auth |-> require, identity |-> None])
    /\ gate' = require
    /\ UNCHANGED <<durable, ident, slot, auth, asked, pending, latch,
                   estimate, tried, alarms>>

set_config_fails(require) ==
    WriteFails([require_auth |-> require, identity |-> None])

\* A request goes stale in half an hour, within a tick or across one.
Tick ==
    /\ time < MaxTime
    /\ time' = time + 1
    /\ estimate' = IF estimate = None THEN None ELSE estimate + 1
    /\ tried' = IF tried = None \/ tried >= CheckpointInterval THEN tried
                ELSE tried + 1
    /\ asked' \in {asked, FALSE}
    /\ UNCHANGED <<medium, phase, durable, rec, view, ident, slot, auth,
                   pending, latch, gate, alarms>>

Reset == phase # "off" /\ Dark /\ UNCHANGED <<time, medium>>

Init ==
    /\ time = 1
    /\ blob \in NotRecords
    /\ copies \in {{}, {Legacy}}
    /\ retired = {}
    /\ phase = "off"
    /\ durable = FALSE
    /\ rec = None /\ view = None
    /\ ident = None /\ slot = None
    /\ auth = None /\ asked = FALSE /\ pending = None
    /\ latch = None /\ gate = FALSE
    /\ estimate = None /\ tried = None
    /\ alarms = {}

Next ==
    \/ load_or_init_record
    \/ write_checkpoint_if_due
    \/ persist_renewed_cert
    \/ OtherEvent
    \/ poll_renewal
    \/ \E c \in Issued : ingest_renew_reply(c)
    \/ apply_self_revocation
    \/ \E s \in Seed \cup {None}, c \in Issued, p \in Provider,
          unix \in {0, time} : set_auth(s, c, p, unix)
    \/ \E c \in Issued, p \in Provider : set_auth_fails(c, p)
    \/ \E unix \in {0, time} : set_time(unix)
    \/ \E require \in Posture : set_config(require)
    \/ \E require \in Posture : set_config_fails(require)
    \/ Tick
    \/ Reset

Spec == Init /\ [][Next]_vars

----------------------------------------------------------------------------
Blobs == NodeRecord \cup NotRecords

TypeOK ==
    /\ time \in 1..MaxTime
    /\ blob \in Blobs
    /\ copies \subseteq Seed \cup NotRecords /\ Cardinality(copies) <= MaxCopies
    /\ retired \subseteq Seed
    /\ phase \in {"off", "top", "persist", "wait"}
    /\ durable \in BOOLEAN /\ (durable => rec \in NodeRecord)
    /\ ident \in Seed \cup {Factory, None}
    /\ slot \in Maybe(Seed)
    /\ auth \in Maybe(Identity)
    /\ asked \in BOOLEAN
    /\ pending \in Maybe(Cert)
    /\ gate \in BOOLEAN
    /\ estimate \in Maybe(1..MaxTime)
    /\ tried \in Maybe(0..CheckpointInterval)
    /\ alarms \subseteq {"CertNotDurable", "CertifiedAddressMismatch"}

\* Whatever is on the medium, a certificate in it certifies the seed beside
\* it, so restore never meets the CertifiedAddressMismatch that would be
\* refused at every boot.
CredentialFitsSeed ==
    Readable(blob) /\ blob.cert # None => blob.cert.seed = blob.seed

\* When the loop waits, the node runs under the credential it has stored, or
\* an alarm says that it does not; an address other than the certified one
\* is alarmed as well.  The record it works from is the one on the medium,
\* through every failed and interrupted write (mutate's rollback, persist's
\* refresh of the view): no write builds on a state that was not stored.
RunsUnderStored ==
    /\ phase = "wait" /\ auth # None =>
        /\ durable
        /\ auth.seed = blob.seed
        /\ auth.cert = blob.cert \/ "CertNotDurable" \in alarms
        /\ auth.seed = ident \/ "CertifiedAddressMismatch" \in alarms
    /\ durable => rec = blob /\ view = project(rec)

\* The clock is a floor: with honest installers and an honest authority, no
\* estimate and no stored checkpoint is ever ahead of the true time, however
\* often the board is reset.
ClockIsFloor ==
    /\ estimate # None => estimate <= time
    /\ Readable(blob) => blob.checkpoint <= time

\* A seed whose rotation was sealed is gone from the medium.
SealedSeedGone == retired \cap (copies \cup Trace(blob)) = {}

\* A medium that keeps being booted from ends up with a record this build
\* can read, and keeps one.
Repaired == []<>(phase = "off") => <>[]Readable(blob)

LiveSpec ==
    /\ Spec
    /\ WF_vars(load_or_init_record)
    /\ SF_vars(MintRecord)
    /\ SF_vars(RepairRecord)

\* A setting an operator changed over the management API is still in force
\* after a restart.
PostureSurvives ==
    phase = "wait" /\ durable /\ rec.require_auth # None =>
        gate = rec.require_auth
=============================================================================
