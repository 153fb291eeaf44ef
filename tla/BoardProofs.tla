---------------------------- MODULE BoardProofs -----------------------------
(***************************************************************************)
(* What a board may rely on across resets, interrupted writes and failed   *)
(* ones, for every set of seeds and certificates and every run of events.  *)
(*                                                                         *)
(* And its log ring: that a client which follows the log is told of every  *)
(* record, shown or missed.  The invariant says so of the cursor, of every *)
(* poll under way and of every answer under way, since an answer moves the *)
(* cursor to where the node was when it was given.                         *)
(***************************************************************************)
EXTENDS BoardNode, LogRing, FiniteSetTheorems, WellFoundedInduction, TLAPS

-----------------------------------------------------------------------------
(* The board.                                                              *)

\* A record that restore takes as it stands.
Stored(r) ==
    /\ r \in NodeRecord
    /\ r.checkpoint <= time
    /\ r.cert # None => r.cert.seed = r.seed /\ r.cert.from <= time

MediumInv ==
    /\ blob \in Blobs
    /\ copies \subseteq Seed \cup NotRecords
         /\ Cardinality(copies) <= MaxCopies
    /\ retired \subseteq Seed
    /\ Readable(blob) => Stored(blob)
    /\ SealedSeedGone

ClockInv ==
    /\ time \in 1..MaxTime
    /\ estimate \in Maybe(1..MaxTime)
    /\ estimate # None => estimate <= time

MiscType ==
    /\ phase \in {"off", "top", "persist", "wait"}
    /\ ident \in Seed \cup {Factory, None}
    /\ slot \in Maybe(Seed)
    /\ asked \in BOOLEAN
    /\ gate \in BOOLEAN
    /\ tried \in Maybe(0..CheckpointInterval)
    /\ alarms \subseteq {"CertNotDurable", "CertifiedAddressMismatch"}

\* The record in memory is the one stored, also after a write that failed.
RecordInv ==
    /\ durable \in BOOLEAN
    /\ durable => rec = blob /\ rec \in NodeRecord /\ view = project(rec)

\* The credential in use is the stored one, or is about to be, or an alarm
\* says that it is not.
AuthInv ==
    auth # None =>
        /\ auth \in Identity
        /\ durable /\ rec.cert # None
        /\ auth.seed = rec.seed /\ auth.cert.seed = auth.seed
        /\ auth.cert.from <= time
        /\ auth.cert = rec.cert \/ auth.cert = pending
               \/ "CertNotDurable" \in alarms
        /\ auth.seed = ident \/ "CertifiedAddressMismatch" \in alarms

\* A renewed certificate waits to be written only between the reply that
\* brought it and the next turn of the loop.
PendingInv ==
    pending # None => /\ auth # None /\ pending = auth.cert
                      /\ phase \in {"top", "persist"}

OffInv == phase = "off" => ~durable /\ auth = None /\ pending = None

RunInv == MiscType /\ RecordInv /\ AuthInv /\ PendingInv /\ OffInv

IInv == MediumInv /\ ClockInv /\ RunInv

LEMMA InitInv == Init => IInv
<1> SUFFICES ASSUME Init PROVE IInv
  BY Zenon
<1>1. Cardinality({}) = 0 /\ Cardinality({Legacy}) = 1
  BY FS_EmptySet, FS_Singleton, Zenon
<1>2. MediumInv
  BY <1>1, BoardAssumption
     DEF Init, MediumInv, Blobs, NotRecords, Readable, SealedSeedGone
<1>3. ClockInv
  BY BoardAssumption DEF Init, ClockInv, Maybe
<1>4. RunInv
  BY Zenon
     DEF Init, RunInv, MiscType, RecordInv, AuthInv, PendingInv, OffInv, Maybe
<1> QED
  BY <1>2, <1>3, <1>4, Zenon DEF IInv

LEMMA TypeFromInv == IInv => TypeOK
BY Zenon DEF IInv, MediumInv, ClockInv, RunInv, MiscType, RecordInv, AuthInv,
       PendingInv, TypeOK, Maybe, Identity

-----------------------------------------------------------------------------
(* The medium *)

LEMMA NoCopies == Cardinality({}) <= MaxCopies
BY FS_EmptySet, BoardAssumption

LEMMA RecordReadable ==
    ASSUME NEW b \in NodeRecord
    PROVE  Readable(b) /\ Trace(b) = {b.seed} /\ b.seed \in Seed
BY BoardAssumption, Zenon DEF Readable, Trace, NodeRecord, NotRecords

LEMMA TraceType ==
    ASSUME NEW b \in Blobs
    PROVE  Trace(b) \subseteq Seed \cup NotRecords
BY RecordReadable, Zenon DEF Trace, Blobs, Readable, NotRecords

LEMMA AtMostType ==
    ASSUME NEW c, NEW d \in AtMost(c)
    PROVE  d \subseteq c /\ Cardinality(d) <= MaxCopies
BY Zenon DEF AtMost

LEMMA FreshStored ==
    ASSUME ClockInv, NEW s \in Seed
    PROVE  Stored(fresh(s)) /\ fresh(s).seed = s
BY BoardAssumption DEF ClockInv, Stored, fresh, NodeRecord

LEMMA SaveLandsMedium ==
    ASSUME MediumInv, NEW b, Stored(b), SaveLands(b), time' = time
    PROVE  MediumInv'
<1>1. Readable(b) /\ Trace(b) = {b.seed} /\ b.seed \in Seed /\ b \in Blobs
  BY RecordReadable, Zenon DEF Stored, Blobs
<1>2. copies' \subseteq copies \cup Trace(blob)
      /\ Cardinality(copies') <= MaxCopies
  BY AtMostType, Zenon DEF SaveLands
<1>3. Trace(blob) \subseteq Seed \cup NotRecords
  BY TraceType, Zenon DEF MediumInv
<1>4. Stored(blob)'
  BY Zenon DEF SaveLands, Stored
<1>5. SealedSeedGone'
  BY <1>1, <1>2, Zenon DEF MediumInv, SealedSeedGone, SaveLands
<1> QED
  BY <1>1, <1>2, <1>3, <1>4, <1>5, Zenon DEF MediumInv, SaveLands

LEMMA SaveFailsMedium ==
    ASSUME MediumInv, NEW b, Stored(b), SaveFails(b), time' = time
    PROVE  MediumInv'
<1>1. Trace(b) = {b.seed} /\ b.seed \in Seed
  BY RecordReadable, Zenon DEF Stored
<1>2. copies' \subseteq copies \cup Trace(b)
      /\ Cardinality(copies') <= MaxCopies
  BY AtMostType, Zenon DEF SaveFails
<1>3. Readable(blob)' => Stored(blob)'
  BY Zenon DEF MediumInv, SaveFails, Stored
<1>4. SealedSeedGone'
  BY <1>1, <1>2, Zenon DEF MediumInv, SealedSeedGone, SaveFails
<1> QED
  BY <1>1, <1>2, <1>3, <1>4, Zenon DEF MediumInv, SaveFails

LEMMA SealLandsMedium ==
    ASSUME MediumInv, Readable(blob), NEW b, Stored(b), SealLands(b),
           time' = time
    PROVE  MediumInv'
<1>1. Readable(b) /\ Trace(b) = {b.seed} /\ b.seed \in Seed /\ b \in Blobs
  BY RecordReadable, Zenon DEF Stored, Blobs
<1>2. blob.seed \in Seed
  BY RecordReadable, Zenon DEF MediumInv, Stored
<1>3. Stored(blob)'
  BY Zenon DEF SealLands, Stored
<1>4. SealedSeedGone'
  BY <1>1, Zenon DEF MediumInv, SealedSeedGone, SealLands
<1> QED
  BY <1>1, <1>2, <1>3, <1>4, NoCopies, Zenon DEF MediumInv, SealLands

LEMMA EraseStopsMedium ==
    ASSUME MediumInv, EraseStops, blob = Unreadable, time' = time
    PROVE  MediumInv'
<1>1. /\ blob' \in NotRecords
      /\ Trace(blob') \subseteq copies \cup Trace(blob)
  BY Zenon DEF EraseStops, Trace, NotRecords, Readable
<1>2. copies' \subseteq copies \cup Trace(blob)
      /\ Cardinality(copies') <= MaxCopies
  BY AtMostType, Zenon DEF EraseStops
<1>3. Trace(blob) \subseteq Seed \cup NotRecords
  BY TraceType, Zenon DEF MediumInv
<1>4. SealedSeedGone'
  BY <1>1, <1>2, Zenon DEF MediumInv, SealedSeedGone, EraseStops
<1> QED
  BY <1>1, <1>2, <1>3, <1>4, Zenon DEF MediumInv, EraseStops, Blobs, Readable

LEMMA ErasedMedium ==
    ASSUME MediumInv, NEW b, Stored(b), b.seed \notin retired, Erased(b),
           time' = time
    PROVE  MediumInv'
<1>1. Readable(b) /\ Trace(b) = {b.seed} /\ b \in Blobs
  BY RecordReadable, Zenon DEF Stored, Blobs
<1>2. Stored(blob)'
  BY Zenon DEF Erased, Stored
<1>3. SealedSeedGone'
  BY <1>1, Zenon DEF MediumInv, SealedSeedGone, Erased
<1> QED
  BY <1>1, <1>2, <1>3, NoCopies, Zenon DEF MediumInv, Erased

LEMMA EraseThenSaveFailsMedium ==
    ASSUME MediumInv, NEW b, Stored(b), b.seed \notin retired,
           EraseThenSaveFails(b), time' = time
    PROVE  MediumInv'
<1>1. Trace(b) = {b.seed} /\ b.seed \in Seed
  BY RecordReadable, Zenon DEF Stored
<1>2. copies' \subseteq Trace(b) /\ Cardinality(copies') <= MaxCopies
  BY AtMostType, Zenon DEF EraseThenSaveFails
<1>3. blob' \in NotRecords /\ Trace(blob') = {}
  BY Zenon DEF EraseThenSaveFails, NotRecords, Trace
<1>4. SealedSeedGone'
  BY <1>1, <1>2, <1>3, Zenon DEF MediumInv, SealedSeedGone, EraseThenSaveFails
<1> QED
  BY <1>1, <1>2, <1>3, <1>4, Zenon
     DEF MediumInv, EraseThenSaveFails, Blobs, Readable

LEMMA UntouchedMedium ==
    ASSUME MediumInv, UNCHANGED medium, time' \in Nat, time \in Nat,
           time <= time'
    PROVE  MediumInv'
<1>1. Readable(blob) => Stored(blob)'
  <2> SUFFICES ASSUME Readable(blob) PROVE Stored(blob)'
    BY Zenon
  <2>1. Stored(blob) /\ blob' = blob
    BY Zenon DEF MediumInv, medium
  <2>2. /\ blob.checkpoint \in Nat
        /\ blob.cert # None => blob.cert.from \in Nat
    BY <2>1, BoardAssumption DEF Stored, NodeRecord, Cert
  <2> QED
    BY <2>1, <2>2 DEF Stored
<1> QED
  BY <1>1, Zenon DEF MediumInv, medium, SealedSeedGone, Readable, Trace

-----------------------------------------------------------------------------
(* Power loss and boot *)

\* Nothing of what a dark board remembers can be wrong.
LEMMA DarkRun ==
    ASSUME ClockInv, Dark, time' = time
    PROVE  ClockInv' /\ RunInv'
BY Zenon DEF ClockInv, Dark, RunInv, MiscType, RecordInv, AuthInv, PendingInv,
       OffInv, Maybe

LEMMA CutInInv ==
    ASSUME IInv, NEW b, Stored(b), CutIn(b)
    PROVE  IInv'
BY SaveLandsMedium, SaveFailsMedium, DarkRun, Zenon DEF IInv, CutIn

\* restore brings up exactly what is stored.
LEMMA DurableRun ==
    ASSUME ClockInv, RunInv, phase = "off", NEW r, Stored(r), Durable(r),
           blob' = r
    PROVE  ClockInv' /\ RunInv'
<1>1. /\ r \in NodeRecord /\ r.seed \in Seed /\ r.checkpoint \in 0..MaxTime
      /\ r.cert \in Maybe(Cert) /\ r.provider \in Maybe(Provider)
  BY Zenon DEF Stored, NodeRecord, Maybe
<1>2. r.cert # None => /\ r.cert \in Cert /\ r.cert.seed = r.seed
                       /\ r.cert.from <= time
  BY <1>1, Zenon DEF Stored, Maybe
<1>3. ClockInv'
  BY <1>1 DEF ClockInv, Stored, Durable, restore, Maybe
<1>4. MiscType'
  BY <1>1, Zenon DEF RunInv, MiscType, Durable, restore, Maybe
<1>5. RecordInv'
  BY <1>1, Zenon DEF RecordInv, Durable
<1>6. AuthInv'
  <2> SUFFICES ASSUME auth' # None PROVE AuthInv'
    BY Zenon DEF AuthInv
  <2>1. /\ r.cert # None
        /\ auth' = [seed |-> r.seed, cert |-> r.cert, provider |-> r.provider]
    BY Zenon DEF Durable, restore
  <2>2. auth' \in Identity
    BY <1>1, <1>2, <2>1, Zenon DEF Identity
  <2> QED
    BY <1>2, <2>1, <2>2, Zenon DEF AuthInv, Durable
<1>7. PendingInv' /\ OffInv'
  BY Zenon DEF RunInv, PendingInv, OffInv, Durable
<1> QED
  BY <1>3, <1>4, <1>5, <1>6, <1>7, Zenon DEF RunInv

LEMMA EphemeralRun ==
    ASSUME ClockInv, RunInv, phase = "off", ephemeral
    PROVE  ClockInv' /\ RunInv'
BY Zenon
   DEF ClockInv, RunInv, MiscType, RecordInv, AuthInv, PendingInv, OffInv,
       ephemeral, Maybe

LEMMA BootInv == IInv /\ load_or_init_record => IInv'
<1> SUFFICES ASSUME IInv, load_or_init_record PROVE IInv'
  BY Zenon
<1> USE DEF IInv
<1>1. \A s \in Seed : Stored(fresh(s)) /\ fresh(s).seed = s
  BY FreshStored, Zenon
<1>2. time \in Nat /\ time <= time
  BY BoardAssumption DEF ClockInv
<1>3. CASE LoadRecord
  <2>1. Stored(blob) /\ blob' = blob /\ time' = time
    BY <1>3, Zenon DEF LoadRecord, MediumInv, medium, Durable
  <2> QED
    BY <1>2, <1>3, <2>1, DurableRun, UntouchedMedium, Zenon DEF LoadRecord
<1>4. CASE LoadFails
  <2>1. time' = time
    BY <1>4, Zenon DEF LoadFails, ephemeral
  <2> QED
    BY <1>2, <1>4, <2>1, EphemeralRun, UntouchedMedium, Zenon DEF LoadFails
<1>5. CASE MintRecord
  <2>1. PICK s \in Seed : SaveLands(fresh(s)) /\ Durable(fresh(s))
    BY <1>5, Zenon DEF MintRecord
  <2>2. blob' = fresh(s) /\ time' = time
    BY <2>1, Zenon DEF SaveLands, Durable
  <2> QED
    BY <1>1, <1>5, <2>1, <2>2, DurableRun, SaveLandsMedium, Zenon
       DEF MintRecord
<1>6. CASE MintFails
  <2>1. PICK s \in Seed : \/ SaveFails(fresh(s)) /\ ephemeral
                          \/ CutIn(fresh(s))
    BY <1>6, Zenon DEF MintFails
  <2>2. CASE SaveFails(fresh(s)) /\ ephemeral
    <3>1. time' = time
      BY <2>2, Zenon DEF ephemeral
    <3> QED
      BY <1>1, <1>6, <2>2, <3>1, EphemeralRun, SaveFailsMedium, Zenon
         DEF MintFails
  <2>3. CASE CutIn(fresh(s))
    BY <1>1, <2>3, CutInInv, Zenon
  <2> QED
    BY <2>1, <2>2, <2>3, Zenon
<1>7. CASE RepairRecord
  <2>1. PICK s \in Seed : Minted(s) /\ Erased(fresh(s))
    BY <1>7, Zenon DEF RepairRecord
  <2>2. time' = time
    BY <1>7, Zenon DEF RepairRecord, ephemeral
  <2>3. MediumInv'
    BY <1>1, <2>1, <2>2, ErasedMedium, Zenon DEF Minted
  <2> QED
    BY <1>7, <2>3, EphemeralRun, Zenon DEF RepairRecord
<1>8. CASE RepairFails
  <2>1. time' = time
    BY <1>8, Zenon DEF RepairFails, ephemeral
  <2>2. ClockInv' /\ RunInv'
    BY <1>8, <2>1, EphemeralRun, DarkRun, Zenon DEF RepairFails
  <2>3. \/ EraseStops
        \/ \E s \in Seed : Minted(s) /\ EraseThenSaveFails(fresh(s))
        \/ \E s \in Seed : Minted(s) /\ Erased(fresh(s))
    BY <1>8, Zenon DEF RepairFails
  <2>4. MediumInv'
    BY <1>1, <1>8, <2>1, <2>3, EraseStopsMedium, ErasedMedium,
       EraseThenSaveFailsMedium, Zenon DEF RepairFails, Minted
  <2> QED
    BY <2>2, <2>4, Zenon
<1> QED
  BY <1>3, <1>4, <1>5, <1>6, <1>7, <1>8, Zenon DEF load_or_init_record

-----------------------------------------------------------------------------
(* Writes through RecordSettings *)

\* An identity whose certificate certifies its seed and has been issued.
IdentityFits(id) == /\ id \in Identity
            /\ id.cert.seed = id.seed /\ id.cert.from <= time

\* What an update may hold: an identity that fits, or none.
UpdateOK(update) == /\ update.require_auth \in Posture \cup {None}
                    /\ update.identity # None => IdentityFits(update.identity)

LEMMA StoredIdentity ==
    ASSUME IInv, durable
    PROVE  /\ Stored(rec) /\ Readable(blob) /\ view = project(rec)
           /\ view.require_auth = rec.require_auth
           /\ rec.cert = None => view.identity = None
           /\ rec.cert # None => /\ view.identity # None
                                 /\ IdentityFits(view.identity)
                                 /\ view.identity.seed = rec.seed
                                 /\ view.identity.cert = rec.cert
                                 /\ view.identity.provider = rec.provider
<1>1. rec = blob /\ rec \in NodeRecord /\ view = project(rec)
  BY Zenon DEF IInv, RunInv, RecordInv
<1>2. Readable(blob) /\ Stored(rec)
  BY <1>1, RecordReadable, Zenon DEF IInv, MediumInv
<1>3. view.require_auth = rec.require_auth
  BY <1>1, Zenon DEF project
<1>4. rec.cert = None => view.identity = None
  BY <1>1, Zenon DEF project
<1>5. ASSUME rec.cert # None
      PROVE  /\ view.identity \in Identity
             /\ view.identity.seed = rec.seed
             /\ view.identity.cert = rec.cert
             /\ view.identity.provider = rec.provider
  <2>1. view.identity = [seed |-> rec.seed, cert |-> rec.cert,
                         provider |-> rec.provider]
    BY <1>1, <1>5, Zenon DEF project
  <2> QED
    BY <1>1, <1>5, <2>1 DEF NodeRecord, Identity, Maybe
<1> QED
  BY <1>1, <1>2, <1>3, <1>4, <1>5, BoardAssumption, Zenon
  DEF Stored, IdentityFits

\* The record a merged update describes is one that restore takes, and only
\* an update with an identity moves the stored credential.
LEMMA AppliedRecord ==
    ASSUME IInv, durable, NEW update, UpdateOK(update)
    PROVE  LET next == apply(rec, merge(update))
           IN  /\ Stored(next)
               /\ update.identity = None => /\ next.seed = rec.seed
                                            /\ next.cert = rec.cert
               /\ update.identity # None =>
                      /\ next.seed = update.identity.seed
                      /\ next.cert = update.identity.cert
<1> DEFINE m == merge(update)
           kept == [rec EXCEPT !.require_auth = m.require_auth]
           next == apply(rec, m)
<1>1. /\ Stored(rec) /\ view.require_auth = rec.require_auth
      /\ rec.cert = None => view.identity = None
      /\ rec.cert # None => /\ IdentityFits(view.identity)
                            /\ view.identity.seed = rec.seed
                            /\ view.identity.cert = rec.cert
                            /\ view.identity.provider = rec.provider
  BY StoredIdentity, Zenon
<1>2. m.require_auth \in Posture \cup {None}
  BY <1>1, Zenon DEF merge, UpdateOK, Stored, NodeRecord
<1>3. m.identity = IF update.identity = None THEN view.identity
                   ELSE update.identity
  BY Zenon DEF merge
<1> HIDE DEF m
<1>4. /\ kept \in NodeRecord /\ kept.seed = rec.seed /\ kept.cert = rec.cert
      /\ kept.checkpoint = rec.checkpoint
  BY <1>1, <1>2, Zenon DEF Stored, NodeRecord
<1>5. CASE m.identity = None
  <2>1. next = kept
    BY <1>5, Zenon DEF apply
  <2>2. update.identity = None /\ rec.cert = None
    BY <1>1, <1>3, <1>5, BoardAssumption, Zenon DEF IdentityFits
  <2> QED
    BY <1>1, <1>4, <2>1, <2>2, Zenon DEF Stored, m
<1>6. CASE m.identity # None
  <2>1. IdentityFits(m.identity)
    BY <1>1, <1>3, <1>6, Zenon DEF UpdateOK
  <2>2. /\ m.identity.seed \in Seed /\ m.identity.cert \in Cert
        /\ m.identity.provider \in Provider \cup {None}
    BY <2>1, Zenon DEF IdentityFits, Identity, Maybe
  <2>3. next = [kept EXCEPT !.seed = m.identity.seed,
                            !.cert = m.identity.cert,
                            !.provider = m.identity.provider]
    BY <1>6, Zenon DEF apply
  <2> HIDE DEF kept, next
  <2>4. /\ next \in NodeRecord /\ next.seed = m.identity.seed
        /\ next.cert = m.identity.cert /\ next.checkpoint = kept.checkpoint
    BY <1>4, <2>2, <2>3, Zenon DEF NodeRecord
  <2>5. Stored(next)
    BY <1>1, <1>4, <2>1, <2>4, Zenon DEF Stored, IdentityFits
  <2>6. update.identity = None => rec.cert # None
    BY <1>1, <1>3, <1>6, Zenon
  <2> QED
    BY <1>1, <1>3, <2>4, <2>5, <2>6, Zenon DEF next, m
<1> QED
  BY <1>5, <1>6, Zenon

\* A write that lands leaves memory and medium alike.
LEMMA PersistLandsResult ==
    ASSUME IInv, NEW update, UpdateOK(update), PersistLands(update),
           time' = time, durable' = durable
    PROVE  /\ MediumInv' /\ RecordInv' /\ durable
           /\ update.identity = None => /\ rec'.seed = rec.seed
                                        /\ rec'.cert = rec.cert
           /\ update.identity # None => /\ rec'.seed = update.identity.seed
                                        /\ rec'.cert = update.identity.cert
<1> DEFINE next == apply(rec, merge(update))
<1>1. durable /\ rec' = next /\ view' = project(next)
  BY Zenon DEF PersistLands
<1>2. SaveLands(next) \/ SealLands(next)
  BY Zenon DEF PersistLands
<1>3. Stored(next)
  BY <1>1, AppliedRecord, Zenon
<1>4. Readable(blob)
  BY <1>1, StoredIdentity, Zenon
<1>5. blob' = next
  BY <1>2, Zenon DEF SaveLands, SealLands
<1>6. MediumInv'
  BY <1>2, <1>3, <1>4, SaveLandsMedium, SealLandsMedium, Zenon DEF IInv
<1>7. RecordInv'
  BY <1>1, <1>3, <1>5, Zenon DEF RecordInv, Stored
<1>8. /\ update.identity = None => next.seed = rec.seed /\ next.cert = rec.cert
      /\ update.identity # None => /\ next.seed = update.identity.seed
                                   /\ next.cert = update.identity.cert
  BY <1>1, AppliedRecord, Zenon
<1> QED
  BY <1>1, <1>6, <1>7, <1>8, Zenon

\* A write that fails is rolled back in memory.
LEMMA PersistFailsResult ==
    ASSUME IInv, NEW update, UpdateOK(update), PersistFails(update),
           time' = time, durable' = durable
    PROVE  MediumInv' /\ RecordInv' /\ rec' = rec
<1>1. rec' = rec /\ view' = view /\ blob' = blob
  BY Zenon DEF PersistFails, SaveFails, medium
<1>2. RecordInv'
  BY <1>1, Zenon DEF IInv, RunInv, RecordInv, project
<1>3. CASE durable
  <2>1. SaveFails(apply(rec, merge(update)))
    BY <1>3, Zenon DEF PersistFails
  <2>2. Stored(apply(rec, merge(update)))
    BY <1>3, AppliedRecord, Zenon
  <2> QED
    BY <1>1, <1>2, <2>1, <2>2, SaveFailsMedium, Zenon DEF IInv
<1>4. CASE ~durable
  <2>1. UNCHANGED medium
    BY <1>4, Zenon DEF PersistFails
  <2>2. time \in Nat /\ time <= time
    BY BoardAssumption DEF IInv, ClockInv
  <2> QED
    BY <1>1, <1>2, <2>1, <2>2, UntouchedMedium, Zenon DEF IInv
<1> QED
  BY <1>3, <1>4, Zenon

LEMMA PersistCutInv ==
    ASSUME IInv, NEW update, UpdateOK(update), PersistCut(update)
    PROVE  IInv'
<1> DEFINE next == apply(rec, merge(update))
<1>1. durable /\ (CutIn(next) \/ (SealLands(next) /\ Dark /\ time' = time))
  BY Zenon DEF PersistCut
<1>2. Stored(next) /\ Readable(blob)
  BY <1>1, AppliedRecord, StoredIdentity, Zenon
<1> HIDE DEF next
<1>3. CASE CutIn(next)
  BY <1>2, <1>3, CutInInv, Zenon
<1>4. CASE SealLands(next) /\ Dark /\ time' = time
  BY <1>2, <1>4, SealLandsMedium, DarkRun, Zenon DEF IInv
<1> QED
  BY <1>1, <1>3, <1>4, Zenon

-----------------------------------------------------------------------------
(* The turn of the loop *)

LEMMA SameTime == IInv => time \in Nat /\ time <= time
BY BoardAssumption DEF IInv, ClockInv

LEMMA CheckpointInv == IInv /\ write_checkpoint_if_due => IInv'
<1> SUFFICES ASSUME IInv, write_checkpoint_if_due PROVE IInv'
  BY Zenon
<1> DEFINE next == [rec EXCEPT !.checkpoint = estimate]
<1>1. CASE ~CheckpointDue
  <2>1. phase = "top" /\ phase' = "persist" /\ UNCHANGED <<time, medium, ram>>
    BY <1>1, Zenon DEF write_checkpoint_if_due
  <2>2. MediumInv'
    BY <2>1, SameTime, UntouchedMedium, Zenon DEF IInv
  <2> QED
    BY <2>1, <2>2, Zenon
       DEF IInv, ClockInv, RunInv, MiscType, RecordInv, AuthInv, PendingInv,
           OffInv, ram, medium, project
<1>2. CASE CheckpointDue
  <2>1. durable /\ estimate \in 0..MaxTime /\ estimate <= time
    BY <1>2 DEF CheckpointDue, IInv, ClockInv, Maybe
  <2>2. Stored(rec) /\ rec = blob /\ view = project(rec)
    BY <2>1, StoredIdentity, Zenon DEF IInv, RunInv, RecordInv
  <2>3. /\ next \in NodeRecord /\ next.checkpoint = estimate
        /\ next.seed = rec.seed /\ next.cert = rec.cert
        /\ next.provider = rec.provider
        /\ next.require_auth = rec.require_auth
    BY <2>1, <2>2, Zenon DEF Stored, NodeRecord
  <2>4. Stored(next) /\ project(next) = view
    BY <2>1, <2>2, <2>3, Zenon DEF Stored, project
  <2>5. CASE CutIn(next)
    BY <2>4, <2>5, CutInInv, Zenon
  <2>6. CASE /\ \/ SaveLands(next) /\ rec' = next
                \/ SaveFails(next) /\ UNCHANGED rec
             /\ tried' = 0
             /\ phase' = "persist"
             /\ UNCHANGED <<time, durable, view, ident, slot, auth, asked,
                            pending, latch, gate, estimate, alarms>>
    <3> HIDE DEF next
    <3>1. MediumInv'
      BY <2>4, <2>6, SaveLandsMedium, SaveFailsMedium, Zenon DEF IInv
    <3>2. /\ rec' = blob' /\ rec' \in NodeRecord /\ project(rec') = view'
          /\ rec'.seed = rec.seed /\ rec'.cert = rec.cert
      BY <2>2, <2>3, <2>4, <2>6, Zenon DEF SaveLands, SaveFails, Stored
    <3>3. RecordInv' /\ AuthInv' /\ PendingInv' /\ OffInv'
      BY <2>6, <3>2, Zenon
         DEF IInv, RunInv, RecordInv, AuthInv, PendingInv, OffInv
    <3>4. ClockInv' /\ MiscType'
      BY <2>6, BoardAssumption DEF IInv, RunInv, ClockInv, MiscType, Maybe
    <3> QED
      BY <3>1, <3>3, <3>4, Zenon DEF IInv, RunInv
  <2> QED
    BY <1>2, <2>5, <2>6, Zenon DEF write_checkpoint_if_due
<1> QED
  BY <1>1, <1>2, Zenon

\* A renewed certificate reaches the record, or the alarm is raised.
LEMMA PersistRenewedInv == IInv /\ persist_renewed_cert => IInv'
<1> SUFFICES ASSUME IInv, persist_renewed_cert PROVE IInv'
  BY Zenon
<1>1. CASE pending = None \/ ~durable \/ view.identity = None
  <2>1. /\ pending' = None /\ phase' = "wait"
        /\ UNCHANGED <<time, medium, durable, rec, view, ident, slot, auth,
                       asked, latch, gate, estimate, tried, alarms>>
    BY <1>1, Zenon DEF persist_renewed_cert
  <2>2. pending = None
    BY <1>1, StoredIdentity, Zenon DEF IInv, RunInv, PendingInv, AuthInv
  <2>3. MediumInv'
    BY <2>1, SameTime, UntouchedMedium, Zenon DEF IInv
  <2>4. ClockInv' /\ MiscType'
    BY <2>1, Zenon DEF IInv, RunInv, ClockInv, MiscType
  <2>5. RecordInv' /\ PendingInv' /\ OffInv'
    BY <2>1, Zenon
       DEF IInv, RunInv, RecordInv, PendingInv, OffInv, medium, project
  <2>6. AuthInv'
    BY <2>1, <2>2, Zenon DEF IInv, RunInv, AuthInv
  <2> QED
    BY <2>3, <2>4, <2>5, <2>6, Zenon DEF IInv, RunInv
<1>2. CASE ~(pending = None \/ ~durable \/ view.identity = None)
  <2> DEFINE id == [view.identity EXCEPT !.cert = pending]
             update == [require_auth |-> None, identity |-> id]
  <2>1. /\ auth # None /\ pending = auth.cert /\ auth.cert \in Cert
        /\ auth.cert.seed = rec.seed /\ auth.seed = rec.seed
        /\ auth.cert.from <= time
    BY <1>2, Zenon DEF IInv, RunInv, PendingInv, AuthInv, Identity
  <2>2. IdentityFits(view.identity) /\ view.identity.seed = rec.seed
    BY <1>2, StoredIdentity, Zenon
  <2>3. id \in Identity /\ id.seed = rec.seed /\ id.cert = pending
    BY <2>1, <2>2, Zenon DEF IdentityFits, Identity
  <2>4. IdentityFits(id) /\ id # None
    BY <2>1, <2>3, BoardAssumption, Zenon DEF IdentityFits
  <2> HIDE DEF id
  <2>5. UpdateOK(update) /\ update.identity = id
    BY <2>4, Zenon DEF UpdateOK
  <2> HIDE DEF update
  <2>6. CASE PersistCut(update)
    BY <2>5, <2>6, PersistCutInv, Zenon
  <2>7. CASE /\ \/ PersistLands(update) /\ UNCHANGED alarms
                \/ /\ PersistFails(update)
                   /\ alarms' = alarms \cup {"CertNotDurable"}
             /\ pending' = None
             /\ phase' = "wait"
             /\ UNCHANGED <<time, durable, ident, slot, auth, asked, latch,
                            gate, estimate, tried>>
    <3>1. /\ MediumInv' /\ RecordInv' /\ rec'.seed = rec.seed
          /\ \/ rec'.cert = auth.cert /\ alarms' = alarms
             \/ rec' = rec /\ alarms' = alarms \cup {"CertNotDurable"}
      BY <2>1, <2>3, <2>4, <2>5, <2>7, PersistLandsResult, PersistFailsResult,
         Zenon
    <3>2. ClockInv' /\ MiscType'
      BY <2>7, <3>1, Zenon DEF IInv, RunInv, ClockInv, MiscType
    <3>3. rec'.cert # None
      BY <2>1, <3>1, BoardAssumption, Zenon DEF IInv, RunInv, AuthInv
    <3>4. AuthInv'
      BY <2>7, <3>1, <3>3, Zenon DEF IInv, RunInv, AuthInv
    <3>5. PendingInv' /\ OffInv'
      BY <2>7, Zenon DEF PendingInv, OffInv
    <3> QED
      BY <3>1, <3>2, <3>4, <3>5, Zenon DEF IInv, RunInv
  <2> QED
    BY <1>2, <2>6, <2>7, Zenon DEF persist_renewed_cert, update, id
<1> QED
  BY <1>1, <1>2, Zenon

-----------------------------------------------------------------------------
(* Events *)

LEMMA QuietEventInv ==
    IInv /\ (OtherEvent \/ poll_renewal \/ apply_self_revocation) => IInv'
<1> SUFFICES ASSUME IInv, OtherEvent \/ poll_renewal \/ apply_self_revocation
             PROVE  IInv'
  BY Zenon
<1>1. /\ phase = "wait" /\ phase' = "top"
      /\ UNCHANGED <<time, medium, durable, rec, view, ident, slot, gate,
                     estimate, tried, alarms>>
      /\ asked' \in {asked, TRUE, FALSE}
      /\ \/ auth' = auth /\ pending' = pending
         \/ auth' = None /\ pending' = None
  BY Zenon DEF OtherEvent, poll_renewal, apply_self_revocation, Serve, ram
<1>2. MediumInv'
  BY <1>1, SameTime, UntouchedMedium, Zenon DEF IInv
<1>3. ClockInv' /\ MiscType'
  BY <1>1, Zenon DEF IInv, RunInv, ClockInv, MiscType
<1>4. RecordInv' /\ PendingInv' /\ OffInv'
  BY <1>1, Zenon
     DEF IInv, RunInv, RecordInv, PendingInv, OffInv, medium, project
<1>5. AuthInv'
  BY <1>1, Zenon DEF IInv, RunInv, AuthInv
<1> QED
  BY <1>2, <1>3, <1>4, <1>5, Zenon DEF IInv, RunInv

LEMMA IngestInv ==
    ASSUME IInv, NEW c \in Issued, ingest_renew_reply(c)
    PROVE  IInv'
<1>1. /\ phase = "wait" /\ phase' = "top" /\ auth # None
      /\ auth' = [auth EXCEPT !.cert = c] /\ pending' = c
      /\ c.seed = auth.cert.seed /\ asked' = FALSE
      /\ UNCHANGED <<time, medium, durable, rec, view, ident, slot, gate,
                     estimate, tried, alarms>>
  BY Zenon DEF ingest_renew_reply, Serve
<1>2. c \in Cert /\ c.from <= time
  BY Zenon DEF Issued
<1>3. auth \in Identity
  BY <1>1, Zenon DEF IInv, RunInv, AuthInv
<1>4. /\ auth' \in Identity /\ auth'.cert = c /\ auth'.seed = auth.seed
      /\ auth' # None
  BY <1>1, <1>2, <1>3, BoardAssumption, Zenon DEF Identity
<1>5. MediumInv'
  BY <1>1, SameTime, UntouchedMedium, Zenon DEF IInv
<1>6. ClockInv' /\ MiscType'
  BY <1>1, Zenon DEF IInv, RunInv, ClockInv, MiscType
<1>7. RecordInv' /\ PendingInv' /\ OffInv'
  BY <1>1, <1>4, Zenon
     DEF IInv, RunInv, RecordInv, PendingInv, OffInv, medium, project
<1>8. AuthInv'
  BY <1>1, <1>2, <1>4, Zenon DEF IInv, RunInv, AuthInv
<1> QED
  BY <1>5, <1>6, <1>7, <1>8, Zenon DEF IInv, RunInv

\* anchor never moves the estimate past the instant it is given.
LEMMA AnchorClock ==
    ASSUME IInv, NEW unix \in Nat, unix <= time, anchor(unix), time' = time
    PROVE  ClockInv'
BY BoardAssumption DEF IInv, ClockInv, anchor, Maybe

LEMMA SetTimeInv ==
    ASSUME IInv, NEW unix \in {0, time}, set_time(unix)
    PROVE  IInv'
<1> DEFINE from == IF auth = None THEN 0 ELSE auth.cert.from
<1>1. /\ phase = "wait" /\ phase' = "top" /\ anchor(Max2(unix, from))
      /\ UNCHANGED <<time, medium, durable, rec, view, ident, slot, auth,
                     asked, pending, gate, tried, alarms>>
  BY Zenon DEF set_time, Serve
<1>2. time \in Nat
  BY SameTime, Zenon
<1>3. from \in Nat /\ from <= time
  <2>1. CASE auth = None
    BY <1>2, <2>1
  <2>2. CASE auth # None
    <3>1. auth.cert \in Cert /\ auth.cert.from <= time
      BY <2>2, Zenon DEF IInv, RunInv, AuthInv, Identity
    <3>2. auth.cert.from \in Nat
      BY <3>1, BoardAssumption, Zenon DEF Cert
    <3> QED
      BY <2>2, <3>1, <3>2, Zenon
  <2> QED
    BY <2>1, <2>2, Zenon
<1> HIDE DEF from
<1>4. Max2(unix, from) \in Nat /\ Max2(unix, from) <= time
  BY <1>2, <1>3 DEF Max2
<1>5. ClockInv'
  BY <1>1, <1>4, AnchorClock, Zenon
<1>6. MediumInv'
  BY <1>1, SameTime, UntouchedMedium, Zenon DEF IInv
<1>7. RunInv'
  BY <1>1, Zenon
     DEF IInv, RunInv, MiscType, RecordInv, AuthInv, PendingInv, OffInv,
              medium, project
<1> QED
  BY <1>5, <1>6, <1>7, Zenon DEF IInv

LEMMA SetAuthInv ==
    ASSUME IInv, NEW s \in Seed \cup {None}, NEW c \in Issued,
           NEW p \in Provider, NEW unix \in {0, time}, set_auth(s, c, p, unix)
    PROVE  IInv'
<1> DEFINE seed == IF s = None THEN slot ELSE s
           identity == [seed |-> seed, cert |-> c, provider |-> p]
           update == [require_auth |-> None, identity |-> identity]
<1>1. /\ phase = "wait" /\ phase' = "top" /\ time' = time
      /\ seed # None /\ c.seed = seed /\ PersistLands(update)
      /\ alarms' = IF c.seed = ident THEN alarms
                   ELSE alarms \cup {"CertifiedAddressMismatch"}
      /\ auth' = identity /\ asked' = FALSE /\ pending' = None
      /\ slot' = seed /\ anchor(Max2(unix, c.from))
      /\ UNCHANGED <<durable, ident, gate, tried>>
  BY Zenon DEF set_auth, Serve
<1>2. c \in Cert /\ c.from <= time /\ c.from \in Nat /\ time \in Nat
  BY SameTime, BoardAssumption, Zenon DEF Issued, Cert
<1>3. seed \in Seed
  BY <1>1, Zenon DEF IInv, RunInv, MiscType, Maybe
<1> HIDE DEF seed
<1>4. identity \in Identity /\ identity.seed = seed /\ identity.cert = c
  BY <1>2, <1>3, Zenon DEF Identity, Maybe
<1> HIDE DEF identity
<1>5. IdentityFits(identity) /\ identity # None
  BY <1>1, <1>2, <1>4, BoardAssumption, Zenon DEF IdentityFits
<1>6. UpdateOK(update) /\ update.identity = identity
  BY <1>5, Zenon DEF UpdateOK
<1> HIDE DEF update
<1>7. /\ MediumInv' /\ RecordInv' /\ durable
      /\ rec'.seed = seed /\ rec'.cert = c
  BY <1>1, <1>4, <1>5, <1>6, PersistLandsResult, Zenon
<1>8. ClockInv'
  <2>1. Max2(unix, c.from) \in Nat /\ Max2(unix, c.from) <= time
    BY <1>2 DEF Max2
  <2> QED
    BY <1>1, <2>1, AnchorClock, Zenon
<1>9. MiscType'
  BY <1>1, <1>3, ZenonT(20) DEF IInv, RunInv, MiscType, Maybe
<1>10. AuthInv'
  <2>1. c # None
    BY <1>2, BoardAssumption, Zenon
  <2> QED
    BY <1>1, <1>2, <1>4, <1>5, <1>7, <2>1, Zenon DEF AuthInv
<1>11. PendingInv' /\ OffInv'
  BY <1>1, Zenon DEF PendingInv, OffInv
<1> QED
  BY <1>7, <1>8, <1>9, <1>10, <1>11, Zenon DEF IInv, RunInv

LEMMA SetConfigInv ==
    ASSUME IInv, NEW require \in Posture, set_config(require)
    PROVE  IInv'
<1> DEFINE update == [require_auth |-> require, identity |-> None]
<1>1. /\ phase = "wait" /\ phase' = "top" /\ PersistLands(update)
      /\ gate' = require
      /\ UNCHANGED <<time, durable, ident, slot, auth, asked, pending,
                     estimate, tried, alarms>>
  BY Zenon DEF set_config, Serve
<1>2. UpdateOK(update) /\ update.identity = None
  BY Zenon DEF UpdateOK
<1> HIDE DEF update
<1>3. /\ MediumInv' /\ RecordInv' /\ durable
      /\ rec'.seed = rec.seed /\ rec'.cert = rec.cert
  BY <1>1, <1>2, PersistLandsResult, Zenon
<1>4. ClockInv' /\ MiscType'
  BY <1>1, BoardAssumption, Zenon DEF IInv, RunInv, ClockInv, MiscType
<1>5. AuthInv' /\ PendingInv' /\ OffInv'
  BY <1>1, <1>3, Zenon DEF IInv, RunInv, AuthInv, PendingInv, OffInv
<1> QED
  BY <1>3, <1>4, <1>5, Zenon DEF IInv, RunInv

LEMMA WriteFailsInv ==
    ASSUME IInv, NEW update, UpdateOK(update), WriteFails(update)
    PROVE  IInv'
<1>1. CASE PersistCut(update)
  BY <1>1, PersistCutInv, Zenon
<1>2. CASE /\ phase = "wait" /\ PersistFails(update)
           /\ phase' = "top"
           /\ UNCHANGED <<time, durable, ident, slot, auth, asked, pending,
                          latch, gate, estimate, tried, alarms>>
  <2>1. MediumInv' /\ RecordInv' /\ rec' = rec
    BY <1>2, PersistFailsResult, Zenon
  <2> QED
    BY <1>2, <2>1, Zenon
       DEF IInv, ClockInv, RunInv, MiscType, AuthInv, PendingInv,
                      OffInv
<1> QED
  BY <1>1, <1>2, Zenon DEF WriteFails

LEMMA SetAuthFailsInv ==
    ASSUME IInv, NEW c \in Issued, NEW p \in Provider, set_auth_fails(c, p)
    PROVE  IInv'
<1> DEFINE id == [seed |-> c.seed, cert |-> c, provider |-> p]
           update == [require_auth |-> None, identity |-> id]
<1>1. WriteFails(update)
  BY Zenon DEF set_auth_fails
<1>2. IdentityFits(id)
  BY Zenon DEF IdentityFits, Identity, Issued, Cert, Maybe
<1> HIDE DEF id
<1>3. UpdateOK(update)
  BY <1>2, Zenon DEF UpdateOK
<1> HIDE DEF update
<1> QED
  BY <1>1, <1>3, WriteFailsInv, Zenon

LEMMA SetConfigFailsInv ==
    ASSUME IInv, NEW require \in Posture, set_config_fails(require)
    PROVE  IInv'
<1> DEFINE update == [require_auth |-> require, identity |-> None]
<1>1. WriteFails(update)
  BY Zenon DEF set_config_fails
<1>2. UpdateOK(update)
  BY Zenon DEF UpdateOK
<1> HIDE DEF update
<1> QED
  BY <1>1, <1>2, WriteFailsInv, Zenon

LEMMA TickInv == IInv /\ Tick => IInv'
<1> SUFFICES ASSUME IInv, Tick PROVE IInv'
  BY Zenon
<1>1. /\ time < MaxTime /\ time' = time + 1
      /\ estimate' = IF estimate = None THEN None ELSE estimate + 1
      /\ UNCHANGED <<medium, phase, durable, rec, view, ident, slot, auth,
                     pending, latch, gate, alarms>>
  BY Zenon DEF Tick
<1>2. time \in Nat /\ time' \in Nat /\ time <= time' /\ MaxTime \in Nat
  BY <1>1, SameTime, BoardAssumption
<1>3. MediumInv'
  BY <1>1, <1>2, UntouchedMedium, Zenon DEF IInv
<1>4. ClockInv'
  BY <1>1, <1>2 DEF IInv, ClockInv, Maybe
<1>5. tried' \in Maybe(0..CheckpointInterval)
  BY BoardAssumption DEF Tick, IInv, RunInv, MiscType, Maybe
<1>6. MiscType'
  BY <1>1, <1>5, Zenon DEF Tick, IInv, RunInv, MiscType
<1>7. AuthInv'
  <2> SUFFICES ASSUME auth # None PROVE AuthInv'
    BY <1>1, Zenon DEF AuthInv
  <2>1. auth.cert.from \in Nat /\ auth.cert.from <= time
    BY BoardAssumption, Zenon DEF IInv, RunInv, AuthInv, Identity, Cert
  <2>2. auth.cert.from <= time'
    BY <1>1, <1>2, <2>1
  <2> QED
    BY <1>1, <2>2, Zenon DEF IInv, RunInv, AuthInv
<1>8. RecordInv' /\ PendingInv' /\ OffInv'
  BY <1>1, Zenon
     DEF IInv, RunInv, RecordInv, PendingInv, OffInv, medium, project
<1> QED
  BY <1>3, <1>4, <1>6, <1>7, <1>8, Zenon DEF IInv, RunInv

LEMMA ResetInv == IInv /\ Reset => IInv'
BY SameTime, DarkRun, UntouchedMedium, Zenon DEF IInv, Reset

LEMMA StutterInv == IInv /\ UNCHANGED vars => IInv'
<1> SUFFICES ASSUME IInv, UNCHANGED vars PROVE IInv'
  BY Zenon
<1>1. MediumInv'
  BY SameTime, UntouchedMedium, Zenon DEF IInv, vars
<1> QED
  BY <1>1 DEF IInv, ClockInv, RunInv, MiscType, RecordInv, AuthInv,
              PendingInv, OffInv, vars, ram, medium, project

LEMMA NextInv == IInv /\ [Next]_vars => IInv'
<1> SUFFICES ASSUME IInv, [Next]_vars PROVE IInv'
  BY Zenon
<1>1. CASE \E c \in Issued : ingest_renew_reply(c)
  BY <1>1, IngestInv, Zenon
<1>2. CASE \E s \in Seed \cup {None}, c \in Issued, p \in Provider,
              unix \in {0, time} : set_auth(s, c, p, unix)
  BY <1>2, SetAuthInv, Zenon
<1>3. CASE \E c \in Issued, p \in Provider : set_auth_fails(c, p)
  BY <1>3, SetAuthFailsInv, Zenon
<1>4. CASE \E unix \in {0, time} : set_time(unix)
  BY <1>4, SetTimeInv, Zenon
<1>5. CASE \E require \in Posture : set_config(require)
  BY <1>5, SetConfigInv, Zenon
<1>6. CASE \E require \in Posture : set_config_fails(require)
  BY <1>6, SetConfigFailsInv, Zenon
<1> QED
  BY <1>1, <1>2, <1>3, <1>4, <1>5, <1>6, BootInv, CheckpointInv,
     PersistRenewedInv, QuietEventInv, TickInv, ResetInv, StutterInv, Zenon
     DEF Next

LEMMA Invariance == Spec => []IInv
BY InitInv, NextInv, PTL DEF Spec

-----------------------------------------------------------------------------
(* The results *)

\* Every blob on the medium, every record and credential in memory and the
\* clock stay what the code takes them for.
THEOREM TypeCorrect == Spec => []TypeOK
BY Invariance, TypeFromInv, PTL

\* No reset, failed write or interrupted one leaves a record whose
\* certificate is for another seed, so Driver::restore installs whatever
\* certificate it finds.
THEOREM StoredCredentialFits == Spec => []CredentialFitsSeed
<1>1. IInv => CredentialFitsSeed
  BY Zenon DEF IInv, MediumInv, Stored, CredentialFitsSeed
<1> QED
  BY <1>1, Invariance, PTL

\* The loop never waits for an event under a credential that the record does
\* not hold, but for one an alarm reports; and mutate's rollback keeps the
\* record in memory equal to the one stored.
THEOREM AlwaysRunsUnderStored == Spec => []RunsUnderStored
<1>1. IInv => RunsUnderStored
  <2> SUFFICES ASSUME IInv PROVE RunsUnderStored
    BY Zenon
  <2>1. durable => rec = blob /\ view = project(rec)
    BY Zenon DEF IInv, RunInv, RecordInv
  <2>2. ASSUME phase = "wait", auth # None
        PROVE  /\ durable
               /\ auth.seed = blob.seed
               /\ auth.cert = blob.cert \/ "CertNotDurable" \in alarms
               /\ auth.seed = ident \/ "CertifiedAddressMismatch" \in alarms
    <3>1. pending = None
      BY <2>2, Zenon DEF IInv, RunInv, PendingInv
    <3>2. auth.cert # None
      BY <2>2, BoardAssumption, Zenon DEF IInv, RunInv, AuthInv, Identity
    <3> QED
      BY <2>1, <2>2, <3>1, <3>2, Zenon DEF IInv, RunInv, AuthInv
  <2> QED
    BY <2>1, <2>2, Zenon DEF RunsUnderStored
<1> QED
  BY <1>1, Invariance, PTL

\* WallClock's estimate and the stored checkpoint are floors of the true
\* time, through any number of resets.
THEOREM ClockAlwaysFloor == Spec => []ClockIsFloor
<1>1. IInv => ClockIsFloor
  BY Zenon DEF IInv, MediumInv, ClockInv, Stored, ClockIsFloor
<1> QED
  BY <1>1, Invariance, PTL

\* A seed that a sealed rotation replaced stays off the medium, whatever
\* other writes and erases leave behind, until it is itself written again.
THEOREM SealedSeedStaysGone == Spec => []SealedSeedGone
<1>1. IInv => SealedSeedGone
  BY Zenon DEF IInv, MediumInv
<1> QED
  BY <1>1, Invariance, PTL

-----------------------------------------------------------------------------
(* The log ring.                                                           *)

\* A set of numbers with a bound has a greatest member.
LEMMA MaxIsIn ==
    ASSUME NEW n \in Nat, NEW S \in SUBSET (0 .. n), S # {}
    PROVE  Max(S) \in S /\ \A y \in S : Max(S) >= y
<1> DEFINE R == OpToRel(<, Nat)
           T == {n - x : x \in S}
<1>0. \A x \in S : x \in Nat /\ x <= n /\ n - x \in Nat
  OBVIOUS
<1>1. \E x \in T : \A y \in T : ~(<<y, x>> \in R)
  <2>1. IsWellFoundedOn(R, Nat)
    BY NatLessThanWellFounded, Zenon
  <2>2. T \subseteq Nat /\ T # {}
    BY <1>0, Zenon
  <2> HIDE DEF R, T
  <2> QED BY <2>1, <2>2, WFMin, Zenon
<1>2. \A x, y \in Nat : x < y => <<x, y>> \in R
  BY DEF OpToRel
<1> HIDE DEF R
<1>3. PICK x \in S : \A y \in S : ~(<<n - y, n - x>> \in R)
  BY <1>1
<1>4. \A y \in S : x >= y
  <2>1. \A y \in S : ~(n - y < n - x)
    BY <1>0, <1>2, <1>3, Zenon
  <2> QED BY <1>0, <2>1
<1>5. \E m \in S : \A y \in S : m >= y
  BY <1>4
<1> QED BY <1>5, Zenon DEF Max

\* The ring holds the last records logged, in order and without a gap.
RingInv ==
    /\ next_seq \in 0 .. MaxRecords
    /\ buf \in Seq(LogRecord) /\ Len(buf) <= next_seq
    /\ \A i \in 1 .. Len(buf) : buf[i].seq = next_seq - Len(buf) + i - 1

\* The number of the oldest record in the ring.
LEMMA OldestRow ==
    ASSUME RingInv
    PROVE  Oldest = next_seq - Len(buf)
<1>1. CASE buf = <<>>
  BY <1>1 DEF Oldest, RingInv
<1>2. CASE buf # <<>>
  <2>1. Len(buf) # 0
    BY <1>2 DEF RingInv
  <2>2. buf[1].seq = next_seq - Len(buf) + 1 - 1
    BY <2>1 DEF RingInv
  <2> QED BY <1>2, <2>2 DEF Oldest, RingInv
<1> QED BY <1>1, <1>2

\* The first record there is to send always fits.
LEMMA FirstFits ==
    ASSUME RingInv, NEW since \in Nat, NEW max_records \in Batches,
           Fresh(since) # {}
    PROVE  Taken(since, max_records) # {}
<1> DEFINE K == {k \in 0 .. Len(buf) : Fits(FreshTo(since, k), max_records)}
<1>1. Len(buf) \in Nat /\ DOMAIN buf = 1 .. Len(buf)
  BY DEF RingInv
<1>2. PICK f \in Fresh(since) : \A i \in Fresh(since) : f <= i
  <2> DEFINE R == OpToRel(<, Nat)
  <2>1. Fresh(since) \subseteq Nat
    BY <1>1 DEF Fresh
  <2>2. \E x \in Fresh(since) : \A y \in Fresh(since) : ~(<<y, x>> \in R)
    <3>1. IsWellFoundedOn(R, Nat)
      BY NatLessThanWellFounded, Zenon
    <3> HIDE DEF R
    <3> QED BY <2>1, <3>1, WFMin, Zenon
  <2>3. \A x, y \in Nat : x < y => <<x, y>> \in R
    BY DEF OpToRel
  <2> HIDE DEF R
  <2>4. PICK x \in Fresh(since) : \A y \in Fresh(since) : ~(y < x)
    BY <2>1, <2>2, <2>3, Zenon
  <2>5. \A y \in Fresh(since) : x <= y
    BY <2>1, <2>4
  <2> QED BY <2>5, Zenon
<1>3. f \in 1 .. Len(buf)
  BY <1>1, <1>2 DEF Fresh
<1>4. FreshTo(since, f) = {f}
  <2>1. \A i \in Fresh(since) : i <= f => i = f
    BY <1>1, <1>2, <1>3 DEF Fresh
  <2>2. f <= f
    BY <1>3
  <2> QED BY <1>2, <2>1, <2>2, Zenon DEF FreshTo
<1>5. Cardinality({f}) = 1
  BY FS_Singleton, Zenon
<1>6. Fits({f}, max_records)
  BY <1>5, LogAssumption DEF Fits
<1>7. f \in K
  <2>1. f \in 0 .. Len(buf)
    BY <1>1, <1>3
  <2> QED BY <1>4, <1>6, <2>1, Zenon
<1>8. Max(K) >= f /\ Max(K) \in K
  <2>1. K \in SUBSET (0 .. Len(buf)) /\ K # {}
    BY <1>7
  <2> HIDE DEF K
  <2> QED BY <1>1, <1>7, <2>1, MaxIsIn, Zenon
<1>9. f <= Max(K)
  BY <1>3, <1>8
<1> QED BY <1>2, <1>9, Zenon DEF Taken, FreshTo

\* An answer reaches, without a gap, from where the poll resumed to where
\* the next one will.
LEMMA BatchCovers ==
    ASSUME RingInv, NEW since \in 0 .. next_seq, NEW max_records \in Batches,
           NEW a, a = since_within(since, max_records)
    PROVE  /\ a.next_seq \in since .. next_seq
           /\ a.records \cup a.missed = since .. a.next_seq - 1
<1> DEFINE taken == Taken(since, max_records)
           last == Max({k \in 0 .. Len(buf) :
               Fits(FreshTo(since, k), max_records)})
           low == next_seq - Len(buf)
<1>1. /\ Len(buf) \in Nat /\ DOMAIN buf = 1 .. Len(buf) /\ next_seq \in Nat
      /\ low \in Nat /\ since \in Nat
      /\ \A i \in 1 .. Len(buf) : buf[i].seq = low + i - 1
  BY DEF RingInv
<1>2. Oldest = low
  BY OldestRow
<1>3. /\ a.records = {buf[i].seq : i \in taken} /\ a.missed = since .. low - 1
      /\ a.next_seq = Resume(taken)
  BY <1>2 DEF since_within
<1>4. Fresh(since) = {i \in 1 .. Len(buf) : low + i - 1 >= since}
  BY <1>1 DEF Fresh
<1>5. taken = {i \in Fresh(since) : i <= last}
  BY Zenon DEF Taken, FreshTo
<1> HIDE DEF taken, last, low
<1>6. CASE taken = {}
  <2>1. Fresh(since) = {}
    BY <1>1, <1>6, FirstFits, Zenon DEF taken
  <2>2. Len(buf) = 0 \/ since = next_seq
    <3>1. ASSUME Len(buf) # 0 PROVE since = next_seq
      <4>1. ~(low + Len(buf) - 1 >= since)
        BY <1>1, <1>4, <2>1, <3>1
      <4> QED BY <1>1, <4>1 DEF low
    <3> QED BY <3>1
  <2>3. a.records = {} /\ a.next_seq = next_seq /\ a.missed = since .. low - 1
    BY <1>3, <1>6 DEF Resume
  <2>4. low = next_seq \/ (since = next_seq /\ low <= next_seq)
    BY <1>1, <2>2 DEF low
  <2> QED BY <1>1, <2>3, <2>4
<1>7. CASE taken # {}
  <2>1. PICK m \in taken : Max(taken) = m /\ \A i \in taken : m >= i
    <3>1. taken \in SUBSET (0 .. Len(buf))
      BY <1>1, <1>4, <1>5
    <3> QED BY <1>1, <1>7, <3>1, MaxIsIn, Zenon
  <2>2. m \in 1 .. Len(buf) /\ low + m - 1 >= since /\ m <= last
    BY <1>4, <1>5
  <2>3. \A i \in 1 .. Len(buf) : i \in taken <=> low + i - 1 >= since /\ i <= m
    <3>1. last \in Int
      <4> DEFINE K == {k \in 0 .. Len(buf) :
              Fits(FreshTo(since, k), max_records)}
      <4>1. CASE K = {}
        <5>1. Fits(FreshTo(since, 0), max_records)
          <6>1. FreshTo(since, 0) = {}
            BY <1>4 DEF FreshTo
          <6>2. Cardinality({}) = 0
            BY FS_EmptySet
          <6> QED BY <6>1, <6>2, LogAssumption DEF Fits
        <5> QED BY <1>1, <4>1, <5>1
      <4>2. CASE K # {}
        <5>1. K \in SUBSET (0 .. Len(buf))
          OBVIOUS
        <5>2. last = Max(K)
          BY DEF last
        <5> HIDE DEF K
        <5>3. last \in K
          BY <1>1, <4>2, <5>1, <5>2, MaxIsIn, Zenon
        <5> QED BY <5>1, <5>3
      <4> QED BY <4>1, <4>2
    <3>2. \A i \in taken : i <= m
      BY <1>4, <1>5, <2>1, <2>2
    <3>3. \A i \in 1 .. Len(buf) : i <= m => i <= last
      BY <2>2, <3>1
    <3> QED BY <1>4, <1>5, <3>2, <3>3
  <2>4. a.next_seq = low + m
    BY <1>1, <1>3, <1>7, <2>1, <2>2 DEF Resume
  <2>5. a.next_seq \in since .. next_seq
    BY <1>1, <2>2, <2>4 DEF low
  <2>6. a.records = {low + i - 1 : i \in taken}
    <3>1. \A i \in taken : buf[i].seq = low + i - 1
      BY <1>1, <1>4, <1>5
    <3> QED BY <1>3, <3>1
  <2>7. ASSUME NEW n
        PROVE  n \in a.records \cup a.missed <=> n \in since .. low + m - 1
    <3>1. CASE n \in a.records
      <4>1. PICK i \in taken : n = low + i - 1
        BY <2>6, <3>1
      <4>2. i \in 1 .. Len(buf)
        BY <1>4, <1>5
      <4> QED BY <1>1, <2>2, <2>3, <3>1, <4>1, <4>2
    <3>2. CASE n \in a.missed
      BY <1>1, <1>3, <2>2, <3>2
    <3>3. CASE n \in since .. low + m - 1
      <4>1. CASE n < low
        BY <1>1, <1>3, <3>3, <4>1
      <4>2. CASE ~(n < low)
        <5> DEFINE i == n - low + 1
        <5>1. i \in 1 .. Len(buf) /\ i <= m /\ low + i - 1 = n
          BY <1>1, <2>2, <3>3, <4>2
        <5>2. i \in taken
          BY <1>1, <2>3, <3>3, <5>1
        <5> HIDE DEF i
        <5> QED BY <2>6, <5>1, <5>2, <3>3
      <4> QED BY <4>1, <4>2
    <3> QED BY <3>1, <3>2, <3>3, Zenon
  <2>8. a.records \cup a.missed = since .. low + m - 1
    BY <2>7, Zenon
  <2>9. a.next_seq - 1 = low + m - 1
    BY <1>1, <2>2, <2>4
  <2> QED BY <2>5, <2>8, <2>9, Zenon
<1> QED BY <1>6, <1>7

-----------------------------------------------------------------------------
(* The inductive invariant. *)

\* The records an answer speaks of.
Spoken(a) == a.records \cup a.missed

\* The client was told of record q, as a record or as missed.
Heard(t, q) == q \in DOMAIN t /\ t[q] > 0

\* All before n has been told, or is told by the answer with what is in S.
HeardTo(t, n, S) == \A q \in 0 .. n - 1 : Heard(t, q) \/ q \in S

\* What a poll is answered with.
Batch == [records : SUBSET Nat, missed : SUBSET Nat, next_seq : Nat]

\* One poll at a time: the answer goes on from the cursor.
OneAtATime ==
    /\ \A i \in DOMAIN polls : polls[i] = cursor
    /\ \A i \in DOMAIN answers :
          /\ cursor <= answers[i].next_seq
          /\ Spoken(answers[i]) = cursor .. answers[i].next_seq - 1
    /\ \A q \in DOMAIN told : told[q] = IF q < cursor THEN 1 ELSE 0

\* The inductive invariant: the client has heard of all that lies before its
\* cursor, before the position of any poll under way, and before the end of
\* any answer under way once that answer is taken in.
LogInv ==
    /\ RingInv /\ overlap \in {1, 2}
    /\ told \in [0 .. MaxRecords - 1 -> Nat]
    /\ cursor \in 0 .. next_seq /\ HeardTo(told, cursor, {})
    /\ polls \in Seq(Nat) /\ answers \in Seq(Batch)
    /\ Len(polls) + Len(answers) <= overlap
    /\ \A i \in DOMAIN polls : polls[i] <= next_seq
         /\ HeardTo(told, polls[i], {})
    /\ \A i \in DOMAIN answers :
          /\ answers[i].next_seq <= next_seq
          /\ HeardTo(told, answers[i].next_seq, Spoken(answers[i]))
    /\ overlap = 1 => OneAtATime

\* A ring nothing was pushed to satisfies the invariant.
LEMMA LogStart == LogInit => LogInv
<1> SUFFICES ASSUME LogInit PROVE LogInv
  OBVIOUS
<1>1. /\ buf = <<>> /\ next_seq = 0 /\ overlap \in {1, 2} /\ cursor = 0
      /\ polls = <<>> /\ answers = <<>>
      /\ told = [q \in 0..MaxRecords - 1 |-> 0]
  BY DEF LogInit
<1>2. RingInv
  BY <1>1, LogAssumption DEF RingInv
<1>3. HeardTo(told, cursor, {})
  BY <1>1 DEF HeardTo
<1>4. OneAtATime
  BY <1>1 DEF OneAtATime
<1> QED BY <1>1, <1>2, <1>3, <1>4 DEF LogInv

\* Taking one of the requests or answers leaves the others.
LEMMA WithoutOne ==
    ASSUME NEW S, NEW s \in Seq(S), NEW i \in DOMAIN s
    PROVE  /\ Without(s, i) \in Seq(S) /\ Len(Without(s, i)) = Len(s) - 1
           /\ \A j \in DOMAIN Without(s, i) : \E k \in DOMAIN s :
                Without(s, i)[j] = s[k]
<1> DEFINE w == Without(s, i)
<1>1. Len(s) \in Nat /\ DOMAIN s = 1 .. Len(s) /\ i \in 1 .. Len(s)
  OBVIOUS
<1>2. w = [j \in 1 .. Len(s) - 1 |-> IF j < i THEN s[j] ELSE s[j + 1]]
  BY DEF Without
<1>3. ASSUME NEW j \in 1 .. Len(s) - 1
      PROVE  w[j] \in S /\ \E k \in DOMAIN s : w[j] = s[k]
  BY <1>1, <1>2
<1>4. w \in [1 .. Len(s) - 1 -> S] /\ DOMAIN w = 1 .. Len(s) - 1
          /\ Len(s) - 1 \in Nat
  BY <1>1, <1>2, <1>3
<1> HIDE DEF w
<1>5. w \in Seq(S) /\ Len(w) = Len(s) - 1
  BY <1>4
<1>6. \A j \in DOMAIN w : \E k \in DOMAIN s : w[j] = s[k]
  BY <1>3, <1>4
<1> QED BY <1>5, <1>6, Zenon DEF w

\* A record pushed, on a full ring in place of the oldest.
LEMMA PushKeeps ==
    ASSUME LogInv, NEW size \in Sizes, push(size)
    PROVE  LogInv'
<1> DEFINE row == [seq |-> next_seq, size |-> size]
           kept == IF Len(buf) = RING_CAPACITY THEN Tail(buf) ELSE buf
<1>1. /\ next_seq < MaxRecords /\ next_seq' = next_seq + 1
      /\ buf' = Append(kept, row)
      /\ UNCHANGED <<overlap, cursor, polls, answers, told>>
  BY DEF push
<1>2. /\ next_seq \in Nat /\ next_seq <= MaxRecords /\ buf \in Seq(LogRecord)
      /\ Len(buf) \in Nat /\ Len(buf) <= next_seq
      /\ \A i \in 1 .. Len(buf) : buf[i].seq = next_seq - Len(buf) + i - 1
  BY LogAssumption DEF LogInv, RingInv
<1>3. row \in LogRecord /\ row.seq = next_seq
  BY <1>1, <1>2, LogAssumption DEF LogRecord
<1>4. /\ kept \in Seq(LogRecord) /\ Len(kept) \in Nat /\ Len(kept) <= next_seq
      /\ \A i \in 1 .. Len(kept) : kept[i].seq = next_seq - Len(kept) + i - 1
  <2>1. CASE Len(buf) = RING_CAPACITY
    <3>1. kept = Tail(buf) /\ buf # <<>>
      BY <2>1, LogAssumption
    <3> HIDE DEF kept
    <3>2. /\ kept \in Seq(LogRecord) /\ Len(kept) = Len(buf) - 1
          /\ \A i \in 1 .. Len(buf) - 1 : kept[i] = buf[i + 1]
      BY <1>2, <3>1
    <3>3. ASSUME NEW i \in 1 .. Len(kept)
          PROVE  kept[i].seq = next_seq - Len(kept) + i - 1
      <4>1. i + 1 \in 1 .. Len(buf) /\ kept[i] = buf[i + 1]
        BY <1>2, <3>2
      <4>2. kept[i].seq = next_seq - Len(buf) + (i + 1) - 1
        BY <1>2, <4>1
      <4> QED BY <1>2, <3>2, <4>2
    <3>4. Len(kept) \in Nat /\ Len(kept) <= next_seq
      BY <1>2, <3>2
    <3> QED BY <3>2, <3>3, <3>4
  <2>2. CASE Len(buf) # RING_CAPACITY
    <3>1. kept = buf
      BY <2>2
    <3> HIDE DEF kept
    <3> QED BY <1>2, <3>1, Zenon
  <2> QED BY <2>1, <2>2
<1> HIDE DEF row, kept
<1>5. /\ buf' \in Seq(LogRecord) /\ Len(buf') = Len(kept) + 1
      /\ buf'[Len(kept) + 1] = row
           /\ \A i \in 1 .. Len(kept) : buf'[i] = kept[i]
  BY <1>1, <1>3, <1>4
<1>6. RingInv'
  <2>1. Len(buf') <= next_seq' /\ next_seq' \in 0 .. MaxRecords
    BY <1>1, <1>2, <1>4, <1>5, LogAssumption
  <2>2. ASSUME NEW i \in 1 .. Len(buf')
        PROVE  buf'[i].seq = next_seq' - Len(buf') + i - 1
    <3>1. CASE i = Len(kept) + 1
      BY <1>1, <1>2, <1>3, <1>4, <1>5, <3>1
    <3>2. CASE i # Len(kept) + 1
      <4>1. i \in 1 .. Len(kept)
        BY <1>4, <1>5, <3>2
      <4>2. buf'[i].seq = next_seq - Len(kept) + i - 1
        BY <1>4, <1>5, <4>1
      <4> QED BY <1>1, <1>2, <1>4, <1>5, <4>2
    <3> QED BY <3>1, <3>2
  <2> QED BY <1>5, <2>1, <2>2, Zenon DEF RingInv
<1>7. OneAtATime' <=> OneAtATime
  BY <1>1, Zenon DEF OneAtATime, Spoken
<1>9. /\ cursor' \in 0 .. next_seq'
      /\ \A i \in DOMAIN polls : polls[i] <= next_seq'
      /\ \A i \in DOMAIN answers : answers[i].next_seq <= next_seq'
  <2>1. \A i \in DOMAIN polls : polls[i] \in Nat /\ polls[i] <= next_seq
    BY DEF LogInv
  <2>2. \A i \in DOMAIN answers : answers[i].next_seq \in Nat
                                     /\ answers[i].next_seq <= next_seq
    <3>1. \A i \in DOMAIN answers : answers[i] \in Batch
      BY DEF LogInv
    <3>2. \A b \in Batch : b.next_seq \in Nat
      BY DEF Batch
    <3> QED BY <3>1, <3>2, Zenon DEF LogInv
  <2> QED BY <1>1, <1>2, <2>1, <2>2 DEF LogInv
<1> QED BY <1>1, <1>6, <1>7, <1>9, Zenon DEF LogInv, Spoken

\* The client polls from its cursor.
LEMMA PollKeeps == ASSUME LogInv, poll_once PROVE LogInv'
<1>1. /\ Len(polls) + Len(answers) < overlap /\ polls' = Append(polls, cursor)
      /\ UNCHANGED <<buf, next_seq, overlap, cursor, answers, told>>
  BY DEF poll_once
<1>2. /\ polls \in Seq(Nat) /\ cursor \in Nat /\ cursor <= next_seq
      /\ answers \in Seq(Batch) /\ overlap \in Nat
  BY DEF LogInv, RingInv
<1>3. /\ polls' \in Seq(Nat) /\ Len(polls') = Len(polls) + 1
      /\ \A i \in DOMAIN polls' : polls'[i] = cursor \/
            (i \in DOMAIN polls /\ polls'[i] = polls[i])
  BY <1>1, <1>2
<1>4. RingInv'
  BY <1>1, Zenon DEF LogInv, RingInv
<1>6. \A i \in DOMAIN polls' : polls'[i] <= next_seq
          /\ HeardTo(told, polls'[i], {})
  BY <1>2, <1>3, Zenon DEF LogInv
<1>7. Len(polls') + Len(answers) <= overlap
  BY <1>1, <1>2, <1>3
<1>8. overlap = 1 => OneAtATime'
  <2> SUFFICES ASSUME overlap = 1 PROVE OneAtATime'
    BY Zenon
  <2>1. OneAtATime
    BY Zenon DEF LogInv
  <2>2. \A i \in DOMAIN polls' : polls'[i] = cursor
    BY <1>3, <2>1, Zenon DEF OneAtATime
  <2> QED BY <1>1, <2>1, <2>2, Zenon DEF OneAtATime, Spoken
<1> QED BY <1>1, <1>3, <1>4, <1>6, <1>7, <1>8, Zenon DEF LogInv, Spoken

\* The node answers a poll.
LEMMA ServeKeeps == ASSUME LogInv, logs_since PROVE LogInv'
<1>1. PICK i \in DOMAIN polls, max_records \in Batches :
        /\ answers' = Append(answers, since_within(polls[i], max_records))
        /\ polls' = Without(polls, i)
        /\ UNCHANGED <<buf, next_seq, overlap, cursor, told>>
  BY Zenon DEF logs_since
<1> DEFINE a == since_within(polls[i], max_records)
           since == polls[i]
<1>2. /\ RingInv /\ since \in 0 .. next_seq /\ polls \in Seq(Nat)
      /\ answers \in Seq(Batch) /\ next_seq \in Nat /\ overlap \in Nat
  BY DEF LogInv, RingInv
<1>3. /\ a.next_seq \in since .. next_seq
      /\ Spoken(a) = since .. a.next_seq - 1
  BY <1>2, BatchCovers, Zenon DEF Spoken
<1>4. a \in Batch
  <2>1. a = [records |-> a.records, missed |-> a.missed,
            next_seq |-> a.next_seq]
    BY DEF since_within
  <2>2. a.next_seq \in Nat /\ \A n \in since .. a.next_seq - 1 : n \in Nat
    BY <1>2, <1>3
  <2>3. a.records \in SUBSET Nat /\ a.missed \in SUBSET Nat
    BY <1>3, <2>2, Zenon DEF Spoken
  <2> HIDE DEF a
  <2> QED BY <2>1, <2>2, <2>3 DEF Batch
<1> HIDE DEF a, since
<1>5. /\ polls' \in Seq(Nat) /\ Len(polls') = Len(polls) - 1
      /\ \A j \in DOMAIN polls' : \E k \in DOMAIN polls : polls'[j] = polls[k]
  <2>1. polls \in Seq(Nat) /\ i \in DOMAIN polls
    BY <1>1, <1>2
  <2>2. /\ Without(polls, i) \in Seq(Nat)
             /\ Len(Without(polls, i)) = Len(polls) - 1
        /\ \A j \in DOMAIN Without(polls, i) :
               \E k \in DOMAIN polls : Without(polls, i)[j] = polls[k]
    BY <2>1, WithoutOne
  <2> QED BY <1>1, <2>2, Zenon
<1>6. /\ answers' \in Seq(Batch) /\ Len(answers') = Len(answers) + 1
      /\ \A j \in DOMAIN answers' : answers'[j] = a \/
            (j \in DOMAIN answers /\ answers'[j] = answers[j])
  <2>1. answers' = Append(answers, a)
    BY <1>1, Zenon DEF a
  <2> QED BY <1>2, <1>4, <2>1
<1>7. RingInv'
  BY <1>1, Zenon DEF LogInv, RingInv
<1>9. \A j \in DOMAIN polls' : polls'[j] <= next_seq
          /\ HeardTo(told, polls'[j], {})
  BY <1>5, Zenon DEF LogInv
<1>10. a.next_seq <= next_seq /\ HeardTo(told, a.next_seq, Spoken(a))
  <2>1. HeardTo(told, since, {})
    BY <1>1, Zenon DEF LogInv, since
  <2>2. \A q \in 0 .. a.next_seq - 1 : q \in 0 .. since - 1
            \/ q \in since .. a.next_seq - 1
    BY <1>2, <1>3
  <2>3. HeardTo(told, a.next_seq, Spoken(a))
    BY <1>3, <2>1, <2>2, Zenon DEF HeardTo
  <2> QED BY <1>2, <1>3, <2>3
<1>11. \A j \in DOMAIN answers' :
          /\ answers'[j].next_seq <= next_seq
          /\ HeardTo(told, answers'[j].next_seq, Spoken(answers'[j]))
  BY <1>6, <1>10, Zenon DEF LogInv
<1>12. Len(polls') + Len(answers') <= overlap
  <2>1. Len(polls) + Len(answers) <= overlap /\ Len(polls) \in Nat
            /\ Len(answers) \in Nat
    BY <1>2 DEF LogInv
  <2> QED BY <1>2, <1>5, <1>6, <2>1
<1>13. overlap = 1 => OneAtATime'
  <2> SUFFICES ASSUME overlap = 1 PROVE OneAtATime'
    BY Zenon
  <2>1. OneAtATime
    BY Zenon DEF LogInv
  <2>2. \A j \in DOMAIN polls' : polls'[j] = cursor
    BY <1>5, <2>1, Zenon DEF OneAtATime
  <2>3. since = cursor
    BY <1>1, <2>1, Zenon DEF OneAtATime, since
  <2>4. cursor <= a.next_seq /\ Spoken(a) = cursor .. a.next_seq - 1
    BY <1>2, <1>3, <2>3
  <2>5. \A j \in DOMAIN answers' :
           /\ cursor <= answers'[j].next_seq
           /\ Spoken(answers'[j]) = cursor .. answers'[j].next_seq - 1
    BY <1>6, <2>1, <2>4, Zenon DEF OneAtATime
  <2> QED BY <1>1, <2>1, <2>2, <2>5, Zenon DEF OneAtATime, Spoken
<1> QED
  BY <1>1, <1>5, <1>6, <1>7, <1>9, <1>11, <1>12, <1>13, Zenon
  DEF LogInv, Spoken

\* The client takes in an answer, in the order sent or not.
LEMMA IngestKeeps ==
    ASSUME LogInv, NEW i \in DOMAIN answers, ingest_logs(i)
    PROVE  LogInv'
<1> DEFINE a == answers[i]
<1>1. /\ told' = [q \in DOMAIN told |-> IF q \in Spoken(a) THEN Tell(told[q])
                                       ELSE told[q]]
      /\ cursor' = a.next_seq /\ answers' = Without(answers, i)
      /\ UNCHANGED <<buf, next_seq, overlap, polls>>
  BY Zenon DEF ingest_logs, Spoken
<1>2. /\ RingInv /\ polls \in Seq(Nat) /\ answers \in Seq(Batch)
      /\ next_seq \in Nat /\ overlap \in Nat
           /\ told \in [0 .. MaxRecords - 1 -> Nat]
      /\ next_seq <= MaxRecords
  BY LogAssumption DEF LogInv, RingInv
<1>3. /\ a \in Batch /\ a.next_seq \in Nat /\ a.next_seq <= next_seq
      /\ HeardTo(told, a.next_seq, Spoken(a))
  <2>1. a \in Batch
    BY <1>2
  <2>2. a.next_seq \in Nat
    BY <2>1 DEF Batch
  <2> QED BY <2>1, <2>2, Zenon DEF LogInv
<1>4. /\ answers' \in Seq(Batch) /\ Len(answers') = Len(answers) - 1
      /\ \A j \in DOMAIN answers' : \E k \in DOMAIN answers :
           answers'[j] = answers[k]
  <2>1. /\ Without(answers, i) \in Seq(Batch)
        /\ Len(Without(answers, i)) = Len(answers) - 1
        /\ \A j \in DOMAIN Without(answers, i) :
               \E k \in DOMAIN answers : Without(answers, i)[j] = answers[k]
    BY <1>2, WithoutOne
  <2> QED BY <1>1, <2>1, Zenon
<1> HIDE DEF a
<1>5. \A n \in Nat : Tell(n) \in Nat /\ Tell(n) > 0
  BY DEF Tell
<1>6. /\ told' \in [0 .. MaxRecords - 1 -> Nat]
      /\ \A q \in DOMAIN told : q \in DOMAIN told'
           /\ (told[q] > 0 => told'[q] > 0)
                                   /\ (q \in Spoken(a) => told'[q] > 0)
  <2>1. \A q \in 0 .. MaxRecords - 1 :
           /\ told[q] \in Nat
           /\ told'[q] = IF q \in Spoken(a) THEN Tell(told[q]) ELSE told[q]
    BY <1>1, <1>2
  <2>2. \A q \in 0 .. MaxRecords - 1 :
           told'[q] \in Nat /\ (told[q] > 0 => told'[q] > 0)
              /\ (q \in Spoken(a) => told'[q] > 0)
    BY <1>5, <2>1, Zenon
  <2>3. DOMAIN told = 0 .. MaxRecords - 1 /\ DOMAIN told' = 0 .. MaxRecords - 1
        /\ told' = [q \in 0 .. MaxRecords - 1 |-> told'[q]]
    BY <1>1, <1>2
  <2> QED BY <2>2, <2>3, Zenon
<1>7. RingInv'
  BY <1>1, Zenon DEF LogInv, RingInv
<1>8. \A q : Heard(told, q) => Heard(told', q)
  BY <1>6, Zenon DEF Heard
<1>9. \A n, S : HeardTo(told, n, S) => HeardTo(told', n, S)
  BY <1>8, Zenon DEF HeardTo
<1>10. HeardTo(told', cursor', {})
  <2>1. \A q \in 0 .. a.next_seq - 1 : q \in 0 .. MaxRecords - 1
    BY <1>2, <1>3, LogAssumption
  <2>2. \A q \in 0 .. a.next_seq - 1 : Heard(told, q) \/ q \in Spoken(a)
    BY <1>3, Zenon DEF HeardTo
  <2>3. \A q \in 0 .. a.next_seq - 1 : Heard(told', q)
    <3>1. DOMAIN told = 0 .. MaxRecords - 1
      BY <1>2
    <3> QED BY <1>6, <1>8, <2>1, <2>2, <3>1, Zenon DEF Heard
  <2> QED BY <1>1, <2>3, Zenon DEF HeardTo
<1>11. cursor' \in 0 .. next_seq'
  BY <1>1, <1>2, <1>3
<1>12. \A j \in DOMAIN polls : polls[j] <= next_seq
           /\ HeardTo(told', polls[j], {})
  BY <1>9, Zenon DEF LogInv
<1>13. \A j \in DOMAIN answers' :
          /\ answers'[j].next_seq <= next_seq
          /\ HeardTo(told', answers'[j].next_seq, Spoken(answers'[j]))
  <2> TAKE j \in DOMAIN answers'
  <2>1. PICK k \in DOMAIN answers : answers'[j] = answers[k]
    BY <1>4, Zenon
  <2>2. answers[k].next_seq <= next_seq
            /\ HeardTo(told, answers[k].next_seq, Spoken(answers[k]))
    BY Zenon DEF LogInv
  <2> QED BY <1>9, <2>1, <2>2, Zenon
<1>14. /\ Len(polls) + Len(answers') <= overlap
       /\ overlap = 1 => polls = <<>> /\ answers' = <<>>
  <2>1. Len(polls) + Len(answers) <= overlap
    BY DEF LogInv
  <2>2. Len(answers) # 0
    BY <1>2
  <2> QED BY <1>2, <1>4, <2>1, <2>2
<1>15. overlap = 1 => OneAtATime'
  <2> SUFFICES ASSUME overlap = 1 PROVE OneAtATime'
    BY Zenon
  <2>1. /\ cursor <= a.next_seq /\ Spoken(a) = cursor .. a.next_seq - 1
        /\ \A q \in DOMAIN told : told[q] = IF q < cursor THEN 1 ELSE 0
    BY Zenon DEF LogInv, OneAtATime, a
  <2>2. cursor \in Nat
    BY DEF LogInv
  <2>3. \A q \in 0 .. MaxRecords - 1 : told'[q] = IF q < a.next_seq THEN 1
            ELSE 0
    <3>1. \A q \in 0 .. MaxRecords - 1 :
              told'[q] = IF q \in cursor .. a.next_seq - 1 THEN Tell(told[q])
                  ELSE told[q]
      BY <1>1, <1>2, <2>1
    <3>2. \A q \in 0 .. MaxRecords - 1 : told[q] = IF q < cursor THEN 1 ELSE 0
      BY <1>2, <2>1
    <3>3. Tell(0) = 1
      BY DEF Tell
    <3> QED BY <1>3, <2>1, <2>2, <3>1, <3>2, <3>3, LogAssumption
  <2>4. DOMAIN told' = 0 .. MaxRecords - 1
    BY <1>6
  <2>5. DOMAIN polls' = {} /\ DOMAIN answers' = {}
    BY <1>1, <1>14
  <2> QED BY <1>1, <2>3, <2>4, <2>5, Zenon DEF OneAtATime
<1> QED
  BY <1>1, <1>4, <1>6, <1>7, <1>10, <1>11, <1>12, <1>13, <1>14, <1>15, Zenon
  DEF LogInv

\* A poll that fails.
LEMMA FailKeeps == ASSUME LogInv, PollFails PROVE LogInv'
<1>1. UNCHANGED <<buf, next_seq, overlap, cursor, told>>
  BY Zenon DEF PollFails
<1>2. polls \in Seq(Nat) /\ answers \in Seq(Batch) /\ overlap \in Nat
      /\ Len(polls) + Len(answers) <= overlap
  BY DEF LogInv
<1>3. /\ polls' \in Seq(Nat) /\ answers' \in Seq(Batch)
      /\ Len(polls') + Len(answers') <= overlap
      /\ \A j \in DOMAIN polls' : \E k \in DOMAIN polls : polls'[j] = polls[k]
      /\ \A j \in DOMAIN answers' : \E k \in DOMAIN answers :
           answers'[j] = answers[k]
  <2>1. ASSUME NEW i \in DOMAIN polls, polls' = Without(polls, i),
                   UNCHANGED answers
        PROVE  /\ polls' \in Seq(Nat) /\ Len(polls') = Len(polls) - 1
               /\ \A j \in DOMAIN polls' : \E k \in DOMAIN polls :
                    polls'[j] = polls[k]
    BY <1>2, <2>1, WithoutOne
  <2>2. ASSUME NEW i \in DOMAIN answers, answers' = Without(answers, i),
                   UNCHANGED polls
        PROVE  /\ answers' \in Seq(Batch) /\ Len(answers') = Len(answers) - 1
               /\ \A j \in DOMAIN answers' :
                      \E k \in DOMAIN answers : answers'[j] = answers[k]
    BY <1>2, <2>2, WithoutOne
  <2>3. Len(polls) \in Nat /\ Len(answers) \in Nat
    BY <1>2
  <2>4. \/ UNCHANGED answers
             /\ \E i \in DOMAIN polls : polls' = Without(polls, i)
        \/ UNCHANGED polls
             /\ \E i \in DOMAIN answers : answers' = Without(answers, i)
    BY Zenon DEF PollFails
  <2>5. CASE UNCHANGED answers
            /\ \E i \in DOMAIN polls : polls' = Without(polls, i)
    <3>1. /\ polls' \in Seq(Nat) /\ Len(polls') = Len(polls) - 1
          /\ \A j \in DOMAIN polls' : \E k \in DOMAIN polls :
               polls'[j] = polls[k]
      BY <2>1, <2>5, Zenon
    <3>2. Len(polls') + Len(answers') <= overlap
      BY <1>2, <2>3, <2>5, <3>1
    <3> QED BY <1>2, <2>5, <3>1, <3>2, Zenon
  <2>6. CASE UNCHANGED polls
            /\ \E i \in DOMAIN answers : answers' = Without(answers, i)
    <3>1. /\ answers' \in Seq(Batch) /\ Len(answers') = Len(answers) - 1
          /\ \A j \in DOMAIN answers' :
                 \E k \in DOMAIN answers : answers'[j] = answers[k]
      BY <2>2, <2>6, Zenon
    <3>2. Len(polls') + Len(answers') <= overlap
      BY <1>2, <2>3, <2>6, <3>1
    <3> QED BY <1>2, <2>6, <3>1, <3>2, Zenon
  <2> QED BY <2>4, <2>5, <2>6, Zenon
<1>4. RingInv'
  BY <1>1, Zenon DEF LogInv, RingInv
<1>5. \A j \in DOMAIN polls' : polls'[j] <= next_seq
          /\ HeardTo(told, polls'[j], {})
  BY <1>3, Zenon DEF LogInv
<1>6. \A j \in DOMAIN answers' :
          /\ answers'[j].next_seq <= next_seq
          /\ HeardTo(told, answers'[j].next_seq, Spoken(answers'[j]))
  <2> TAKE j \in DOMAIN answers'
  <2>1. PICK k \in DOMAIN answers : answers'[j] = answers[k]
    BY <1>3, Zenon
  <2> QED BY <2>1, Zenon DEF LogInv
<1>7. overlap = 1 => OneAtATime'
  <2> SUFFICES ASSUME overlap = 1 PROVE OneAtATime'
    BY Zenon
  <2>1. OneAtATime
    BY Zenon DEF LogInv
  <2>2. \A j \in DOMAIN polls' : polls'[j] = cursor
    BY <1>3, <2>1, Zenon DEF OneAtATime
  <2>3. \A j \in DOMAIN answers' :
           /\ cursor <= answers'[j].next_seq
           /\ Spoken(answers'[j]) = cursor .. answers'[j].next_seq - 1
    <3> TAKE j \in DOMAIN answers'
    <3>1. PICK k \in DOMAIN answers : answers'[j] = answers[k]
      BY <1>3, Zenon
    <3> QED BY <2>1, <3>1, Zenon DEF OneAtATime
  <2> QED BY <1>1, <2>1, <2>2, <2>3, Zenon DEF OneAtATime, Spoken
<1> QED BY <1>1, <1>3, <1>4, <1>5, <1>6, <1>7, Zenon DEF LogInv, Spoken

\* Every step keeps the invariant.
LEMMA LogStep == LogInv /\ [LogNext]_logVars => LogInv'
<1> SUFFICES ASSUME LogInv, [LogNext]_logVars PROVE LogInv'
  OBVIOUS
<1>1. ASSUME NEW size \in Sizes, push(size) PROVE LogInv'
  BY <1>1, PushKeeps
<1>2. CASE poll_once
  BY <1>2, PollKeeps
<1>3. CASE logs_since
  BY <1>3, ServeKeeps
<1>4. ASSUME NEW i \in DOMAIN answers, ingest_logs(i) PROVE LogInv'
  BY <1>4, IngestKeeps
<1>5. CASE PollFails
  BY <1>5, FailKeeps
<1>6. CASE UNCHANGED logVars
  <2>1. UNCHANGED <<buf, next_seq, overlap, cursor, polls, answers, told>>
    BY <1>6, Zenon DEF logVars
  <2> QED BY <2>1, Zenon DEF LogInv, RingInv, OneAtATime, Spoken
<1> QED BY <1>1, <1>2, <1>3, <1>4, <1>5, <1>6, Zenon DEF LogNext

\* For any ring, budget and batch size: a client is told of every record up
\* to its cursor, as a record or in the count of those it missed, and of none
\* twice while it has one poll under way (`push`, `logs_since`,
\* `History::ingest_logs`).
THEOREM NoRecordSkipped == LogSpec => []NothingSkipped
<1>1. LogInv => NothingSkipped
  <2> SUFFICES ASSUME LogInv PROVE NothingSkipped
    OBVIOUS
  <2>1. \A q \in 0 .. cursor - 1 : told[q] > 0
    BY Zenon DEF LogInv, HeardTo, Heard
  <2> QED BY <2>1, Zenon DEF LogInv, OneAtATime, NothingSkipped
<1> QED BY <1>1, LogStart, LogStep, PTL DEF LogSpec
=============================================================================
