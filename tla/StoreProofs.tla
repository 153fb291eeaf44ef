---------------------------- MODULE StoreProofs -----------------------------
(***************************************************************************)
(* What a node keeps.  Both durable stores implement DurableRegister, for  *)
(* every set of blobs.  The flash store does for every generation width    *)
(* and every number of saves the width can count, when an interrupted      *)
(* erase cannot change a header into another valid one (RaisedBits is      *)
(* FALSE); the file store, whatever a power cut leaves of an unflushed     *)
(* .tmp.                                                                   *)
(*                                                                         *)
(* The alarm board shows the worst there is, for any conditions,           *)
(* severities and capacity.  Its property is inductive once the rows are   *)
(* known to be distinct conditions and the ones not shown are counted.     *)
(***************************************************************************)
EXTENDS Stores, AlarmBoard, FiniteSetTheorems, TLAPS

-----------------------------------------------------------------------------
(* The durable stores.                                                     *)

Saving == pc \in {"erase", "header", "payload"}

\* The page a save in progress leaves alone.
Other == 1 - target

CallInv ==
    /\ pc = "idle" <=> call = "idle"
    /\ Saving => call = "save"
    /\ pc = "wipe" => call \in {"scrub", "erase"}
    /\ call = "save" => arg \in Blob /\ saves > 0

\* No header's generation has reached the number of saves begun, so the
\* next generation never wraps.
GenInv ==
    /\ \A i \in Page :
           pages[i].hdr < (IF pc = "plan" /\ call = "save" THEN saves - 1
                                                           ELSE saves)
    /\ Saving => gen < saves

\* Until a save lands, a load reads the page it leaves alone.
SaveInv ==
    Saving =>
        /\ newest_valid(pages) =
               IF read_valid_header(pages[Other]) THEN Other ELSE NoPage
        /\ read_valid_header(pages[Other]) => gen = pages[Other].hdr + 1
        /\ pc = "header" => pages[target] = Blank
        /\ pc = "payload" => /\ pages[target].hdr = gen
                             /\ ~pages[target].whole
                             /\ left > 0

WipeInv ==
    pc = "wipe" =>
        /\ at \in Page
        /\ keep = IF call = "scrub" THEN newest_valid(pages) ELSE NoPage
        /\ \A i \in Page : i < at /\ i # keep => pages[i] = Blank

DoneInv ==
    pc = "done" =>
        /\ call = "save" => load(pages) = arg
        /\ call = "scrub" =>
               \A i \in Page : i # newest_valid(pages) => pages[i] = Blank
        /\ call = "erase" => \A i \in Page : pages[i] = Blank

IInv == TypeOK /\ CallInv /\ GenInv /\ SaveInv /\ WipeInv /\ DoneInv

LEMMA InitInv == Init => IInv
  BY StoreConstants
  DEF Init, IInv, TypeOK, CallInv, GenInv, SaveInv, WipeInv, DoneInv, Saving,
      Pages, Blank, Page, NoPage, Gen, Erased, Torn, Stages

LEMMA NewestInRange ==
  ASSUME NEW ps \in [Page -> Pages]
  PROVE  /\ newest_valid(ps) \in Page \cup {NoPage}
         /\ load(ps) \in Blob \cup {NoBlob}
         /\ Leftovers(ps) \subseteq Blob
  BY StoreConstants
  DEF newest_valid, load, Leftovers, Page, NoPage, Pages, read_valid_header

LEMMA InvokeInv ==
  ASSUME IInv, NEW what \in {"save", "scrub", "erase"},
         NEW b \in Blob \cup {NoBlob}, what = "save" => b \in Blob,
         Invoke(what, b),
         saves' = IF what = "save" THEN saves + 1
             ELSE saves, saves' <= MaxSaves
  PROVE  IInv'
  BY StoreConstants
  DEF IInv, TypeOK, CallInv, GenInv, SaveInv, WipeInv, DoneInv, Saving,
      Invoke, Stages, Page, Other, Pages

LEMMA PlanSaveInv == IInv /\ PlanSave => IInv'
<1> SUFFICES ASSUME IInv, PlanSave PROVE IInv'
  BY Zenon
<1> DEFINE newest == newest_valid(pages)
<1>1. newest \in Page \cup {NoPage}
  BY NewestInRange, Zenon DEF IInv, TypeOK
<1>2. newest # NoPage => /\ read_valid_header(pages[newest])
                         /\ pages[newest].hdr \in Gen
                         /\ pages[newest].hdr + 1 < saves
                         /\ (pages[newest].hdr + 1) % GenCount
                                = pages[newest].hdr + 1
  <2> SUFFICES ASSUME newest # NoPage
               PROVE  /\ read_valid_header(pages[newest])
                      /\ pages[newest].hdr \in Gen
                      /\ pages[newest].hdr + 1 < saves
                      /\ (pages[newest].hdr + 1) % GenCount
                             = pages[newest].hdr + 1
    BY Zenon
  <2>1. newest \in Page /\ read_valid_header(pages[newest])
    BY <1>1, Zenon DEF newest_valid
  <2>2. pages[newest].hdr \in Gen
    BY <2>1, Zenon DEF read_valid_header
  <2>3. pages[newest].hdr < saves - 1 /\ saves \in 0 .. MaxSaves
    BY <2>1, Zenon DEF IInv, TypeOK, GenInv, PlanSave
  <2> HIDE DEF newest
  <2>4. /\ pages[newest].hdr + 1 < saves
        /\ (pages[newest].hdr + 1) % GenCount = pages[newest].hdr + 1
    BY ONLY StoreConstants, <2>2, <2>3 DEF Gen
  <2> QED
    BY <2>1, <2>2, <2>4, Zenon
<1>3. newest = NoPage => \A i \in Page : ~read_valid_header(pages[i])
  BY DEF newest_valid, Page, NoPage
<1>4. saves \in Nat /\ saves > 0 /\ saves <= GenCount
  BY StoreConstants DEF IInv, TypeOK, CallInv, PlanSave
<1>5. gen' \in Gen /\ gen' < saves /\ target' \in Page
  <2>1. CASE newest = NoPage
    BY <1>4, <2>1, StoreConstants DEF PlanSave, Gen, Page
  <2>2. CASE newest # NoPage
    BY <1>1, <1>2, <1>4, <2>2, StoreConstants DEF PlanSave, Gen, Page, NoPage
  <2> QED
    BY <2>1, <2>2, Zenon
<1>6. TypeOK' /\ CallInv'
  BY <1>5, Zenon DEF IInv, TypeOK, CallInv, Saving, PlanSave, Stages
<1>7. \A i \in Page : pages[i].hdr < saves
  BY <1>4 DEF IInv, TypeOK, GenInv, PlanSave, Pages, Gen, Erased, Torn
<1>8. GenInv'
  BY <1>5, <1>7, Zenon DEF GenInv, Saving, PlanSave
<1>9. SaveInv'
  BY <1>1, <1>2, <1>3
  DEF PlanSave, SaveInv, Saving, Other, Page, NoPage
<1>10. WipeInv' /\ DoneInv'
  BY Zenon DEF PlanSave, WipeInv, DoneInv
<1> QED
  BY <1>6, <1>9, <1>10, <1>8, Zenon DEF IInv

\* A load is unmoved when the page a save overwrites stops being valid.
LEMMA OtherStaysNewest ==
  ASSUME IInv, Saving, NEW p \in Pages,
         ~read_valid_header(p) \/ p = pages[target]
  PROVE  LET ps == [pages EXCEPT ![target] = p]
         IN  /\ ps \in [Page -> Pages]
             /\ ps[Other] = pages[Other]
             /\ newest_valid(ps) = newest_valid(pages)
             /\ load(ps) = load(pages)
             /\ Leftovers(ps) \subseteq Leftovers(pages) \cup {p.cells}
<1> DEFINE ps == [pages EXCEPT ![target] = p]
<1>1. /\ ps \in [Page -> Pages]
      /\ ps[Other] = pages[Other]
      /\ ps[target] = p
      /\ Other \in Page /\ Other # target
      /\ \A i \in Page : i = target \/ i = Other
  BY DEF IInv, TypeOK, Page, Other
<1>2. newest_valid(ps) = newest_valid(pages)
  BY <1>1 DEF IInv, TypeOK, SaveInv, newest_valid, Page, NoPage, Other
<1>3. load(ps) = load(pages)
  BY <1>1, <1>2, Zenon DEF IInv, SaveInv, load, NoPage, Page
<1>4. Leftovers(ps) \subseteq Leftovers(pages) \cup {p.cells}
  BY <1>1, <1>2, Zenon DEF Leftovers
<1> QED
  BY <1>1, <1>2, <1>3, <1>4, Zenon

\* What a flash operation cut short leaves in the page is the page as it
\* was or one that does not validate.
LEMMA ErasedInPart ==
  ASSUME RaisedBits = FALSE, NEW p \in Pages, NEW q \in PartlyErased(p)
  PROVE  /\ q \in Pages
         /\ ~read_valid_header(q) \/ q = p
         /\ q.cells \in {p.cells, NoBlob}
         /\ q.hdr \in {p.hdr, Erased, Torn}
<1>1. /\ Blank \in Pages /\ ~read_valid_header(Blank)
      /\ Blank.cells = NoBlob /\ Blank.hdr = Erased
  BY Zenon DEF Blank, Pages, read_valid_header, Gen, Erased
<1>2. \A h \in {p.hdr, Erased, Torn} :
         LET r == [hdr |-> h, cells |-> p.cells, whole |-> FALSE]
         IN  /\ r \in Pages /\ ~read_valid_header(r)
             /\ r.cells = p.cells /\ r.hdr = h
  BY Zenon DEF Pages, read_valid_header
<1> QED
  BY <1>1, <1>2, Zenon DEF PartlyErased

LEMMA HeadedInPart ==
  ASSUME NEW p \in Pages, NEW q \in PartlyHeaded(p)
  PROVE  /\ q \in Pages
         /\ ~read_valid_header(q) \/ q = p
         /\ q.cells = p.cells
         /\ q.hdr \in {p.hdr, Torn}
  BY DEF PartlyHeaded, Pages, read_valid_header, Gen, Torn

LEMMA FilledInPart ==
  ASSUME NEW p \in Pages, NEW b \in Blob, NEW q \in PartlyFilled(p, b),
         ~p.whole
  PROVE  /\ q \in Pages
         /\ ~read_valid_header(q)
         /\ q.cells \in {p.cells, b}
         /\ q.hdr = p.hdr
<1>1. LET r == [p EXCEPT !.cells = b]
      IN  r \in Pages /\ r.whole = p.whole /\ r.cells = b /\ r.hdr = p.hdr
  BY Zenon DEF Pages
<1>2. q \in Pages /\ q.whole = p.whole
      /\ q.cells \in {p.cells, b} /\ q.hdr = p.hdr
  BY <1>1, Zenon DEF PartlyFilled
<1>3. ~q.whole
  BY <1>2, Zenon
<1> QED
  BY <1>2, <1>3, Zenon DEF read_valid_header

LEMMA SaveEraseInv == IInv /\ SaveErase => IInv'
<1> SUFFICES ASSUME IInv, SaveErase PROVE IInv'
  BY Zenon
<1>1. /\ Saving /\ Blank \in Pages /\ ~read_valid_header(Blank)
      /\ Blank.hdr = -1
  BY Zenon DEF SaveErase, Saving, Blank, Pages, read_valid_header, Gen, Erased
<1>2. /\ pages' = [pages EXCEPT ![target] = Blank]
      /\ pages' \in [Page -> Pages]
      /\ pages'[Other] = pages[Other]
      /\ newest_valid(pages') = newest_valid(pages)
  BY <1>1, OtherStaysNewest, Zenon DEF SaveErase
<1>3. \A i \in Page : pages'[i] \in {pages[i], Blank}
  BY <1>2, Zenon DEF IInv, TypeOK
<1>4. TypeOK' /\ CallInv'
  BY <1>2, Zenon DEF IInv, TypeOK, CallInv, Saving, SaveErase, work, Stages
<1>5. GenInv'
  <2>1. \A i \in Page : pages'[i].hdr < saves
    BY <1>1, <1>3 DEF IInv, TypeOK, CallInv, GenInv, SaveErase
  <2> QED
    BY <2>1, <1>1, Zenon DEF IInv, GenInv, SaveErase, Saving, work
<1>6. SaveInv'
  BY <1>1, <1>2, Zenon
     DEF IInv, TypeOK, SaveInv, SaveErase, Saving, Other, work
<1>7. WipeInv' /\ DoneInv'
  BY Zenon DEF SaveErase, WipeInv, DoneInv
<1> QED
  BY <1>4, <1>5, <1>6, <1>7, Zenon DEF IInv

\* The write that completes the page makes it the one a load reads.
LEMMA CompletedPageIsNewest ==
  ASSUME IInv, Saving, NEW p \in Pages,
         p.hdr = gen, p.whole, p.cells = arg
  PROVE  LET ps == [pages EXCEPT ![target] = p]
         IN  /\ ps \in [Page -> Pages]
             /\ newest_valid(ps) = target
             /\ load(ps) = arg
             /\ Leftovers(ps) \subseteq
                    (Leftovers(pages) \cup {load(pages)}) \ {NoBlob}
<1> DEFINE ps == [pages EXCEPT ![target] = p]
<1>1. /\ ps \in [Page -> Pages]
      /\ ps[Other] = pages[Other]
      /\ ps[target] = p
      /\ Other \in Page /\ Other # target /\ target \in Page
      /\ \A i \in Page : i = target \/ i = Other
  BY DEF IInv, TypeOK, Page, Other
<1>2. read_valid_header(p)
  BY Zenon DEF IInv, TypeOK, read_valid_header
<1>3. read_valid_header(pages[Other]) => pages[Other].hdr < gen
  BY <1>1 DEF IInv, TypeOK, SaveInv, Pages, Gen, read_valid_header
<1>4. newest_valid(ps) = target
  <2>1. gen \in Int /\ (read_valid_header(pages[Other]) =>
                           ~(pages[Other].hdr > gen) /\ gen > pages[Other].hdr)
    BY <1>1, <1>3 DEF IInv, TypeOK, Gen, read_valid_header
  <2>2. CASE target = 0
    BY <1>1, <1>2, <2>1, <2>2 DEF newest_valid, Other
  <2>3. CASE target = 1
    BY <1>1, <1>2, <2>1, <2>3 DEF newest_valid, Other
  <2> QED
    BY <1>1, <2>2, <2>3 DEF Page
<1>5. load(ps) = arg
  BY <1>1, <1>4 DEF load, NoPage, Page
<1>6. Leftovers(ps) \subseteq {pages[Other].cells} \ {NoBlob}
  BY <1>1, <1>4, Zenon DEF Leftovers
<1>7. pages[Other].cells \in Leftovers(pages) \cup {load(pages), NoBlob}
  BY <1>1 DEF IInv, SaveInv, Leftovers, load, NoPage, Page
<1> QED
  BY <1>1, <1>4, <1>5, <1>6, <1>7, Zenon

LEMMA SaveHeaderInv == IInv /\ SaveHeader => IInv'
<1> SUFFICES ASSUME IInv, SaveHeader PROVE IInv'
  BY Zenon
<1> DEFINE last == Writes[arg] = 0
           p == [hdr |-> gen, whole |-> last,
                 cells |-> IF last THEN arg ELSE NoBlob]
<1>1. /\ Saving /\ arg \in Blob /\ Writes[arg] \in 0..2
      /\ p \in Pages /\ p.hdr = gen /\ p.whole = last
      /\ pages' = [pages EXCEPT ![target] = p]
  BY StoreConstants, Zenon
     DEF IInv, TypeOK, CallInv, SaveHeader, Saving, Pages
<1>2. \A i \in Page : pages'[i] = IF i = target THEN p ELSE pages[i]
  BY <1>1, Zenon DEF IInv, TypeOK
<1>3. pages' \in [Page -> Pages]
  BY <1>1, Zenon DEF IInv, TypeOK
<1>4. TypeOK' /\ CallInv'
  BY <1>1, <1>3, Zenon DEF IInv, TypeOK, CallInv, Saving, SaveHeader, Stages
<1>5. GenInv'
  <2>1. \A i \in Page : pages'[i].hdr < saves
    BY <1>1, <1>2, Zenon DEF IInv, GenInv, SaveHeader, Saving
  <2> QED
    BY <1>1, <2>1, Zenon DEF IInv, GenInv, SaveHeader, Saving
<1>6. SaveInv' /\ DoneInv'
  <2>1. CASE last
    <3>1. load(pages') = arg
      BY <1>1, <2>1, CompletedPageIsNewest, Zenon
    <3> QED
      BY <2>1, <3>1, Zenon
         DEF IInv, CallInv, SaveInv, DoneInv, SaveHeader, Saving
  <2>2. CASE ~last
    <3>1. ~read_valid_header(p)
      BY <1>1, <2>2, Zenon DEF read_valid_header
    <3>2. /\ pages'[Other] = pages[Other]
          /\ newest_valid(pages') = newest_valid(pages)
      BY <1>1, <3>1, OtherStaysNewest, Zenon
    <3>3. pages'[target] = p /\ p.hdr = gen
      BY <1>1, <1>2, Zenon DEF IInv, TypeOK
    <3>4. ~p.whole
      BY <1>1, <2>2, Zenon
    <3>5. target' = target /\ gen' = gen /\ pc' = "payload" /\ left' > 0
      BY <1>1, <2>2 DEF SaveHeader
    <3> QED
      BY <1>1, <3>2, <3>3, <3>4, <3>5, Zenon
         DEF IInv, SaveInv, DoneInv, Saving, Other
  <2> QED
    BY <2>1, <2>2, Zenon
<1>7. WipeInv'
  BY Zenon DEF SaveHeader, WipeInv
<1> QED
  BY <1>4, <1>5, <1>6, <1>7, Zenon DEF IInv

LEMMA SavePayloadInv == IInv /\ SavePayload => IInv'
<1> SUFFICES ASSUME IInv, SavePayload PROVE IInv'
  BY Zenon
<1> DEFINE p == [hdr |-> gen, cells |-> arg, whole |-> (left = 1)]
<1>1. /\ Saving /\ arg \in Blob /\ left \in 1..2
      /\ p \in Pages /\ p.hdr = gen /\ p.whole = (left = 1) /\ p.cells = arg
      /\ pages' = [pages EXCEPT ![target] = p]
  BY DEF IInv, TypeOK, CallInv, SaveInv, SavePayload, Saving, Pages
<1>2. \A i \in Page : pages'[i] = IF i = target THEN p ELSE pages[i]
  BY <1>1, Zenon DEF IInv, TypeOK
<1>3. pages' \in [Page -> Pages]
  BY <1>1, Zenon DEF IInv, TypeOK
<1>4. TypeOK' /\ CallInv'
  BY <1>1, <1>3 DEF IInv, TypeOK, CallInv, Saving, SavePayload, Stages
<1>5. GenInv'
  <2>1. \A i \in Page : pages'[i].hdr < saves
    BY <1>1, <1>2, Zenon DEF IInv, GenInv, SavePayload, Saving
  <2> QED
    BY <1>1, <2>1, Zenon DEF IInv, GenInv, SavePayload, Saving
<1>6. SaveInv' /\ DoneInv'
  <2>1. CASE left = 1
    <3>1. load(pages') = arg
      BY <1>1, <2>1, CompletedPageIsNewest, Zenon
    <3> QED
      BY <2>1, <3>1, Zenon
         DEF IInv, CallInv, SaveInv, DoneInv, SavePayload, Saving
  <2>2. CASE left # 1
    <3>1. ~read_valid_header(p)
      BY <1>1, <2>2, Zenon DEF read_valid_header
    <3>2. /\ pages'[Other] = pages[Other]
          /\ newest_valid(pages') = newest_valid(pages)
      BY <1>1, <3>1, OtherStaysNewest, Zenon
    <3>3. pages'[target] = p /\ p.hdr = gen
      BY <1>1, <1>2, Zenon DEF IInv, TypeOK
    <3>4. ~p.whole
      BY <1>1, <2>2, Zenon
    <3>5. target' = target /\ gen' = gen /\ pc' = "payload" /\ left' > 0
      BY <1>1, <2>2 DEF SavePayload
    <3> QED
      BY <1>1, <3>2, <3>3, <3>4, <3>5, Zenon
         DEF IInv, SaveInv, DoneInv, Saving, Other
  <2> QED
    BY <2>1, <2>2, Zenon
<1>7. WipeInv'
  BY Zenon DEF SavePayload, WipeInv
<1> QED
  BY <1>4, <1>5, <1>6, <1>7, Zenon DEF IInv

\* A page that stops validating, with no blob in it that was not there
\* before: a load is unmoved unless that was the page it read, and then it
\* finds nothing or what the other page still holds.
LEMMA SpoiledPage ==
  ASSUME NEW ps \in [Page -> Pages], NEW i \in Page, NEW q \in Pages,
         ~read_valid_header(q) \/ q = ps[i],
         q.cells \in {ps[i].cells, NoBlob}
  PROVE  LET qs == [ps EXCEPT ![i] = q]
         IN  /\ qs \in [Page -> Pages]
             /\ load(qs) \in {load(ps), NoBlob} \cup Leftovers(ps)
             /\ Leftovers(qs) \subseteq
                    (Leftovers(ps) \cup {load(ps)}) \ {NoBlob}
             /\ i # newest_valid(ps) =>
                    /\ newest_valid(qs) = newest_valid(ps)
                    /\ load(qs) = load(ps)
                    /\ Leftovers(qs) \subseteq Leftovers(ps)
<1> DEFINE qs == [ps EXCEPT ![i] = q]
           j == 1 - i
<1>1. /\ qs \in [Page -> Pages]
      /\ qs[i] = q /\ qs[j] = ps[j] /\ j \in Page /\ i # j
      /\ \A k \in Page : k = i \/ k = j
  BY DEF Page
<1>2. \A k \in Page : ps[k].cells \in Leftovers(ps) \cup {load(ps), NoBlob}
  BY <1>1 DEF Leftovers, load, Page, NoPage
<1>3. \A k \in Page : qs[k].cells \in Leftovers(ps) \cup {load(ps), NoBlob}
  BY <1>1, <1>2, Zenon
<1>4. Leftovers(qs) \subseteq (Leftovers(ps) \cup {load(ps)}) \ {NoBlob}
  BY <1>3, Zenon DEF Leftovers
<1>5. newest_valid(qs) \in Page \cup {NoPage}
  BY <1>1, NewestInRange, Zenon
<1>6. load(qs) \in {load(ps), NoBlob} \cup Leftovers(ps)
  BY <1>3, <1>5, Zenon DEF load
<1>7. i # newest_valid(ps) => newest_valid(qs) = newest_valid(ps)
  BY <1>1 DEF newest_valid, Page, NoPage, Pages, Gen, read_valid_header
<1>8. ASSUME i # newest_valid(ps)
      PROVE  load(qs) = load(ps) /\ Leftovers(qs) \subseteq Leftovers(ps)
  <2>1. newest_valid(qs) = newest_valid(ps)
    BY <1>7, <1>8, Zenon
  <2>2. load(qs) = load(ps)
    BY <1>1, <1>5, <1>8, <2>1, Zenon DEF load
  <2>3. Leftovers(qs) \subseteq Leftovers(ps)
    BY <1>1, <1>8, <2>1, Zenon DEF Leftovers
  <2> QED
    BY <2>2, <2>3, Zenon
<1> QED
  BY <1>1, <1>4, <1>6, <1>7, <1>8, Zenon

LEMMA PlanWipeInv == IInv /\ PlanWipe => IInv'
<1> SUFFICES ASSUME IInv, PlanWipe PROVE IInv'
  BY Zenon
<1>1. newest_valid(pages) \in Page \cup {NoPage}
  BY NewestInRange, Zenon DEF IInv, TypeOK
<1>2. TypeOK' /\ CallInv'
  BY <1>1 DEF IInv, TypeOK, CallInv, Saving, PlanWipe, Stages, Page
<1> QED
  BY <1>2
  DEF IInv, CallInv, GenInv, SaveInv, WipeInv, DoneInv, Saving, PlanWipe, Page

LEMMA WipeStepInv == IInv /\ erase_page_if_written => IInv'
<1> SUFFICES ASSUME IInv, erase_page_if_written PROVE IInv'
  BY Zenon
<1>1. /\ Blank \in Pages /\ ~read_valid_header(Blank)
      /\ Blank.cells = NoBlob /\ Blank.hdr = -1
  BY Zenon DEF Blank, Pages, read_valid_header, Gen, Erased
<1>2. /\ pc = "wipe" /\ at \in Page /\ call \in {"scrub", "erase"}
      /\ pages \in [Page -> Pages]
  BY Zenon DEF IInv, TypeOK, CallInv, WipeInv, erase_page_if_written
<1>3. /\ pages' \in [Page -> Pages]
      /\ \A i \in Page : pages'[i] \in {pages[i], Blank}
      /\ \A i \in Page : i # at => pages'[i] = pages[i]
      /\ at # keep => pages'[at] = Blank
  BY <1>1, <1>2, Zenon DEF erase_page_if_written
<1>4. call = "scrub" => newest_valid(pages') = newest_valid(pages)
  BY <1>1, <1>2, SpoiledPage, Zenon DEF IInv, WipeInv, erase_page_if_written
<1>5. TypeOK' /\ CallInv'
  BY <1>2, <1>3
  DEF IInv, TypeOK, CallInv, Saving, erase_page_if_written, Stages, Page
<1>6. GenInv'
  <2>1. \A i \in Page : pages'[i].hdr < saves
    BY <1>1, <1>2, <1>3 DEF IInv, TypeOK, GenInv
  <2> QED
    BY <1>2, <2>1, Zenon DEF GenInv, erase_page_if_written, Saving
<1>7. SaveInv'
  BY Zenon DEF SaveInv, Saving, erase_page_if_written
<1>8. \A i \in Page : i < at' /\ i # keep => pages'[i] = Blank
  BY <1>2, <1>3 DEF IInv, WipeInv, erase_page_if_written, Page
<1>9. WipeInv' /\ DoneInv'
  BY <1>2, <1>4, <1>8
  DEF IInv, WipeInv, DoneInv, erase_page_if_written, Page, NoPage
<1> QED
  BY <1>5, <1>6, <1>7, <1>9, Zenon DEF IInv

\* What an interrupted flash operation can have done.
OnePageSpoiled ==
    \E i \in Page, q \in Pages :
        /\ pages' = [pages EXCEPT ![i] = q]
        /\ ~read_valid_header(q) \/ q = pages[i]
        /\ q.hdr \in {pages[i].hdr, Erased, Torn}
        /\ \/ /\ Saving /\ i = target
              /\ q.cells \in {pages[i].cells, NoBlob, arg}
           \/ /\ pc = "wipe" /\ i = at /\ i # keep
              /\ q.cells \in {pages[i].cells, NoBlob}

LEMMA InterruptedPage ==
  ASSUME RaisedBits = FALSE, IInv, Interrupted
  PROVE  OnePageSpoiled
<1>1. /\ pages \in [Page -> Pages]
      /\ target \in Page /\ pages[target] \in Pages
      /\ Saving => arg \in Blob
      /\ pc = "wipe" => at \in Page /\ pages[at] \in Pages
  BY Zenon DEF IInv, TypeOK, CallInv, WipeInv
<1>2. ASSUME pc = "erase", NEW q \in PartlyErased(pages[target]),
             pages' = [pages EXCEPT ![target] = q]
      PROVE  OnePageSpoiled
  BY <1>1, <1>2, ErasedInPart, Zenon DEF OnePageSpoiled, Saving
<1>3. ASSUME pc = "header", NEW q \in PartlyHeaded(pages[target]),
             pages' = [pages EXCEPT ![target] = q]
      PROVE  OnePageSpoiled
  BY <1>1, <1>3, HeadedInPart, Zenon DEF OnePageSpoiled, Saving
<1>4. ASSUME pc = "payload", NEW q \in PartlyFilled(pages[target], arg),
             pages' = [pages EXCEPT ![target] = q]
      PROVE  OnePageSpoiled
  <2>1. arg \in Blob /\ Saving /\ ~pages[target].whole
    BY <1>1, <1>4, Zenon DEF IInv, SaveInv, Saving
  <2>2. /\ q \in Pages /\ ~read_valid_header(q)
        /\ q.cells \in {pages[target].cells, arg}
        /\ q.hdr = pages[target].hdr
    BY <1>1, <1>4, <2>1, FilledInPart
  <2> QED
    BY <1>1, <1>4, <2>1, <2>2, Zenon DEF OnePageSpoiled
<1>5. ASSUME pc = "wipe", at # keep, NEW q \in PartlyErased(pages[at]),
             pages' = [pages EXCEPT ![at] = q]
      PROVE  OnePageSpoiled
  BY <1>1, <1>5, ErasedInPart, Zenon DEF OnePageSpoiled
<1> QED
  BY <1>2, <1>3, <1>4, <1>5, Zenon DEF Interrupted

LEMMA InterruptedInv ==
  ASSUME RaisedBits = FALSE, IInv, Interrupted
  PROVE  IInv'
<1>1. PICK i \in Page, q \in Pages :
             /\ pages' = [pages EXCEPT ![i] = q]
             /\ q.hdr \in {pages[i].hdr, Erased, Torn}
  BY InterruptedPage, Zenon DEF OnePageSpoiled
<1>2. /\ pages' \in [Page -> Pages]
      /\ \A k \in Page : pages'[k].hdr \in {pages[k].hdr, Erased, Torn}
  BY <1>1, Zenon DEF IInv, TypeOK
<1>3. pc # "plan" /\ pc # "idle" /\ pc' = "broken"
  BY Zenon DEF Interrupted
<1>4. TypeOK' /\ CallInv'
  BY <1>2, <1>3, Zenon
     DEF IInv, TypeOK, CallInv, Saving, Interrupted, work, Stages
<1>5. GenInv'
  <2>1. \A k \in Page : pages'[k].hdr < saves
    BY <1>2, <1>3 DEF IInv, TypeOK, GenInv, Erased, Torn
  <2> QED
    BY <1>3, <2>1, Zenon DEF GenInv, Saving, Interrupted
<1> QED
  BY <1>3, <1>4, <1>5, Zenon DEF IInv, SaveInv, WipeInv, DoneInv, Saving

LEMMA EndInv ==
  ASSUME IInv, NEW how \in {"ok", "err", "cut"}, pc # "idle", End(how)
  PROVE  IInv'
<1>1. TypeOK' /\ CallInv'
  BY Zenon DEF IInv, TypeOK, CallInv, Saving, End, work, Stages
<1>2. GenInv'
  BY DEF IInv, TypeOK, GenInv, End, Saving, work, Pages, Gen, Erased, Torn
<1> QED
  BY <1>1, <1>2, Zenon DEF IInv, SaveInv, WipeInv, DoneInv, Saving, End

LEMMA NextInv ==
  ASSUME RaisedBits = FALSE, IInv, [Next]_vars
  PROVE  IInv'
<1>1. ASSUME NEW b \in Blob, save(b) PROVE IInv'
  BY <1>1, InvokeInv, StoreConstants DEF save, IInv, TypeOK
<1>2. CASE scrub
  BY <1>2, InvokeInv DEF scrub, IInv, TypeOK
<1>3. CASE erase
  BY <1>3, InvokeInv DEF erase, IInv, TypeOK
<1>4. CASE ReturnOk \/ ReturnErr \/ Cut
  BY <1>4, EndInv, Zenon DEF ReturnOk, ReturnErr, Cut
<1>5. CASE UNCHANGED vars
  BY <1>5
  DEF IInv, TypeOK, CallInv, GenInv, SaveInv, WipeInv, DoneInv, Saving, Other,
      vars, work
<1> QED
  BY <1>1, <1>2, <1>3, <1>4, <1>5, PlanSaveInv, SaveEraseInv, SaveHeaderInv,
     SavePayloadInv, PlanWipeInv, WipeStepInv, InterruptedInv, Zenon DEF Next

----------------------------------------------------------------------------
(* The refinement: every step of the flash store is a step of the register *)
(* it implements, or leaves the register unchanged.                        *)

LEMMA InitRefines == Init => Register!Init
<1> SUFFICES ASSUME Init PROVE Register!Init
  BY Zenon
<1>1. newest_valid(pages) = NoPage
  BY DEF Init, newest_valid, read_valid_header, Blank, Page, Gen, Erased
<1>2. load(pages) = NoBlob /\ Leftovers(pages) = {}
  BY <1>1, Zenon DEF Init, load, Leftovers, Blank
<1> QED
  BY <1>2, Zenon DEF Init, Register!Init

LEMMA InvokeRefines ==
  ASSUME IInv, NEW what \in {"save", "scrub", "erase"}, NEW b, Invoke(what, b)
  PROVE  Register!Invoke(what, b)
  BY Zenon DEF IInv, CallInv, Invoke, Register!Invoke

LEMMA PlanRefines ==
  ASSUME IInv, PlanSave \/ PlanWipe
  PROVE  UNCHANGED Register!vars
  BY Zenon DEF PlanSave, PlanWipe, Register!vars

LEMMA SaveEraseRefines ==
  ASSUME IInv, SaveErase
  PROVE  Register!Prepare
<1>1. Saving /\ Blank \in Pages /\ ~read_valid_header(Blank)
      /\ Blank.cells = NoBlob /\ call = "save" /\ pc = "erase"
  BY Zenon
     DEF IInv, CallInv, SaveErase, Saving, Blank, Pages, read_valid_header,
         Gen, Erased
<1>2. /\ load(pages') = load(pages)
      /\ Leftovers(pages') \subseteq Leftovers(pages) \cup {NoBlob}
  BY <1>1, OtherStaysNewest, Zenon DEF SaveErase
<1>3. NoBlob \notin Leftovers(pages')
  BY Zenon DEF Leftovers
<1> QED
  BY <1>1, <1>2, <1>3, Zenon DEF SaveErase, work, Register!Prepare

\* A write to the target page that completes it, and one that does not.
LEMMA WriteRefines ==
  ASSUME IInv, Saving, NEW p \in Pages, p.hdr = gen,
         pages' = [pages EXCEPT ![target] = p],
         p.whole => p.cells = arg,
         p.cells \in {NoBlob, arg},
         pc' = IF p.whole THEN "done" ELSE "payload",
         UNCHANGED <<call, arg, result>>
  PROVE  Register!Prepare \/ Register!Land
<1>1. call = "save" /\ pc # "done"
  BY Zenon DEF IInv, CallInv, Saving
<1>2. CASE p.whole
  <2>1. /\ load(pages') = arg
        /\ Leftovers(pages') \subseteq
               (Leftovers(pages) \cup {load(pages)}) \ {NoBlob}
    BY <1>2, CompletedPageIsNewest, Zenon
  <2>2. pc' = "done"
    BY <1>2, Zenon
  <2> QED
    BY <1>1, <2>1, <2>2, Zenon DEF Register!Land
<1>3. CASE ~p.whole
  <2>1. ~read_valid_header(p)
    BY <1>3, Zenon DEF read_valid_header
  <2>2. /\ load(pages') = load(pages)
        /\ Leftovers(pages') \subseteq Leftovers(pages) \cup {p.cells}
    BY <2>1, OtherStaysNewest, Zenon
  <2>3. NoBlob \notin Leftovers(pages')
    BY Zenon DEF Leftovers
  <2>4. pc' = "payload"
    BY <1>3, Zenon
  <2> QED
    BY <1>1, <2>2, <2>3, <2>4, Zenon DEF Register!Prepare
<1> QED
  BY <1>2, <1>3, Zenon

LEMMA SaveHeaderRefines ==
  ASSUME IInv, SaveHeader
  PROVE  Register!Prepare \/ Register!Land
<1> DEFINE last == Writes[arg] = 0
           p == [hdr |-> gen, whole |-> last,
                 cells |-> IF last THEN arg ELSE NoBlob]
<1>1. /\ Saving /\ p \in Pages /\ p.hdr = gen /\ p.whole = last
      /\ p.cells \in {NoBlob, arg} /\ (last => p.cells = arg)
      /\ pages' = [pages EXCEPT ![target] = p]
      /\ pc' = IF last THEN "done" ELSE "payload"
      /\ UNCHANGED <<call, arg, result>>
  BY Zenon DEF IInv, TypeOK, CallInv, SaveHeader, Saving, Pages
<1>2. (p.whole => p.cells = arg) /\ pc' = IF p.whole THEN "done" ELSE "payload"
  BY <1>1, Zenon
<1> HIDE DEF p, last
<1> QED
  BY <1>1, <1>2, WriteRefines, Zenon

LEMMA SavePayloadRefines ==
  ASSUME IInv, SavePayload
  PROVE  Register!Prepare \/ Register!Land
<1> DEFINE p == [hdr |-> gen, cells |-> arg, whole |-> (left = 1)]
<1>1. /\ Saving /\ p \in Pages /\ p.hdr = gen /\ p.whole = (left = 1)
      /\ p.cells = arg
      /\ pages' = [pages EXCEPT ![target] = p]
      /\ pc' = IF left = 1 THEN "done" ELSE "payload"
      /\ UNCHANGED <<call, arg, result>>
  BY Zenon DEF IInv, TypeOK, CallInv, SavePayload, Saving, Pages
<1>2. pc' = IF p.whole THEN "done" ELSE "payload"
  BY <1>1, Zenon
<1> HIDE DEF p
<1> QED
  BY <1>1, <1>2, WriteRefines, Zenon

\* Blanking or spoiling a page while scrub or erase runs.
LEMMA WipeRefines ==
  ASSUME IInv, pc = "wipe", NEW q \in Pages, at # keep,
         ~read_valid_header(q) \/ q = pages[at],
         q.cells \in {pages[at].cells, NoBlob},
         pages' = [pages EXCEPT ![at] = q],
         UNCHANGED <<call, arg, result>>
  PROVE  Register!Scrub \/ Register!Erase
<1>1. /\ pages \in [Page -> Pages] /\ at \in Page
      /\ call \in {"scrub", "erase"}
      /\ call = "scrub" => at # newest_valid(pages)
  BY Zenon DEF IInv, TypeOK, CallInv, WipeInv
<1>2. CASE call = "scrub"
  <2>1. load(pages') = load(pages)
            /\ Leftovers(pages') \subseteq Leftovers(pages)
    BY <1>1, <1>2, SpoiledPage, Zenon
  <2> QED
    BY <1>2, <2>1, Zenon DEF Register!Scrub
<1>3. CASE call = "erase"
  <2>1. /\ load(pages') \in {load(pages), NoBlob} \cup Leftovers(pages)
        /\ Leftovers(pages') \subseteq
               (Leftovers(pages) \cup {load(pages)}) \ {NoBlob}
    BY <1>1, SpoiledPage, Zenon
  <2> QED
    BY <1>3, <2>1, Zenon DEF Register!Erase
<1> QED
  BY <1>1, <1>2, <1>3, Zenon

LEMMA WipeStepRefines ==
  ASSUME IInv, erase_page_if_written
  PROVE  Register!Scrub \/ Register!Erase \/ UNCHANGED Register!vars
<1>1. /\ Blank \in Pages /\ ~read_valid_header(Blank)
      /\ Blank.cells = NoBlob
  BY Zenon DEF Blank, Pages, read_valid_header, Gen, Erased
<1>2. CASE at = keep
  <2>1. /\ pages' = pages /\ UNCHANGED <<call, arg, result>>
        /\ call # "save"
    BY <1>2, Zenon DEF IInv, CallInv, erase_page_if_written
  <2> QED
    BY <2>1, Zenon DEF Register!vars
<1>3. CASE at # keep
  BY <1>1, <1>3, WipeRefines, Zenon DEF erase_page_if_written
<1> QED
  BY <1>2, <1>3, Zenon

LEMMA InterruptedRefines ==
  ASSUME RaisedBits = FALSE, IInv, Interrupted
  PROVE  Register!Prepare \/ Register!Scrub \/ Register!Erase
<1>1. UNCHANGED <<call, arg, result>> /\ pc' = "broken"
  BY Zenon DEF Interrupted, work
<1>2. PICK i \in Page, q \in Pages :
        /\ pages' = [pages EXCEPT ![i] = q]
        /\ ~read_valid_header(q) \/ q = pages[i]
        /\ \/ /\ Saving /\ i = target
              /\ q.cells \in {pages[i].cells, NoBlob, arg}
           \/ /\ pc = "wipe" /\ i = at /\ i # keep
              /\ q.cells \in {pages[i].cells, NoBlob}
  BY InterruptedPage, Zenon DEF OnePageSpoiled
<1>3. CASE Saving /\ i = target /\ q.cells \in {pages[i].cells, NoBlob, arg}
  <2>1. call = "save" /\ pc # "done" /\ target \in Page
    BY <1>3, Zenon DEF IInv, TypeOK, CallInv, Saving
  <2>2. /\ load(pages') = load(pages)
        /\ Leftovers(pages') \subseteq Leftovers(pages) \cup {q.cells}
    BY <1>2, <1>3, OtherStaysNewest, Zenon
  <2>3. pages[target].cells \in Leftovers(pages) \cup {NoBlob}
    BY <1>3, <2>1 DEF IInv, SaveInv, Leftovers, Other, Page, NoPage
  <2>4. NoBlob \notin Leftovers(pages')
    BY Zenon DEF Leftovers
  <2> QED
    BY <1>1, <1>3, <2>1, <2>2, <2>3, <2>4, Zenon DEF Register!Prepare
<1>4. CASE /\ pc = "wipe" /\ i = at /\ i # keep
           /\ q.cells \in {pages[i].cells, NoBlob}
  BY <1>1, <1>2, <1>4, WipeRefines, Zenon
<1> QED
  BY <1>2, <1>3, <1>4, Zenon

LEMMA EndRefines ==
  ASSUME IInv, ReturnOk \/ ReturnErr \/ Cut
  PROVE  Register!ReturnOk \/ Register!ReturnErr \/ Register!Cut
<1>1. UNCHANGED <<pages, arg>> /\ call # "idle" /\ call' = "idle"
  BY Zenon DEF IInv, CallInv, ReturnOk, ReturnErr, Cut, End, work
<1>2. CASE ReturnOk
  <2>1. call \in {"save", "scrub", "erase"} /\ pc = "done"
    BY <1>1, <1>2, Zenon DEF IInv, TypeOK, ReturnOk
  <2>2. call = "scrub" => Leftovers(pages) = {}
    BY <2>1 DEF IInv, DoneInv, Leftovers, Blank
  <2>3. ASSUME call = "erase"
        PROVE  load(pages) = NoBlob /\ Leftovers(pages) = {}
    <3>0. ~read_valid_header(Blank)
      BY Zenon DEF read_valid_header, Blank, Gen, Erased
    <3>1. \A i \in Page : pages[i] = Blank /\ ~read_valid_header(pages[i])
      BY <2>1, <2>3, <3>0, Zenon DEF IInv, DoneInv
    <3>2. newest_valid(pages) = NoPage
      BY <3>1 DEF newest_valid, Page
    <3> QED
      BY <3>1, <3>2 DEF load, Leftovers, Blank
  <2> QED
    BY <1>1, <1>2, <2>1, <2>2, <2>3, Zenon
    DEF IInv, DoneInv, ReturnOk, End, Register!ReturnOk
<1>3. CASE ReturnErr
  BY <1>1, <1>3, Zenon DEF ReturnErr, End, Register!ReturnErr
<1>4. CASE Cut
  BY <1>1, <1>4, Zenon DEF Cut, End, Register!Cut
<1> QED
  BY <1>2, <1>3, <1>4, Zenon

LEMMA NextRefines ==
  ASSUME RaisedBits = FALSE, IInv, [Next]_vars
  PROVE  [Register!Next]_(Register!vars)
<1>1. ASSUME NEW b \in Blob, save(b) PROVE Register!Next
  BY <1>1, InvokeRefines, Zenon DEF save, Register!Next
<1>2. CASE scrub
  BY <1>2, InvokeRefines, Zenon DEF scrub, Register!Next
<1>3. CASE erase
  BY <1>3, InvokeRefines, Zenon DEF erase, Register!Next
<1>4. CASE PlanSave \/ PlanWipe
  BY <1>4, PlanRefines, Zenon
<1>5. CASE SaveErase \/ SaveHeader \/ SavePayload
  BY <1>5, SaveEraseRefines, SaveHeaderRefines, SavePayloadRefines, Zenon
  DEF Register!Next
<1>6. CASE erase_page_if_written \/ Interrupted
  BY <1>6, WipeStepRefines, InterruptedRefines, Zenon DEF Register!Next
<1>7. CASE ReturnOk \/ ReturnErr \/ Cut
  BY <1>7, EndRefines, Zenon DEF Register!Next
<1>8. CASE UNCHANGED vars
  BY <1>8, Zenon DEF vars, work, Register!vars
<1> QED
  BY <1>1, <1>2, <1>3, <1>4, <1>5, <1>6, <1>7, <1>8, Zenon DEF Next

\* The type invariant of the flash store, over every sequence of saves,
\* scrubs and erases with an error or a power cut at any flash operation.
THEOREM TypeCorrect ==
  ASSUME RaisedBits = FALSE
  PROVE  Spec => []TypeOK
<1>1. IInv /\ [Next]_vars => IInv'
  BY NextInv, Zenon
<1>2. IInv => TypeOK
  BY Zenon DEF IInv
<1> QED
  BY <1>1, <1>2, InitInv, PTL DEF Spec

\* The flash store keeps the DurableStore contract: whatever is saved and
\* however flash operations fail or are cut short, a load answers the
\* previous blob or the new one in full, and what save, scrub and erase
\* return is true of the medium.
THEOREM FlashImplements ==
  ASSUME RaisedBits = FALSE
  PROVE  Spec => Implements
<1>1. IInv /\ [Next]_vars => IInv'
  BY NextInv, Zenon
<1>2. IInv /\ [Next]_vars => [Register!Next]_(Register!vars)
  BY NextRefines, Zenon
<1> QED
  BY <1>1, <1>2, InitInv, InitRefines, PTL
  DEF Spec, Implements, Register!Spec
-----------------------------------------------------------------------------
(* The file store.                                                         *)

\* A call and where it is; what the .tmp holds before it is renamed; and
\* that the file is always whole and flushed, so a power loss spares it.
FileInv ==
    /\ step = "idle" <=> op = "idle"
    /\ step \in {"create", "write", "sync", "rename", "cleanup", "failed"}
         => op = "save"
    /\ step = "remove_file" => op = "erase"
    /\ step = "remove_tmp" => op \in {"scrub", "erase"}
    /\ step = "done" => op \in {"save", "scrub", "erase"}
    /\ file = [held |-> file.held, whole |-> TRUE, flushed |-> TRUE]
    /\ tmp = [held |-> tmp.held, whole |-> tmp.whole, flushed |-> tmp.flushed]
    /\ step = "sync" => tmp = File!Written(data)
    /\ step = "rename" =>
         tmp = [held |-> data, whole |-> TRUE, flushed |-> TRUE]
    /\ step = "remove_tmp" /\ op = "erase" => file = File!Absent
    /\ step = "done" =>
         /\ tmp = File!Absent
         /\ op = "save" => file.held = data
         /\ op = "erase" => file = File!Absent

LEMMA FileInitInv == File!Init => FileInv
BY DEF File!Init, FileInv, File!Absent

LEMMA FileInitRefines == File!Init => File!Register!Init
BY DEF File!Init, File!Register!Init, File!Absent, File!load
\* Every system call keeps the invariant.
LEMMA FileNextInv == FileInv /\ [File!Next]_(File!vars) => FileInv'
<1> SUFFICES ASSUME FileInv, [File!Next]_(File!vars) PROVE FileInv'
  BY Zenon
<1> USE DEF FileInv
<1>1. ASSUME NEW b \in Blob, File!save(b) PROVE FileInv'
  BY <1>1, Zenon DEF File!save, File!Invoke
<1>2. CASE File!scrub \/ File!erase
  BY <1>2, Zenon DEF File!scrub, File!erase, File!Invoke
<1>3. CASE File!Create
  BY <1>3, Zenon DEF File!Create, File!Absent
<1>4. CASE File!WriteAll
  BY <1>4, Zenon DEF File!WriteAll, File!Written
<1>5. CASE File!SyncAll
  <2>4. tmp = [held |-> data, whole |-> TRUE, flushed |-> FALSE]
    BY <1>5, Zenon DEF File!SyncAll, File!Written
  <2>1. tmp' = [held |-> data, whole |-> TRUE, flushed |-> TRUE]
    <3>1. tmp' = [tmp EXCEPT !.flushed = TRUE]
      BY <1>5, Zenon DEF File!SyncAll
    <3> HIDE DEF FileInv
    <3> QED
      BY <2>4, <3>1, Zenon
  <2>2. tmp' = [held |-> tmp'.held, whole |-> tmp'.whole,
                flushed |-> tmp'.flushed]
    BY <2>1, Zenon
  <2>3. /\ step' = "rename" /\ op' = "save"
        /\ file' = [held |-> file'.held, whole |-> TRUE, flushed |-> TRUE]
        /\ UNCHANGED data
    BY <1>5, Zenon DEF File!SyncAll
  <2> QED
    BY <2>1, <2>2, <2>3, Zenon
<1>6. CASE File!Rename
  BY <1>6 DEF File!Rename, File!Absent
<1>7. CASE File!SaveFails
  BY <1>7, Zenon DEF File!SaveFails, File!Written
<1>8. CASE File!Cleanup
  BY <1>8, Zenon DEF File!Cleanup, File!Absent
<1>9. CASE File!RemoveFile
  BY <1>9, Zenon DEF File!RemoveFile, File!Absent
<1>10. CASE File!RemoveTmp
  BY <1>10, Zenon DEF File!RemoveTmp, File!Absent
<1>11. CASE File!ReturnOk \/ File!ReturnErr
  BY <1>11, Zenon DEF File!ReturnOk, File!ReturnErr, File!End
<1>12. CASE File!Cut
  <2>1. file' = file
    BY <1>12 DEF File!Cut, File!AfterCut
  <2>2. tmp' = [held |-> tmp'.held, whole |-> tmp'.whole,
                flushed |-> tmp'.flushed]
    BY <1>12, Zenon DEF File!Cut, File!AfterCut
  <2> QED
    BY <1>12, <2>1, <2>2, Zenon DEF File!Cut, File!End
<1>13. CASE UNCHANGED File!vars
  BY <1>13, Zenon DEF File!vars
<1> QED
  BY <1>1, <1>2, <1>3, <1>4, <1>5, <1>6, <1>7, <1>8, <1>9, <1>10, <1>11,
     <1>12, <1>13, Zenon DEF File!Next

\* And maps to a step of the register or to none.
LEMMA FileNextRefines ==
  ASSUME FileInv, [File!Next]_(File!vars)
  PROVE  [File!Register!Next]_(File!Register!vars)
<1>1. ASSUME NEW b \in Blob, File!save(b) PROVE File!Register!Next
  BY <1>1, Zenon DEF FileInv, File!save, File!Invoke, File!Register!Next,
              File!Register!Invoke
<1>2. CASE File!scrub \/ File!erase
  BY <1>2, Zenon DEF FileInv, File!scrub, File!erase, File!Invoke,
              File!Register!Next, File!Register!Invoke
<1>3. CASE File!Create \/ File!WriteAll \/ File!SyncAll \/ File!SaveFails
           \/ File!Cleanup
  <2>1. /\ op = "save" /\ step # "done" /\ step' # "done"
        /\ UNCHANGED <<file, op, data, ended>>
    BY <1>3, Zenon DEF FileInv, File!Create, File!WriteAll, File!SyncAll,
                File!SaveFails, File!Cleanup
  <2>2. tmp'.held \in {tmp.held, data, NoBlob}
    BY <1>3 DEF FileInv, File!Create, File!WriteAll, File!SyncAll,
                File!SaveFails, File!Cleanup, File!Absent, File!Written
  <2> QED
    BY <2>1, <2>2, Zenon DEF File!Register!Next, File!Register!Prepare
<1>4. CASE File!Rename
  <2>1. File!load(file') = data /\ tmp'.held = NoBlob
    BY <1>4 DEF FileInv, File!Rename, File!load, File!Absent
  <2> QED
    BY <1>4, <2>1, Zenon DEF FileInv, File!Rename, File!Register!Next,
                      File!Register!Land
<1>5. CASE File!RemoveFile
  <2>1. File!load(file') = NoBlob
    BY <1>5, Zenon DEF File!RemoveFile, File!load, File!Absent
  <2> QED
    BY <1>5, <2>1, Zenon DEF FileInv, File!RemoveFile, File!Register!Next,
                      File!Register!Erase
<1>6. CASE File!RemoveTmp
  <2>1. tmp'.held = NoBlob
    BY <1>6, Zenon DEF File!RemoveTmp, File!Absent
  <2> QED
    BY <1>6, <2>1, Zenon DEF FileInv, File!RemoveTmp, File!Register!Next,
                      File!Register!Scrub, File!Register!Erase
<1>7. CASE File!ReturnOk
  <2>1. /\ tmp.held = NoBlob
        /\ op = "save" => File!load(file) = data
        /\ op = "erase" => File!load(file) = NoBlob
    BY <1>7 DEF FileInv, File!ReturnOk, File!load, File!Absent
  <2> QED
    BY <1>7, <2>1, Zenon
       DEF FileInv, File!ReturnOk, File!End, File!Register!Next,
                      File!Register!ReturnOk
<1>8. CASE File!ReturnErr
  BY <1>8, Zenon DEF FileInv, File!ReturnErr, File!End, File!Register!Next,
              File!Register!ReturnErr
<1>9. CASE File!Cut
  <2>1. file' = file /\ tmp'.held = tmp.held
    BY <1>9 DEF FileInv, File!Cut, File!AfterCut
  <2> QED
    BY <1>9, <2>1, Zenon DEF FileInv, File!Cut, File!End, File!Register!Next,
                      File!Register!Cut
<1>10. CASE UNCHANGED File!vars
  BY <1>10, Zenon DEF File!vars, File!Register!vars
<1> QED
  BY <1>1, <1>2, <1>3, <1>4, <1>5, <1>6, <1>7, <1>8, <1>9, <1>10, Zenon
  DEF File!Next

\* The file store keeps the same contract: a kill, a power loss or a failed
\* system call at any point of save_via_tmp leaves the previous blob or the
\* new one, an Err has not replaced it, and a scrub or an erase that returns
\* Ok has left no .tmp behind.
THEOREM FileStoreImplements == File!Spec => FileImplements
<1>1. FileInv /\ [File!Next]_(File!vars) =>
          [File!Register!Next]_(File!Register!vars)
  BY FileNextRefines, Zenon
<1> QED
  BY <1>1, FileInitInv, FileInitRefines, FileNextInv, PTL
  DEF File!Spec, File!Register!Spec, FileImplements

-----------------------------------------------------------------------------
(* The alarm board.                                                        *)

\* The rows are of conditions, no more than fit, each at the worst severity
\* its condition was raised with.
RowsInv ==
    /\ alarms = [c \in Shown |-> alarms[c]]
    /\ Shown \subseteq Condition
    /\ IsFiniteSet(Shown) /\ Cardinality(Shown) <= ALARM_CAPACITY
    /\ worst \in [Condition -> Nat]
    /\ \A c \in Shown : worst[c] = alarms[c].severity

\* A condition that was raised and is not shown was crowded out by worse.
CrowdedOut ==
    \A c \in Condition \ Shown :
        worst[c] > 0 => Full /\ \A o \in Shown : worst[o] >= worst[c]

\* Conditions that are raised and not shown were counted as dropped.
CountInv ==
    /\ dropped \in Nat
    /\ IsFiniteSet(open) /\ Cardinality(open \ Shown) <= dropped

\* The inductive invariant.
AlarmInv == RowsInv /\ CrowdedOut /\ CountInv

\* The invariant contains the property.
LEMMA AlarmWorst == AlarmInv => WorstShown
  BY DEF AlarmInv, RowsInv, CrowdedOut, CountInv, WorstShown

\* An empty board satisfies the invariant.
LEMMA AlarmInitInv == AlarmInit => AlarmInv
<1> SUFFICES ASSUME AlarmInit PROVE AlarmInv
  OBVIOUS
<1>1. Shown = {}
  BY DEF AlarmInit, Shown
<1>2. open \ Shown = {}
  BY DEF AlarmInit
<1>3. alarms = [c \in Shown |-> alarms[c]]
  BY <1>1 DEF AlarmInit
<1>4. worst \in [Condition -> Nat] /\ \A c \in Condition : worst[c] = 0
  BY DEF AlarmInit
<1>5. RowsInv
  BY <1>1, <1>3, <1>4, FS_EmptySet, AlarmAssumption DEF RowsInv
<1>6. CrowdedOut
  BY <1>4 DEF CrowdedOut
<1>7. CountInv
  BY <1>2, FS_EmptySet DEF CountInv, AlarmInit
<1> QED BY <1>5, <1>6, <1>7, Zenon DEF AlarmInv

\* How many conditions are out of sight: one more at the most.
LEMMA OutOfSight ==
    ASSUME NEW S, IsFiniteSet(S), NEW T, NEW x, T \subseteq S \cup {x}
    PROVE  IsFiniteSet(T) /\ Cardinality(T) <= Cardinality(S) + 1
<1>1. IsFiniteSet(S \cup {x}) /\ Cardinality(S \cup {x}) <= Cardinality(S) + 1
  <2>1. Cardinality(S) \in Nat
    BY FS_CardinalityType
  <2>2. /\ IsFiniteSet(S \cup {x})
        /\ Cardinality(S \cup {x}) = IF x \in S THEN Cardinality(S)
             ELSE Cardinality(S) + 1
    BY FS_AddElement, Zenon
  <2> QED BY <2>1, <2>2
<1>2. IsFiniteSet(T) /\ Cardinality(T) <= Cardinality(S \cup {x})
  BY <1>1, FS_Subset, Zenon
<1> QED BY <1>1, <1>2, FS_CardinalityType

\* Only finitely many conditions are raised.
LEMMA OpenCount ==
    ASSUME CountInv, NEW c
    PROVE  /\ IsFiniteSet(open \cup {c}) /\ IsFiniteSet(open \ {c})
           /\ IsFiniteSet(open \ Shown) /\ Cardinality(open \ Shown) \in Nat
<1>1. IsFiniteSet(open)
  BY Zenon DEF CountInv
<1>2. IsFiniteSet(open \cup {c}) /\ IsFiniteSet(open \ {c})
  BY <1>1, FS_AddElement, FS_RemoveElement, Zenon
<1>3. IsFiniteSet(open \ Shown)
  BY <1>1, FS_Subset
<1> QED BY <1>2, <1>3, FS_CardinalityType, Zenon

\* What `raise` does to the ghost.
Raised(c, severity) ==
    worst' = [worst EXCEPT ![c] = IF severity > worst[c] THEN severity
        ELSE worst[c]]

\* A condition already on the board: its row keeps the worse severity.
LEMMA CoalescedInv ==
    ASSUME AlarmInv, NEW c \in Condition, NEW severity \in Severity, NEW stamp,
           Coalesced(c, severity, stamp), Raised(c, severity),
           open' = open \cup {c}
    PROVE  AlarmInv'
<1>1. c \in Shown /\ dropped' = dropped
  BY Zenon DEF Coalesced
<1>2. alarms' = [alarms EXCEPT ![c] =
                    [severity |-> IF severity > alarms[c].severity
                        THEN severity
                                  ELSE alarms[c].severity,
                     last_ms |-> stamp]]
  BY Zenon DEF Coalesced
<1>3. Shown' = Shown
  BY <1>2 DEF Shown, AlarmInv, RowsInv
<1>4. worst \in [Condition -> Nat] /\ severity \in Nat
          /\ worst[c] = alarms[c].severity
  BY <1>1, AlarmAssumption DEF AlarmInv, RowsInv
<1>5. RowsInv'
  <2>1. alarms' = [o \in Shown |-> alarms'[o]]
    <3>1. \A v : [alarms EXCEPT ![c] = v] =
                   [o \in Shown |-> IF o = c THEN v ELSE alarms[o]]
      BY DEF Shown
    <3> QED BY <1>2, <3>1, Zenon
  <2>2. worst' \in [Condition -> Nat]
    BY <1>4 DEF Raised
  <2>3. ASSUME NEW o \in Shown PROVE worst'[o] = alarms'[o].severity
    <3>1. CASE o = c
      BY <1>1, <1>2, <1>4, <3>1 DEF Raised, Shown
    <3>2. CASE o # c
      BY <1>1, <1>2, <1>4, <3>2 DEF Raised, Shown, AlarmInv, RowsInv
    <3> QED BY <3>1, <3>2
  <2> QED BY <1>3, <2>1, <2>2, <2>3, Zenon DEF AlarmInv, RowsInv
<1>6. CrowdedOut'
  <2>1. Full' = Full
    BY <1>3, Zenon DEF Full
  <2>2. ASSUME NEW d \in Condition \ Shown
        PROVE  worst'[d] = worst[d]
    BY <1>1, <1>4, <2>2 DEF Raised
  <2>3. ASSUME NEW o \in Shown
        PROVE  worst'[o] >= worst[o] /\ worst[o] \in Nat /\ worst'[o] \in Nat
    BY <1>4 DEF Raised, AlarmInv, RowsInv
  <2>4. ASSUME NEW d \in Condition \ Shown, worst[d] > 0
        PROVE  Full /\ \A o \in Shown : worst'[o] >= worst[d]
    BY <1>4, <2>3, <2>4 DEF AlarmInv, CrowdedOut
  <2> QED BY <1>3, <2>1, <2>2, <2>4, Zenon DEF CrowdedOut
<1>7. CountInv'
  <2>1. open' \ Shown' = open \ Shown
    BY <1>1, <1>3, Zenon
  <2> QED BY <1>1, <2>1, OpenCount, Zenon DEF AlarmInv, CountInv
<1> QED BY <1>5, <1>6, <1>7, Zenon DEF AlarmInv

\* A row for c in the place of what `kept` leaves out, where no row that
\* stays is milder than what was left out.
LEMMA PlacedInv ==
    ASSUME AlarmInv, NEW c \in Condition, NEW severity \in Severity, NEW stamp,
           NEW kept \in SUBSET Shown, c \notin Shown,
           Placed(c, severity, stamp, kept), Raised(c, severity),
           worst[c] <= severity
    PROVE  /\ Shown' = kept \cup {c}
           /\ alarms' = [o \in Shown' |-> alarms'[o]]
           /\ worst' \in [Condition -> Nat]
           /\ worst'[c] = severity /\ severity \in Nat \ {0}
           /\ \A o \in Condition \ {c} : worst'[o] = worst[o]
                /\ worst[o] \in Nat
           /\ \A o \in Shown' : worst'[o] = alarms'[o].severity
<1>1. alarms' = [x \in kept \cup {c} |->
                   IF x = c THEN [severity |-> severity, last_ms |-> stamp]
                   ELSE alarms[x]]
  BY Zenon DEF Placed
<1>2. Shown' = kept \cup {c}
  BY <1>1 DEF Shown
<1>3. alarms' = [o \in Shown' |-> alarms'[o]]
  BY <1>1, <1>2
<1>4. worst \in [Condition -> Nat] /\ severity \in Nat \ {0}
  BY AlarmAssumption DEF AlarmInv, RowsInv
<1>5. worst' \in [Condition -> Nat] /\ worst'[c] = severity
  BY <1>4 DEF Raised
<1>6. \A o \in Condition \ {c} : worst'[o] = worst[o] /\ worst[o] \in Nat
  BY <1>4 DEF Raised
<1>7. ASSUME NEW o \in Shown' PROVE worst'[o] = alarms'[o].severity
  <2>1. CASE o = c
    BY <1>1, <1>5, <2>1
  <2>2. CASE o # c
    <3>1. o \in Shown /\ o \in Condition
      BY <1>2, <2>2 DEF AlarmInv, RowsInv
    <3>2. worst[o] = alarms[o].severity
      BY <3>1, Zenon DEF AlarmInv, RowsInv
    <3> QED BY <1>1, <1>2, <1>6, <2>2, <3>1, <3>2
  <2> QED BY <2>1, <2>2
<1> QED BY <1>2, <1>3, <1>4, <1>5, <1>6, <1>7, Zenon

\* A condition that finds a free row.
LEMMA AddedInv ==
    ASSUME AlarmInv, NEW c \in Condition, NEW severity \in Severity, NEW stamp,
           Added(c, severity, stamp), Raised(c, severity),
               open' = open \cup {c}
    PROVE  AlarmInv'
<1>1. /\ c \notin Shown /\ ~Full /\ Placed(c, severity, stamp, Shown)
      /\ dropped' = dropped
  BY Zenon DEF Added
<1>2. \A d \in Condition \ Shown : worst[d] = 0
  BY <1>1 DEF AlarmInv, CrowdedOut, RowsInv
<1>3. worst[c] <= severity
  BY <1>1, <1>2, AlarmAssumption
<1>4. /\ Shown' = Shown \cup {c}
      /\ alarms' = [o \in Shown' |-> alarms'[o]]
      /\ worst' \in [Condition -> Nat]
      /\ \A o \in Condition \ {c} : worst'[o] = worst[o]
      /\ \A o \in Shown' : worst'[o] = alarms'[o].severity
  BY <1>1, <1>3, PlacedInv
<1>5. RowsInv'
  <2>1. IsFiniteSet(Shown) /\ Cardinality(Shown) <= ALARM_CAPACITY
            /\ Shown \subseteq Condition
    BY Zenon DEF AlarmInv, RowsInv
  <2>2. Cardinality(Shown) \in Nat /\ Cardinality(Shown) # ALARM_CAPACITY
    BY <1>1, <2>1, FS_CardinalityType DEF Full
  <2>3. IsFiniteSet(Shown \cup {c})
            /\ Cardinality(Shown \cup {c}) = Cardinality(Shown) + 1
    BY <1>1, <2>1, FS_AddElement
  <2>4. IsFiniteSet(Shown') /\ Cardinality(Shown') <= ALARM_CAPACITY
    BY <1>4, <2>1, <2>2, <2>3, AlarmAssumption
  <2> QED BY <1>4, <2>1, <2>4, Zenon DEF RowsInv
<1>6. CrowdedOut'
  BY <1>2, <1>4 DEF CrowdedOut
<1>7. CountInv'
  <2>1. open' \ Shown' \subseteq open \ Shown
    BY <1>4, Zenon
  <2>2. open' \ Shown' \subseteq open \ Shown /\ IsFiniteSet(open \ Shown)
    BY <2>1, OpenCount, Zenon DEF AlarmInv
  <2>3. Cardinality(open' \ Shown') <= Cardinality(open \ Shown)
            /\ IsFiniteSet(open' \ Shown')
    BY <2>2, FS_Subset, Zenon
  <2>4. Cardinality(open \ Shown) <= dropped /\ dropped \in Nat
            /\ Cardinality(open \ Shown) \in Nat
    BY <2>2, FS_CardinalityType DEF AlarmInv, CountInv
  <2>5. Cardinality(open' \ Shown') <= dropped
    BY <2>3, <2>4, FS_CardinalityType
  <2> QED BY <1>1, <2>4, <2>5, OpenCount, Zenon DEF AlarmInv, CountInv
<1> QED BY <1>5, <1>6, <1>7, Zenon DEF AlarmInv

\* One more is dropped, and at most one more is out of sight.
LEMMA DroppedInv ==
    ASSUME AlarmInv, NEW c, NEW x, open' = open \cup {c},
               dropped' = dropped + 1,
           open' \ Shown' \subseteq (open \ Shown) \cup {x}
    PROVE  CountInv'
<1>1. /\ IsFiniteSet(open \ Shown) /\ Cardinality(open \ Shown) \in Nat
      /\ IsFiniteSet(open')
  BY OpenCount, Zenon DEF AlarmInv
<1>2. /\ Cardinality(open' \ Shown') <= Cardinality(open \ Shown) + 1
      /\ IsFiniteSet(open' \ Shown')
  <2>1. SUFFICES ASSUME NEW S, NEW T, S = open \ Shown, T = open' \ Shown'
                 PROVE  IsFiniteSet(T) /\ Cardinality(T) <= Cardinality(S) + 1
    BY Zenon
  <2>2. IsFiniteSet(S) /\ T \subseteq S \cup {x}
    BY <1>1, <2>1, Zenon
  <2> QED BY ONLY <2>2, OutOfSight, Zenon
<1>3. Cardinality(open \ Shown) <= dropped /\ dropped \in Nat
  BY Zenon DEF AlarmInv, CountInv
<1>4. Cardinality(open' \ Shown') \in Nat
  BY <1>2, FS_CardinalityType
<1>5. Cardinality(open' \ Shown') <= dropped' /\ dropped' \in Nat
  BY <1>1, <1>2, <1>3, <1>4
<1> QED BY <1>1, <1>5, Zenon DEF CountInv

\* A condition that finds the board full: a milder row gives way, or the
\* newcomer is counted as dropped.
LEMMA EvictInv ==
    ASSUME AlarmInv, NEW c \in Condition, NEW severity \in Severity, NEW stamp,
           evict_for(c, severity, stamp), Raised(c, severity),
           open' = open \cup {c}
    PROVE  AlarmInv'
<1>1. c \notin Shown /\ Full /\ dropped' = dropped + 1
  BY Zenon DEF evict_for
<1>2. PICK v \in Victims :
        IF alarms[v].severity >= severity THEN UNCHANGED alarms
        ELSE Placed(c, severity, stamp, Shown \ {v})
  BY Zenon DEF evict_for
<1>3. /\ worst \in [Condition -> Nat] /\ severity \in Nat \ {0}
      /\ Shown \subseteq Condition /\ v \in Shown
      /\ \A o \in Shown : worst[o] = alarms[o].severity
  BY AlarmAssumption DEF AlarmInv, RowsInv, Victims
<1>4. ASSUME NEW o \in Shown PROVE worst[o] >= worst[v]
  <2>1. ~(alarms[o].severity < alarms[v].severity)
    BY <1>2, <1>4, Zenon DEF Victims, Milder
  <2>2. worst[o] \in Nat /\ worst[v] \in Nat
    BY <1>3
  <2> QED BY <1>3, <2>1, <2>2
<1>5. ASSUME NEW d \in Condition \ Shown
      PROVE  worst[d] \in Nat /\ worst[d] <= worst[v]
  <2>1. worst[d] \in Nat /\ worst[v] \in Nat
    BY <1>3
  <2>2. worst[d] > 0 => worst[v] >= worst[d]
    BY <1>3, Zenon DEF AlarmInv, CrowdedOut
  <2> QED BY <2>1, <2>2
<1>6. CASE alarms[v].severity >= severity
  <2>1. alarms' = alarms /\ Shown' = Shown
    BY <1>2, <1>6 DEF Shown
  <2>2. worst' \in [Condition -> Nat]
            /\ \A o \in Condition \ {c} : worst'[o] = worst[o]
    BY <1>3 DEF Raised
  <2>3. RowsInv'
    <3>1. \A o \in Shown : worst'[o] = alarms'[o].severity
      BY <1>1, <1>3, <2>1, <2>2
    <3> QED BY <2>1, <2>2, <3>1, Zenon DEF AlarmInv, RowsInv
  <2>4. CrowdedOut'
    <3>1. ASSUME NEW d \in Condition \ Shown, NEW o \in Shown
          PROVE  worst'[o] >= worst'[d]
      <4>1. worst'[o] = worst[o] /\ worst[o] \in Nat /\ worst[v] \in Nat
        BY <1>1, <1>3, <2>2
      <4>2. worst[o] >= worst[v] /\ worst[v] >= severity
        BY <1>3, <1>4, <1>6
      <4>3. CASE d = c
        <5>1. worst'[c] = IF severity > worst[c] THEN severity ELSE worst[c]
          BY <1>3 DEF Raised
        <5> QED BY <1>3, <1>5, <4>1, <4>2, <4>3, <5>1
      <4>4. CASE d # c
        BY <1>5, <2>2, <4>1, <4>2, <4>4
      <4> QED BY <4>3, <4>4
    <3>2. Full'
      BY <1>1, <2>1, Zenon DEF Full
    <3> QED BY <2>1, <3>1, <3>2, Zenon DEF CrowdedOut
  <2>5. open' \ Shown' \subseteq (open \ Shown) \cup {c}
    BY <2>1, Zenon
  <2>6. CountInv'
    BY <1>1, <2>5, DroppedInv
  <2> QED BY <2>3, <2>4, <2>6, Zenon DEF AlarmInv
<1>7. CASE ~(alarms[v].severity >= severity)
  <2>1. Placed(c, severity, stamp, Shown \ {v})
            /\ (Shown \ {v}) \in SUBSET Shown
    BY <1>2, <1>7, Zenon
  <2>2. worst[v] < severity /\ worst[c] <= severity /\ worst[v] \in Nat
    BY <1>1, <1>3, <1>5, <1>7
  <2>3. /\ Shown' = (Shown \ {v}) \cup {c}
        /\ alarms' = [o \in Shown' |-> alarms'[o]]
        /\ worst' \in [Condition -> Nat] /\ worst'[c] = severity
        /\ \A o \in Condition \ {c} : worst'[o] = worst[o] /\ worst[o] \in Nat
        /\ \A o \in Shown' : worst'[o] = alarms'[o].severity
    BY <1>1, <2>1, <2>2, PlacedInv
  <2>4. IsFiniteSet(Shown') /\ Cardinality(Shown') = Cardinality(Shown)
    <3>1. IsFiniteSet(Shown)
      BY Zenon DEF AlarmInv, RowsInv
    <3>2. Cardinality(Shown) \in Nat
      BY <3>1, FS_CardinalityType
    <3>3. IsFiniteSet(Shown \ {v})
              /\ Cardinality(Shown \ {v}) = Cardinality(Shown) - 1
      BY <1>3, <3>1, FS_RemoveElement
    <3>4. /\ IsFiniteSet((Shown \ {v}) \cup {c})
          /\ Cardinality((Shown \ {v}) \cup {c}) = Cardinality(Shown \ {v}) + 1
      <4>1. c \notin Shown \ {v}
        BY <1>1, Zenon
      <4> QED BY <3>3, <4>1, FS_AddElement, Zenon
    <3> QED BY <2>3, <3>2, <3>3, <3>4
  <2>5. RowsInv'
    BY <1>3, <2>3, <2>4, Zenon DEF AlarmInv, RowsInv
  <2>6. CrowdedOut'
    <3>1. ASSUME NEW d \in Condition \ Shown', NEW o \in Shown'
          PROVE  worst'[o] >= worst'[d]
      <4>1. d # c /\ worst'[d] = worst[d] /\ worst[d] \in Nat
        BY <2>3
      <4>2. worst[d] <= worst[v]
        <5>1. CASE d = v
          BY <2>2, <5>1
        <5>2. CASE d # v
          BY <1>5, <2>3, <4>1, <5>2
        <5> QED BY <5>1, <5>2
      <4>3. CASE o = c
        BY <1>3, <2>2, <2>3, <4>1, <4>2, <4>3
      <4>4. CASE o # c
        <5>1. o \in Shown /\ o \in Condition
          BY <1>3, <2>3, <4>4
        <5> QED BY <1>4, <2>2, <2>3, <4>1, <4>2, <4>4, <5>1
      <4> QED BY <4>3, <4>4
    <3>2. Full'
      BY <1>1, <2>4, Zenon DEF Full
    <3> QED BY <3>1, <3>2, Zenon DEF CrowdedOut
  <2>7. open' \ Shown' \subseteq (open \ Shown) \cup {v}
    BY <2>3, Zenon
  <2>8. CountInv'
    BY <1>1, <2>7, DroppedInv
  <2> QED BY <2>5, <2>6, <2>8, Zenon DEF AlarmInv
<1> QED BY <1>6, <1>7, Zenon

\* A condition that ends leaves the board.
LEMMA ClearInv ==
    ASSUME AlarmInv, NEW c \in Condition, clear(c)
    PROVE  AlarmInv'
<1>1. /\ alarms' = [x \in Shown \ {c} |-> alarms[x]]
      /\ open' = open \ {c} /\ dropped' = dropped
  BY Zenon DEF clear, Restrict
<1>2. worst' = [x \in Condition |->
                   IF x = c \/ (c \in Shown /\ x \notin Shown) THEN 0
                   ELSE IF c \in Shown THEN alarms[x].severity ELSE worst[x]]
  BY Zenon DEF clear
<1>3. Shown' = Shown \ {c}
  BY <1>1 DEF Shown
<1>4. alarms' = [x \in Shown' |-> alarms'[x]]
  BY <1>1, <1>3
<1>5. /\ worst \in [Condition -> Nat] /\ Shown \subseteq Condition
      /\ \A o \in Shown : worst[o] = alarms[o].severity
  BY Zenon DEF AlarmInv, RowsInv
<1>6. ASSUME NEW x \in Condition
      PROVE  /\ worst'[x] \in Nat
             /\ x = c => worst'[x] = 0
             /\ x # c /\ c \notin Shown => worst'[x] = worst[x]
             /\ x \in Shown /\ x # c => worst'[x] = worst[x]
             /\ x \notin Shown /\ c \in Shown => worst'[x] = 0
  <2>1. worst'[x] =
            IF x = c \/ (c \in Shown /\ x \notin Shown) THEN 0
            ELSE IF c \in Shown THEN alarms[x].severity ELSE worst[x]
    BY <1>2
  <2>2. worst[x] \in Nat /\ (x \in Shown => alarms[x].severity = worst[x])
    BY <1>5, Zenon
  <2>3. CASE x = c
    BY <2>1, <2>3
  <2>4. CASE x # c /\ c \notin Shown
    BY <2>1, <2>2, <2>4
  <2>5. CASE x # c /\ c \in Shown
    BY <2>1, <2>2, <2>5
  <2> QED BY <2>3, <2>4, <2>5, Zenon
<1>7. worst' \in [Condition -> Nat]
  BY <1>2, <1>6
<1>8. IsFiniteSet(Shown') /\ Cardinality(Shown') <= ALARM_CAPACITY
  <2>1. IsFiniteSet(Shown) /\ Cardinality(Shown) <= ALARM_CAPACITY
    BY Zenon DEF AlarmInv, RowsInv
  <2>2. IsFiniteSet(Shown') /\ Cardinality(Shown') <= Cardinality(Shown)
    BY <1>3, <2>1, FS_Subset
  <2> QED BY <2>1, <2>2, FS_CardinalityType, AlarmAssumption
<1>9. RowsInv'
  <2>1. ASSUME NEW o \in Shown' PROVE worst'[o] = alarms'[o].severity
    BY <1>1, <1>3, <1>5, <1>6
  <2> QED BY <1>3, <1>4, <1>5, <1>7, <1>8, <2>1, Zenon DEF RowsInv
<1>10. CrowdedOut'
  <2>1. ASSUME NEW d \in Condition \ Shown', worst'[d] > 0
        PROVE  Full' /\ \A o \in Shown' : worst'[o] >= worst'[d]
    <3>1. c \notin Shown /\ d \notin Shown /\ worst'[d] = worst[d]
      BY <1>3, <1>6, <2>1
    <3>2. Shown' = Shown
      BY <1>3, <3>1, Zenon
    <3>3. Full' /\ \A o \in Shown : worst[o] >= worst[d]
      BY <2>1, <3>1, <3>2, Zenon DEF AlarmInv, CrowdedOut, Full
    <3>4. \A o \in Shown : worst'[o] = worst[o]
      BY <1>5, <1>6, <3>1
    <3> QED BY <3>1, <3>2, <3>3, <3>4, Zenon
  <2> QED BY <2>1, Zenon DEF CrowdedOut
<1>11. CountInv'
  <2>1. open' \ Shown' \subseteq open \ Shown /\ IsFiniteSet(open \ Shown)
            /\ IsFiniteSet(open')
    <3>1. open' \ Shown' \subseteq open \ Shown
      BY <1>1, <1>3, Zenon
    <3> QED BY <1>1, <3>1, OpenCount, Zenon DEF AlarmInv
  <2>2. Cardinality(open' \ Shown') <= Cardinality(open \ Shown)
            /\ IsFiniteSet(open' \ Shown')
    BY <2>1, FS_Subset, Zenon
  <2>3. Cardinality(open \ Shown) <= dropped /\ dropped \in Nat
    BY Zenon DEF AlarmInv, CountInv
  <2>4. Cardinality(open' \ Shown') <= dropped
    BY <2>1, <2>2, <2>3, FS_CardinalityType
  <2> QED BY <1>1, <2>1, <2>3, <2>4, Zenon DEF CountInv
<1> QED BY <1>9, <1>10, <1>11, Zenon DEF AlarmInv

\* Every step keeps the invariant.
LEMMA AlarmNextInv == AlarmInv /\ [AlarmNext]_alarmVars => AlarmInv'
<1> SUFFICES ASSUME AlarmInv, [AlarmNext]_alarmVars PROVE AlarmInv'
  OBVIOUS
<1>1. ASSUME NEW c \in Condition, NEW severity \in Severity, NEW stamp,
             raise(c, severity, stamp)
      PROVE  AlarmInv'
  <2>1. Raised(c, severity) /\ open' = open \cup {c}
    BY <1>1, Zenon DEF raise, Raised
  <2>2. CASE Coalesced(c, severity, stamp)
    BY <2>1, <2>2, CoalescedInv
  <2>3. CASE Added(c, severity, stamp)
    BY <2>1, <2>3, AddedInv
  <2>4. CASE evict_for(c, severity, stamp)
    BY <2>1, <2>4, EvictInv
  <2> QED BY <1>1, <2>2, <2>3, <2>4, Zenon DEF raise
<1>2. ASSUME NEW c \in Condition, clear(c)
      PROVE  AlarmInv'
  BY <1>2, ClearInv
<1>3. CASE UNCHANGED <<alarms, dropped, worst, open>>
  BY <1>3, Zenon DEF AlarmInv, RowsInv, CrowdedOut, CountInv, Shown, Full
<1>4. CASE AlarmTick
  BY <1>3, <1>4, Zenon DEF AlarmTick
<1>5. CASE UNCHANGED alarmVars
  BY <1>3, <1>5, Zenon DEF alarmVars
<1> QED BY <1>1, <1>2, <1>4, <1>5, Zenon DEF AlarmNext

\* For any conditions, severities and capacity: a condition that is raised is
\* on the board with the worst severity it had, or the board is full of ones
\* that are no milder, and it was counted as dropped (`AlarmBoard::raise`,
\* `evict_for`, `clear`).
THEOREM WorstAlwaysShown == AlarmSpec => []WorstShown
<1>1. AlarmSpec => []AlarmInv
  BY AlarmInitInv, AlarmNextInv, PTL DEF AlarmSpec
<1> QED BY <1>1, AlarmWorst, PTL
=============================================================================
