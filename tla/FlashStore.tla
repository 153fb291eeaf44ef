----------------------------- MODULE FlashStore -----------------------------
(***************************************************************************)
(* The bare-metal DurableStore: two erase-pages of NOR flash used in turn. *)
(* A save erases the page that is not the newest valid one and writes a    *)
(* header (magic, generation, length, payload CRC) and then the payload;   *)
(* a load answers from the valid page with the higher generation.          *)
(*                                                                         *)
(* Each flash operation is a step of its own.  It may stop partway, when   *)
(* the device reports an error or the power is cut, and then leaves its    *)
(* page in any state the operation passes through.                         *)
(***************************************************************************)
EXTENDS Integers

CONSTANTS
    Blob,        \* the blobs callers save
    NoBlob,      \* no blob: what Ok(None) stands for
    Writes,      \* Writes[b]: payload writes b takes after the header
    GenCount,    \* generations a header can hold, 2^32 in the code
    MaxSaves,    \* bound: saves in the life of the store
    RaisedBits   \* an interrupted erase may clear a header's generation only

ASSUME StoreConstants ==
    /\ NoBlob \notin Blob
    /\ Writes \in [Blob -> 0..2]
    /\ GenCount \in Nat \ {0}
    /\ MaxSaves \in Nat
    /\ MaxSaves <= GenCount
    /\ RaisedBits \in BOOLEAN

VARIABLES
    pages,     \* the two pages
    pc,        \* where the call in progress is
    call,      \* which call it is
    arg,       \* save: the blob
    target,    \* save: the page being written
    gen,       \* save: the generation being written
    left,      \* save: payload writes still to come
    keep,      \* scrub: the page to leave alone
    at,        \* scrub, erase: the page reached
    saves,     \* saves so far
    result     \* how the last call ended

work == <<arg, target, gen, left, keep, at>>

vars == <<pages, pc, call, work, saves, result>>

Page == 0..1

NoPage == 2

----------------------------------------------------------------------------
(* A page.  `hdr` is the generation of an intact header, or one of the two *)
(* states in which the header does not validate; `cells` the blob whose    *)
(* payload bytes are, wholly or in part, in the page; `whole` whether the  *)
(* payload matches the header's CRC.                                       *)

Erased == -1

Torn == -2

Gen == 0..(GenCount - 1)

Pages == [hdr : Gen \cup {Erased, Torn}, cells : Blob \cup {NoBlob},
          whole : BOOLEAN]

Blank == [hdr |-> Erased, cells |-> NoBlob, whole |-> FALSE]

read_valid_header(p) == p.hdr \in Gen /\ p.whole

\* The page a load reads.  A tie goes to page 0.
newest_valid(ps) ==
    IF read_valid_header(ps[1])
         /\ (read_valid_header(ps[0]) => ps[1].hdr > ps[0].hdr)
    THEN 1
    ELSE IF read_valid_header(ps[0]) THEN 0 ELSE NoPage

load(ps) ==
    IF newest_valid(ps) = NoPage THEN NoBlob ELSE ps[newest_valid(ps)].cells

\* Blobs a reader of the raw flash still finds outside the current page.
Leftovers(ps) ==
    {ps[i].cells : i \in Page \ {newest_valid(ps)}} \ {NoBlob}

\* What an erase cut short leaves.  Cells clear toward 1 in no given order:
\* the header can read blank over payload bytes that are still there, and
\* the payload can be damaged under a header that still reads well.  With
\* RaisedBits the generation may be the one thing cleared: it then reads as
\* all ones, and no checksum covers it.
PartlyErased(p) ==
    {p, Blank}
        \cup {[hdr |-> h, cells |-> p.cells, whole |-> FALSE] :
                  h \in {p.hdr, Erased, Torn}}
        \cup (IF RaisedBits /\ p.hdr \in Gen
              THEN {[p EXCEPT !.hdr = GenCount - 1]}
              ELSE {})

\* What a header write cut short leaves, and a payload write cut short.
PartlyHeaded(p) == {p, [p EXCEPT !.hdr = Torn]}

PartlyFilled(p, b) == {p, [p EXCEPT !.cells = b]}

----------------------------------------------------------------------------
Init ==
    /\ pages = [i \in Page |-> Blank]
    /\ pc = "idle"
    /\ call = "idle"
    /\ arg = NoBlob
    /\ target = 0
    /\ gen = 0
    /\ left = 0
    /\ keep = NoPage
    /\ at = 0
    /\ saves = 0
    /\ result = "none"

Invoke(op, b) ==
    /\ pc = "idle"
    /\ pc' = "plan"
    /\ call' = op
    /\ arg' = b
    /\ result' = "none"
    /\ UNCHANGED <<pages, target, gen, left, keep, at>>

save(b) ==
    /\ saves < MaxSaves
    /\ saves' = saves + 1
    /\ Invoke("save", b)

scrub == Invoke("scrub", NoBlob) /\ UNCHANGED saves

erase == Invoke("erase", NoBlob) /\ UNCHANGED saves

\* Mutant: the save overwrites the newest valid page.
PlanOverNewest ==
    /\ pc = "plan"
    /\ call = "save"
    /\ LET newest == newest_valid(pages)
       IN  IF newest = NoPage
           THEN target' = 0 /\ gen' = 0
           ELSE /\ target' = newest
                /\ gen' = (pages[newest].hdr + 1) % GenCount
    /\ pc' = "erase"
    /\ UNCHANGED <<pages, call, arg, left, keep, at, saves, result>>

\* The page save overwrites is never the one a load would read.
PlanSave ==
    /\ pc = "plan"
    /\ call = "save"
    /\ LET newest == newest_valid(pages)
       IN  IF newest = NoPage
           THEN target' = 0 /\ gen' = 0
           ELSE /\ target' = 1 - newest
                /\ gen' = (pages[newest].hdr + 1) % GenCount
    /\ pc' = "erase"
    /\ UNCHANGED <<pages, call, arg, left, keep, at, saves, result>>

SaveErase ==
    /\ pc = "erase"
    /\ pages' = [pages EXCEPT ![target] = Blank]
    /\ pc' = "header"
    /\ UNCHANGED <<call, work, saves, result>>

\* A blob of length zero has no payload write: its header completes it.
SaveHeader ==
    /\ pc = "header"
    /\ LET last == Writes[arg] = 0
       IN  /\ pages' = [pages EXCEPT ![target] =
                           [hdr |-> gen, whole |-> last,
                            cells |-> IF last THEN arg ELSE NoBlob]]
           /\ pc' = IF last THEN "done" ELSE "payload"
    /\ left' = Writes[arg]
    /\ UNCHANGED <<call, arg, target, gen, keep, at, saves, result>>

\* The whole words, and then the padded tail.
SavePayload ==
    /\ pc = "payload"
    /\ pages' = [pages EXCEPT ![target] =
                    [hdr |-> gen, cells |-> arg, whole |-> (left = 1)]]
    /\ left' = left - 1
    /\ pc' = IF left = 1 THEN "done" ELSE "payload"
    /\ UNCHANGED <<call, arg, target, gen, keep, at, saves, result>>

PlanWipe ==
    /\ pc = "plan"
    /\ call \in {"scrub", "erase"}
    /\ keep' = IF call = "scrub" THEN newest_valid(pages) ELSE NoPage
    /\ at' = 0
    /\ pc' = "wipe"
    /\ UNCHANGED <<pages, call, arg, target, gen, left, saves, result>>

\* One turn of the loop over both pages; a blank page is not erased again.
erase_page_if_written ==
    /\ pc = "wipe"
    /\ pages' = IF at = keep THEN pages ELSE [pages EXCEPT ![at] = Blank]
    /\ at' = at + 1
    /\ pc' = IF at = 1 THEN "done" ELSE "wipe"
    /\ UNCHANGED <<call, arg, target, gen, left, keep, saves, result>>

\* A flash operation that stops partway.
Interrupted ==
    /\ \/ /\ pc = "erase"
          /\ \E p \in PartlyErased(pages[target]) :
                 pages' = [pages EXCEPT ![target] = p]
       \/ /\ pc = "header"
          /\ \E p \in PartlyHeaded(pages[target]) :
                 pages' = [pages EXCEPT ![target] = p]
       \/ /\ pc = "payload"
          /\ \E p \in PartlyFilled(pages[target], arg) :
                 pages' = [pages EXCEPT ![target] = p]
       \/ /\ pc = "wipe"
          /\ at # keep
          /\ pages[at] # Blank
          /\ \E p \in PartlyErased(pages[at]) :
                 pages' = [pages EXCEPT ![at] = p]
    /\ pc' = "broken"
    /\ UNCHANGED <<call, work, saves, result>>

End(how) ==
    /\ pc' = "idle"
    /\ call' = "idle"
    /\ result' = how
    /\ UNCHANGED <<pages, work, saves>>

ReturnOk == pc = "done" /\ End("ok")

\* A flash operation failed, or a read did before anything was touched.
ReturnErr == pc \in {"plan", "broken"} /\ End("err")

Cut == pc # "idle" /\ End("cut")

Next ==
    \/ \E b \in Blob : save(b)
    \/ scrub \/ erase
    \/ PlanSave \/ SaveErase \/ SaveHeader \/ SavePayload
    \/ PlanWipe \/ erase_page_if_written
    \/ Interrupted
    \/ ReturnOk \/ ReturnErr \/ Cut

Spec == Init /\ [][Next]_vars

----------------------------------------------------------------------------
Stages == {"idle", "plan", "erase", "header", "payload", "wipe", "done",
           "broken"}

TypeOK ==
    /\ pages \in [Page -> Pages]
    /\ pc \in Stages
    /\ call \in {"idle", "save", "scrub", "erase"}
    /\ arg \in Blob \cup {NoBlob}
    /\ target \in Page
    /\ gen \in Gen
    /\ left \in 0..2
    /\ keep \in Page \cup {NoPage}
    /\ at \in 0..2
    /\ saves \in 0..MaxSaves
    /\ result \in {"none", "ok", "err", "cut"}

Register == INSTANCE DurableRegister WITH
    blob <- load(pages),
    copies <- Leftovers(pages),
    landed <- call = "save" /\ pc = "done"

\* The flash store keeps the DurableStore contract across every error and
\* power cut: a load answers the previous blob or the new one in full; Ok
\* from save, scrub and erase means what the trait says it means; Err from
\* save means the blob was not replaced.
Implements == Register!Spec
=============================================================================
