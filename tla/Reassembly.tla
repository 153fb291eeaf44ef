----------------------------- MODULE Reassembly -----------------------------
(***************************************************************************)
(* Fragmentation and reassembly on the small-MTU links                     *)
(* (wayfinder-link-utils), as rylr998, lora-link, ieee802154 and blue use  *)
(* it: a sender cuts a frame into numbered fragments under a wrapping      *)
(* msg_id, and a receiver puts fragments together in a bounded table keyed *)
(* by the sender's address and the msg_id.                                 *)
(*                                                                         *)
(* The medium loses, duplicates and reorders fragments, and fragments of   *)
(* several frames interleave on it.                                        *)
(***************************************************************************)
EXTENDS Naturals, FiniteSets, Sequences, SequencesExt, FiniteSetsExt

CONSTANTS
    Sender,                \* distinct sender addresses
    Lengths,               \* lengths of the frames that are sent
    Strays,                \* fragments no conforming sender produces
    FRAG_PAYLOAD,
    MAX_FRAGMENTS,
    MAX_REASSEMBLED_LEN,
    MAX_REASSEMBLIES,
    MsgIds,                \* msg_id is a u8: 256
    Recut,                 \* may a msg_id come round with the same count?
    Overlap,               \* may a sender's frames overlap on the medium?
    None,
    MaxSends,              \* bound: frames sent in all
    MaxFaults              \* bound: fragments lost, duplicated or stray

VARIABLES
    sent,      \* the lengths of the frames each sender has sent
    air,       \* fragments on the medium
    entries,   \* the reassembly table, oldest first
    out,       \* rx_frame: the frame handed up last
    whole,     \* ghost: the frames handed up
    spoilt,    \* ghost: the frames that lost a fragment or their slot
    clock,     \* ghost: slots opened so far
    faults

vars == <<sent, air, entries, out, whole, spoilt, clock, faults>>

----------------------------------------------------------------------------
(* Framing: the bytes of the n-th frame of a sender, and how it is cut.    *)

FrameOf(s, n) == [k \in 1..sent[s][n] |-> <<s, n, k>>]

Frames == UNION {{<<s, n>> : n \in DOMAIN sent[s]} : s \in Sender}

DivCeil(x, y) == (x + y - 1) \div y

fragment_count(len) == Max({DivCeil(len, FRAG_PAYLOAD), 1})

fragment_body(frame, index) ==
    SubSeq(frame, index * FRAG_PAYLOAD + 1,
           Min({(index + 1) * FRAG_PAYLOAD, Len(frame)}))

Fragment(s, id, index, count, body) ==
    [key |-> <<s, id>>, index |-> index, count |-> count, body |-> body]

\* The frames whose bytes a fragment carries.
Carries(body) == {<<body[k][1], body[k][2]>> : k \in DOMAIN body}

\* next_msg_id for the n-th frame.
next_msg_id(n) == (n - 1) % MsgIds

\* The earlier frame under the same msg_id, if it is cut alike, is the case
\* Recut leaves in or out.
Collides(s, len) ==
    LET n == Len(sent[s]) + 1
    IN  \E k \in 1..(n - 1) :
            /\ next_msg_id(k) = next_msg_id(n)
            /\ fragment_count(sent[s][k]) = fragment_count(len)

\* send: all fragments go out under one msg_id.  One that is not sent (the
\* radio fails half way) is one that is lost.
send(s, len) ==
    LET n == Len(sent[s]) + 1
        frame == [k \in 1..len |-> <<s, n, k>>]
        count == fragment_count(len)
    IN  /\ Cardinality(Frames) < MaxSends
        /\ len <= MAX_REASSEMBLED_LEN
        /\ count <= MAX_FRAGMENTS
        /\ Recut \/ ~Collides(s, len)
        /\ Overlap \/ \A f \in air : f.key[1] # s
        /\ sent' = [sent EXCEPT ![s] = Append(@, len)]
        /\ air' = air \cup {Fragment(s, next_msg_id(n), i, count,
                                     fragment_body(frame, i)) :
                              i \in 0..(count - 1)}
        /\ UNCHANGED <<entries, out, whole, spoilt, clock, faults>>

----------------------------------------------------------------------------
(* The reassembly table.                                                   *)

\* The refusals at the head of accept.
Malformed(f) ==
    \/ f.count = 0
    \/ f.index >= f.count
    \/ f.count > DivCeil(MAX_REASSEMBLED_LEN, FRAG_PAYLOAD)
    \/ Len(f.body) > FRAG_PAYLOAD
    \/ f.index + 1 # f.count /\ Len(f.body) # FRAG_PAYLOAD
    \/ f.index * FRAG_PAYLOAD + Len(f.body) > MAX_REASSEMBLED_LEN

\* Reassembly::new.  `born` is the order in which slots were opened; the
\* buffer is zeroed, and no byte of a frame is None.
NewEntry(f, born) ==
    [key |-> f.key, count |-> f.count, have |-> {}, len |-> 0, born |-> born,
     buf |-> [k \in 1..MAX_REASSEMBLED_LEN |-> None]]

\* Mutant: the mask is one bit too wide.
MaskTooWide(e) == 0..e.count \subseteq e.have

is_complete(e) == 0..(e.count - 1) \subseteq e.have

\* The first copy of a fragment is copied to its offset.
Filled(e, f) ==
    LET off == f.index * FRAG_PAYLOAD
    IN  IF f.index \in e.have THEN e
        ELSE [e EXCEPT
                !.buf = [k \in DOMAIN @ |-> IF k - off \in DOMAIN f.body
                                            THEN f.body[k - off] ELSE @[k]],
                !.have = @ \cup {f.index},
                !.len = Max({@, off + Len(f.body)})]

\* The frames with bytes in a slot that is given up.
Lost(e) == {<<e.buf[k][1], e.buf[k][2]>> : k \in {x \in DOMAIN e.buf : e.buf[x] # None}}

\* The table once there is a slot for fragment f, and which slot it is.
SlotOf(f) == SelectInSeq(entries, LAMBDA e : e.key = f.key)

\* Mutant: merges a message cut otherwise into the slot of its key.
PreparedMerged(f) ==
    IF SlotOf(f) # 0 THEN entries
    ELSE Append(IF Len(entries) = MAX_REASSEMBLIES THEN Tail(entries)
                ELSE entries,
                NewEntry(f, clock))

Prepared(f) ==
    LET i == SlotOf(f)
    IN  IF i # 0
        THEN IF entries[i].count = f.count THEN entries
             ELSE [entries EXCEPT ![i] = NewEntry(f, entries[i].born)]
        ELSE Append(IF Len(entries) = MAX_REASSEMBLIES THEN Tail(entries)
                    ELSE entries,
                    NewEntry(f, clock))

\* The frames that lose their slot to f.
Displaced(f) ==
    LET i == SlotOf(f)
    IN  IF i # 0
        THEN IF entries[i].count = f.count THEN {} ELSE Lost(entries[i])
        ELSE IF Len(entries) = MAX_REASSEMBLIES THEN Lost(entries[1]) ELSE {}

\* accept, for a fragment that is not refused.
accept(f) ==
    LET table == Prepared(f)
        i == SelectInSeq(table, LAMBDA r : r.key = f.key)
        grown == Filled(table[i], f)
    IN  /\ ~Malformed(f)
        /\ clock' = IF SlotOf(f) = 0 THEN clock + 1 ELSE clock
        /\ spoilt' = spoilt \cup Displaced(f)
        /\ IF is_complete(grown)
           THEN /\ entries' = RemoveAt(table, i)
                /\ out' = SubSeq(grown.buf, 1, grown.len)
                /\ whole' = whole \cup Lost(grown)
           ELSE /\ entries' = [table EXCEPT ![i] = grown]
                /\ UNCHANGED <<out, whole>>

\* A fragment arrives; a copy of it may still be to come.
recv(f) ==
    /\ accept(f)
    /\ \/ air' = air \ {f} /\ UNCHANGED faults
       \/ faults < MaxFaults /\ faults' = faults + 1 /\ UNCHANGED air
    /\ UNCHANGED sent

\* A fragment of another format or another network's.
Stray(f) ==
    /\ faults < MaxFaults
    /\ faults' = faults + 1
    /\ IF Malformed(f) THEN UNCHANGED <<entries, out, whole, spoilt, clock>>
                       ELSE accept(f)
    /\ UNCHANGED <<sent, air>>

Lose(f) ==
    /\ faults < MaxFaults
    /\ faults' = faults + 1
    /\ air' = air \ {f}
    /\ spoilt' = spoilt \cup Carries(f.body)
    /\ UNCHANGED <<sent, entries, out, whole, clock>>

Init ==
    /\ sent = [s \in Sender |-> << >>]
    /\ air = {}
    /\ entries = << >>
    /\ out = None
    /\ whole = {} /\ spoilt = {}
    /\ clock = 0 /\ faults = 0

Next ==
    \/ \E s \in Sender, len \in Lengths : send(s, len)
    \/ \E f \in air : recv(f) \/ Lose(f)
    \/ \E f \in Strays : Stray(f)

Spec == Init /\ [][Next]_vars

----------------------------------------------------------------------------
TypeOK ==
    /\ sent \in [Sender -> Seq(Lengths)]
    /\ \A f \in air : ~Malformed(f)
    /\ Len(entries) <= MAX_REASSEMBLIES
    /\ \A i \in DOMAIN entries :
           /\ entries[i].count \in 1..MAX_FRAGMENTS
           /\ entries[i].have \subseteq 0..(entries[i].count - 1)
           /\ entries[i].len \in 0..MAX_REASSEMBLED_LEN
    /\ whole \subseteq Frames /\ spoilt \subseteq Frames
    /\ faults \in 0..MaxFaults

\* What is handed up is a frame that was sent, byte for byte.
Intact == out = None \/ \E f \in Frames : out = FrameOf(f[1], f[2])

\* Once the medium is quiet, every frame has been handed up, or has lost a
\* fragment to the medium or its slot to another frame: the table swallows
\* none.  The slot a full table gives up is the one that has waited longest
\* (entries: "Invariant: always ordered oldest-arrival-first").
Accounted ==
    /\ air = {} => Frames \subseteq whole \cup spoilt
    /\ \A i, j \in DOMAIN entries : i < j => entries[i].born < entries[j].born
=============================================================================
