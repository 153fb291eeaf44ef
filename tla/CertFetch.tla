------------------------------ MODULE CertFetch ------------------------------
(***************************************************************************)
(* Lazy certificate distribution (libs/wayfinder/src/auth/distribution.rs).*)
(* An OGM names its originator's certificate by fingerprint.  A node that  *)
(* does not hold that certificate drops the OGM and asks the originator    *)
(* for it, over the neighbour the OGM came from; the originator learns the *)
(* asker's certificate from the request itself and answers, at once or when*)
(* it has a route back.  Requests and answers get lost or come late, a     *)
(* certificate is renewed while an answer is on its way, and a node loses  *)
(* keys it held.                                                           *)
(*                                                                         *)
(* A certificate is its number; what it proves, revocation and validity    *)
(* windows are DirectedAuth's and CertAuthority's.  The relays between two *)
(* nodes are the network: they carry a frame or lose it.                   *)
(***************************************************************************)
EXTENDS Naturals, FiniteSets, FiniteSetsExt, Functions

CONSTANTS
    Node,
    MaxCert,        \* bound on the certificates of each node
    MaxAttempts,    \* MAX_CERT_REQUEST_ATTEMPTS
    Retry,          \* CERT_REQUEST_RETRY, in ticks
    RateLimit,      \* CERT_REQ_RATE_LIMIT
    ReplyTtl,       \* PENDING_REPLY_TTL
    Rows,           \* MAX_IN_FLIGHT_CERT_REQUESTS
    MaxLate         \* bound on the OGMs that arrive after a renewal

VARIABLES
    lazy,           \* who sends its certificate's fingerprint only
    cert,           \* the number of each node's own certificate
    keys,           \* keys[n][o]: the certificate of o that n holds, or 0
    in_flight,      \* in_flight[n][o]: n's outstanding request for o
    rate,           \* rate[n][o]: how long n refuses o's next request
    pending,        \* pending[n][o]: how long n keeps o's parked reply
    route,          \* route[n]: the nodes n has a live path to
    net,            \* the requests and replies under way
    late            \* how many OGMs of earlier certificates may still come

vars == <<lazy, cert, keys, in_flight, rate, pending, route, net, late>>

Number == 1..Max({MaxCert[n] : n \in Node})

Frame == [kind : {"CertReq", "CertReply"}, src : Node, dest : Node,
          cert : Number]

\* `InFlightCertRequest`; `next_attempt` is the time left until it.
Request == [fp : Number, attempts : 1..MaxAttempts,
            next_attempt : 0..Retry]

Less(n) == IF n = 0 THEN 0 ELSE n - 1

Without(f, n) == Restrict(f, DOMAIN f \ {n})

With(f, n, x) == [m \in DOMAIN f \cup {n} |-> IF m = n THEN x ELSE f[m]]

-----------------------------------------------------------------------------

\* Exhausted requests are kept, so nothing ever asks for them again.
KeepsExhausted(n) == in_flight[n]

\* Every turn of a driver begins by setting the clock, which drops requests
\* whose budget is spent.
reclaim_bookkeeping(n) ==
    Restrict(in_flight[n],
             {o \in DOMAIN in_flight[n] : in_flight[n][o].attempts < MaxAttempts})

\* The row of n's request for the certificate fp of o, and whether a frame
\* goes out for it: not within the back-off, and not when the table is full.
build_cert_request(rows, o, fp) ==
    LET New(attempts) == [fp |-> fp, attempts |-> attempts,
                          next_attempt |-> Retry]
        row == rows[o]
        same == row.fp = fp
    IN  IF o \notin DOMAIN rows
        THEN IF Cardinality(DOMAIN rows) < Rows
             THEN [rows |-> With(rows, o, New(1)), sent |-> TRUE]
             ELSE [rows |-> rows, sent |-> FALSE]
        ELSE IF same /\ (row.next_attempt > 0 \/ row.attempts >= MaxAttempts)
             THEN [rows |-> rows, sent |-> FALSE]
             ELSE [rows |-> With(rows, o,
                                 New(IF same THEN row.attempts + 1 ELSE 1)),
                   sent |-> TRUE]

\* Of two frames of one kind between two nodes, the earlier is lost.
Sent(frames, m) ==
    {f \in frames : <<f.kind, f.src, f.dest>> # <<m.kind, m.src, m.dest>>}
      \cup {m}

CertReq(n, o) == [kind |-> "CertReq", src |-> n, dest |-> o, cert |-> cert[n]]

CertReply(n, o) ==
    [kind |-> "CertReply", src |-> n, dest |-> o, cert |-> cert[n]]

\* An OGM whose fingerprint n cannot resolve is dropped, and asked for.
NeedCert(n, o, fp) ==
    LET asked == build_cert_request(reclaim_bookkeeping(n), o, fp) IN
    /\ in_flight' = [in_flight EXCEPT ![n] = asked.rows]
    /\ net' = IF asked.sent THEN Sent(net, CertReq(n, o)) ELSE net
    /\ UNCHANGED <<cert, keys, rate, pending, route>>

\* A verified OGM, which gives a path unless it is late.  When the engine
\* does not flood it on, a reply parked for its originator takes the slot.
Verified(n, o, fp, reflood) ==
    LET paths == IF fp = cert[o] THEN route[n] \cup {o} ELSE route[n]
        flush == ~reflood /\ o \in DOMAIN pending[n] /\ o \in paths
    IN  /\ keys' = [keys EXCEPT ![n][o] = fp]
        /\ route' = [route EXCEPT ![n] = paths]
        /\ in_flight' = [in_flight EXCEPT ![n] = reclaim_bookkeeping(n)]
        /\ IF flush
           THEN /\ pending' = [pending EXCEPT ![n] = Without(@, o)]
                /\ net' = Sent(net, CertReply(n, o))
           ELSE UNCHANGED <<pending, net>>
        /\ UNCHANGED <<cert, rate>>

\* A copy of an OGM of o arrives at n: of the certificate o has now, or late
\* and of an earlier one.
verify_ogm(n, o, fp, reflood) ==
    /\ n # o
    /\ \/ fp = cert[o] /\ UNCHANGED late
       \/ fp < cert[o] /\ late > 0 /\ late' = late - 1
    /\ IF o \in lazy /\ keys[n][o] # fp
       THEN NeedCert(n, o, fp)
       ELSE Verified(n, o, fp, reflood)
    /\ UNCHANGED lazy

\* A request reaches the node it asks.  Its certificate is cached, and the
\* answer goes out or is parked until there is a route.
answer_cert_request(n, m) ==
    LET o == m.src IN
    /\ m \in net /\ m.kind = "CertReq" /\ m.dest = n
    /\ in_flight' = [in_flight EXCEPT ![n] = reclaim_bookkeeping(n)]
    /\ IF rate[n][o] > 0
       THEN /\ net' = net \ {m}
            /\ UNCHANGED <<keys, rate, pending>>
       ELSE /\ rate' = [rate EXCEPT ![n][o] = RateLimit]
            /\ keys' = [keys EXCEPT ![n][o] = m.cert]
            /\ IF o \in route[n]
               THEN /\ net' = Sent(net \ {m}, CertReply(n, o))
                    /\ UNCHANGED pending
               ELSE /\ net' = net \ {m}
                    /\ pending' = [pending EXCEPT ![n] = With(@, o, ReplyTtl)]
    /\ UNCHANGED <<cert, route, late, lazy>>

\* A reply is taken when it answers an outstanding request, whichever
\* certificate of the originator it brings.
ingest_cert_reply(n, m) ==
    LET rows == reclaim_bookkeeping(n)
        o == m.src
        awaited == o \in DOMAIN rows
    IN  /\ m \in net /\ m.kind = "CertReply" /\ m.dest = n
        /\ net' = net \ {m}
        /\ in_flight' = [in_flight EXCEPT ![n] = Without(rows, o)]
        /\ keys' = IF awaited THEN [keys EXCEPT ![n][o] = m.cert] ELSE keys
        /\ UNCHANGED <<cert, rate, pending, route, late, lazy>>

-----------------------------------------------------------------------------

\* The node puts a new certificate of its own in place, in the tables it
\* has or with empty ones (`set_auth`).
Renew(n, rebuilt) ==
    /\ cert[n] < MaxCert[n]
    /\ cert' = [cert EXCEPT ![n] = @ + 1]
    /\ IF rebuilt
       THEN /\ keys' = [keys EXCEPT ![n] = [o \in Node |-> 0]]
            /\ in_flight' = [in_flight EXCEPT ![n] = <<>>]
            /\ rate' = [rate EXCEPT ![n] = [o \in Node |-> 0]]
            /\ pending' = [pending EXCEPT ![n] = <<>>]
       ELSE UNCHANGED <<keys, in_flight, rate, pending>>
    /\ UNCHANGED <<route, net, late, lazy>>

\* A cached certificate that its holder has replaced lapses.
Forget(n, o) ==
    /\ keys[n][o] \notin {0, cert[o]}
    /\ keys' = [keys EXCEPT ![n][o] = 0]
    /\ UNCHANGED <<cert, in_flight, rate, pending, route, net, late, lazy>>

\* A path ages out while the OGMs that would keep it are not verified.
PathLost(n, o) ==
    /\ o \in route[n] /\ keys[n][o] # cert[o]
    /\ route' = [route EXCEPT ![n] = @ \ {o}]
    /\ UNCHANGED <<cert, keys, in_flight, rate, pending, net, late, lazy>>

Lose(m) ==
    /\ net' = net \ {m}
    /\ UNCHANGED <<cert, keys, in_flight, rate, pending, route, late, lazy>>

\* Time passes, and every node sets its clock (`set_time`).
Tick ==
    /\ in_flight' =
         [n \in Node |->
            [o \in DOMAIN reclaim_bookkeeping(n) |->
               [in_flight[n][o] EXCEPT !.next_attempt = Less(@)]]]
    /\ rate' = [n \in Node |-> [o \in Node |-> Less(rate[n][o])]]
    /\ pending' =
         [n \in Node |->
            [o \in {o \in DOMAIN pending[n] : pending[n][o] > 1} |->
               pending[n][o] - 1]]
    /\ UNCHANGED <<cert, keys, route, net, late, lazy>>

-----------------------------------------------------------------------------

Init ==
    /\ lazy \in SUBSET Node
    /\ cert \in [Node -> Number] /\ \A n \in Node : cert[n] <= MaxCert[n]
    /\ keys = [n \in Node |-> [o \in Node |-> 0]]
    /\ in_flight = [n \in Node |-> <<>>]
    /\ rate = [n \in Node |-> [o \in Node |-> 0]]
    /\ pending = [n \in Node |-> <<>>]
    /\ route = [n \in Node |-> {}]
    /\ net = {}
    /\ late = MaxLate

Next ==
    \/ \E n, o \in Node, fp \in Number, reflood \in BOOLEAN :
           verify_ogm(n, o, fp, reflood)
    \/ \E n \in Node, m \in net : answer_cert_request(n, m)
    \/ \E n \in Node, m \in net : ingest_cert_reply(n, m)
    \/ \E n \in Node, rebuilt \in BOOLEAN : Renew(n, rebuilt)
    \/ \E n, o \in Node : Forget(n, o)
    \/ \E n, o \in Node : PathLost(n, o)
    \/ \E m \in net : Lose(m)
    \/ Tick

\* What must keep happening.  A node keeps hearing an originator's OGMs; of
\* the requests that would be acted on, and of the replies, that come while
\* the request is outstanding, not every one is lost; and no frame is under
\* way for ever.
Hear(n, o) == \E reflood \in BOOLEAN :
                  verify_ogm(n, o, cert[o], reflood)

Leaves == \E m \in net : \/ Lose(m)
                          \/ \E n \in Node : \/ answer_cert_request(n, m)
                                            \/ ingest_cert_reply(n, m)

Outstanding(n, o) == o \in DOMAIN reclaim_bookkeeping(n)

Asked(n, o) ==
    /\ Outstanding(o, n) /\ rate[n][o] = 0
    /\ \E m \in net : m.src = o /\ answer_cert_request(n, m)

Answered(n, o) ==
    /\ Outstanding(n, o)
    /\ \E m \in net : m.src = o /\ ingest_cert_reply(n, m)

-----------------------------------------------------------------------------

TypeOK ==
    /\ lazy \subseteq Node
    /\ cert \in [Node -> Number]
    /\ keys \in [Node -> [Node -> Number \cup {0}]]
    /\ \A n \in Node :
         /\ DOMAIN in_flight[n] \subseteq Node \ {n}
         /\ Cardinality(DOMAIN in_flight[n]) <= Rows
         /\ \A o \in DOMAIN in_flight[n] : in_flight[n][o] \in Request
         /\ DOMAIN pending[n] \subseteq Node \ {n}
         /\ \A o \in DOMAIN pending[n] : pending[n][o] \in 1..ReplyTtl
    /\ rate \in [Node -> [Node -> 0..RateLimit]]
    /\ route \in [Node -> SUBSET Node]
    /\ net \subseteq Frame
    /\ late \in 0..MaxLate

\* A node that keeps hearing an originator keeps coming to hold the
\* originator's certificate of the day, whatever requests and replies are
\* lost, renewed under way or refused by the rate limit: giving up after
\* MAX_CERT_REQUEST_ATTEMPTS is not for good (`build_cert_request`,
\* `reclaim_bookkeeping`).
Fetched(n, o) == []<>(keys[n][o] = cert[o])
=============================================================================
