--------------------------- MODULE MCNodeServices ---------------------------
(***************************************************************************)
(* What one node does by itself, in one instance: a behaviour is the life  *)
(* of a board's flash store, of a host's file store, of a certificate      *)
(* authority's database, of a node's timers, of its ping sessions, of its  *)
(* log ring, of its alarm board or of its link to a LoRa module.           *)
(***************************************************************************)
EXTENDS Stores, CaLog, OgmSchedule, PingSession, LogRing, AlarmBoard,
        Rylr998Link, TLC

CONSTANTS u, v, w, p, q, r

VARIABLE part

noticeVars == <<logVars, alarmVars>>

\* All but the stores and the ping sessions.
otherVars == <<timerVars, noticeVars, radioVars>>

storeVars == <<vars, fileVars, dbVars>>

\* An empty blob, one that fills whole flash words, one with a tail.
Lengths == (u :> 0 @@ v :> 1 @@ w :> 2)

\* A snapshot with nothing in it, one record, one record twice, two records.
OldSnapshots == {<<>>, <<p>>, <<p, p>>, <<p, q>>}

\* Interfaces that back off, and that do not; the first has keep-alives.
BackOff == {<<2, 4>>, <<3, 3>>}

KeepAlives == (0 :> 2 @@ 1 :> 0)

\* The parts a behaviour is not about rest in an initial state.
MCInit ==
    /\ part \in {"flash", "file", "database", "timers", "ping", "logs",
                "alarms", "radio"}
    /\ Init /\ File!Init
    /\ DbInit /\ (part # "database" => json = NoBody)
    /\ TimerInit
    /\ part # "timers" => ~rereads /\ \A i \in {0, 1} : timers[i].i_max = 4
    /\ PingInit /\ (part # "ping" => ~host)
    /\ LogInit /\ (part # "logs" => overlap = 1)
    /\ AlarmInit
    /\ RadioInit

InPart(name, A, rest) == part = name /\ A /\ UNCHANGED <<part, rest>>

PingStep(A) == InPart("ping", A, <<storeVars, otherVars, host>>)

RadioStep(A) ==
    InPart("radio", A, <<storeVars, timerVars, pingVars, noticeVars>>)

MCNext ==
    \/ InPart("flash", Next, <<fileVars, dbVars, otherVars, pingVars>>)
    \/ InPart("file", File!Next, <<vars, dbVars, otherVars, pingVars>>)
    \/ InPart("database", DbNext, <<vars, fileVars, otherVars, pingVars>>)
    \/ InPart("timers", TimerNext,
              <<storeVars, pingVars, noticeVars, radioVars>>)
    \/ InPart("ping", PingNext, <<storeVars, otherVars>>)
    \/ InPart("logs", LogNext,
              <<storeVars, timerVars, pingVars, alarmVars, radioVars>>)
    \/ InPart("alarms", AlarmNext,
              <<storeVars, timerVars, pingVars, logVars, radioVars>>)
    \/ RadioStep(RadioNext)

MCVars == <<storeVars, otherVars, pingVars, part>>

\* Time passes, and a timer arm that is ready time and again is taken in
\* the end; so are the arm of a link and a send.  A module on the bus
\* answers what it is asked.  A behaviour is of one part, so a condition on
\* two parts is one on each.
MCSpec ==
    /\ MCInit /\ [][MCNext]_MCVars
    /\ SF_MCVars(PingStep(PingTick) \/ RadioStep(Await("recv")))
    /\ SF_MCVars(PingStep(PingWake) \/ RadioStep(Await("send")))
    /\ SF_MCVars(RadioStep(listen_for_packet))
    /\ WF_MCVars(RadioStep(GoesOn))
=============================================================================
