---------------------------- MODULE Rylr998Link -----------------------------
(***************************************************************************)
(* A LoRa module on a serial port (rylr998/src/lib.rs and link.rs) behind  *)
(* the link that reopens the port (wayfinder-driver/src/rylr998.rs).  The  *)
(* driver either sends, which runs to its end, or waits in select! for a   *)
(* frame, which any other arm of it may cut short: the bytes of a line     *)
(* read so far are then lost, and so is a connection half made.            *)
(*                                                                         *)
(* A line is an answer, a packet, a +RCV line that does not parse, or the  *)
(* rest of a line.  Packets are numbered as the module receives them; an   *)
(* answer is marked when the command it is for was given up on.  Fragments *)
(* are put together in Reassembly.                                         *)
(***************************************************************************)
EXTENDS Integers, Sequences

CONSTANTS
    RX_QUEUE_DEPTH,
    Commands,           \* commands of `connect`
    InitialDelay, MaxDelay,
    MaxFragments,
    MaxPackets, MaxFaults, MaxGivenUp       \* bounds

ASSUME RadioAssumption == RX_QUEUE_DEPTH \in Nat \ {0} /\ MaxPackets \in Nat

VARIABLES
    plugged, faults,
    commands,           \* the module's: for each, whether it is awaited
    uart,               \* lines to be read
    arrived, handed,    \* packets of the module, last one handed up
    inner, broken,      \* ReconnectingRylr998Link
    alive,              \* the module is still where the port was opened
    delay, wait,        \* Backoff
    rx_queue,
    doing, togo         \* what the driver awaits, and commands to go

radioVars == <<plugged, faults, commands, uart, arrived, handed, inner,
               broken, alive, delay, wait, rx_queue, doing, togo>>

Doing == {"turn", "recv", "send", "connect to recv", "connect to send"}

Connecting == doing \in {"connect to recv", "connect to send"}

Awaiting == doing = "send" \/ Connecting

Line ==
    [kind : {"rcv"}, n : 1..MaxPackets]
        \cup [kind : {"+OK", "+ERR"}, own : BOOLEAN]
        \cup [kind : {"bad", "rest"}]

IsAnswer(line) == line.kind \in {"+OK", "+ERR"}

Disowned(lines) ==
    [i \in DOMAIN lines |-> IF IsAnswer(lines[i])
                            THEN [lines[i] EXCEPT !.own = FALSE] ELSE lines[i]]

\* The command awaited is given up: its answer will be nobody's.
Disown ==
    /\ commands' = [i \in DOMAIN commands |-> FALSE]
    /\ uart' = Disowned(uart)

GivenUp ==
    Len(SelectSeq(commands, LAMBDA own : ~own))
        + Len(SelectSeq(uart, LAMBDA line : IsAnswer(line) /\ ~line.own))

-----------------------------------------------------------------------------
(* The module and the bus. *)

Arrive ==
    /\ plugged /\ arrived < MaxPackets
    /\ arrived' = arrived + 1
    /\ \E line \in {[kind |-> "rcv", n |-> arrived'], [kind |-> "bad"]} :
        uart' = Append(uart, line)
    /\ UNCHANGED <<plugged, faults, alive, commands, handed, inner, broken,
                   delay, wait, rx_queue, doing, togo>>

Answer ==
    /\ commands # <<>>
    /\ commands' = Tail(commands)
    /\ \/ /\ uart' = Append(uart, [kind |-> "+OK", own |-> Head(commands)])
          /\ UNCHANGED faults
       \/ /\ faults < MaxFaults /\ faults' = faults + 1
          /\ uart' = Append(uart, [kind |-> "+ERR", own |-> Head(commands)])
    /\ UNCHANGED <<plugged, alive, arrived, handed, inner, broken, delay,
                   wait, rx_queue, doing, togo>>

Unplug ==
    /\ plugged /\ faults < MaxFaults
    /\ plugged' = FALSE /\ alive' = FALSE /\ faults' = faults + 1
    /\ commands' = <<>> /\ uart' = <<>>
    /\ UNCHANGED <<arrived, handed, inner, broken, delay, wait, rx_queue,
                   doing, togo>>

Plug ==
    /\ ~plugged
    /\ plugged' = TRUE
    /\ UNCHANGED <<faults, alive, commands, uart, arrived, handed, inner,
                   broken, delay, wait, rx_queue, doing, togo>>

BackoffTick ==
    /\ wait > 0
    /\ wait' = wait - 1
    /\ UNCHANGED <<plugged, faults, alive, commands, uart, arrived, handed,
                   inner, broken, delay, rx_queue, doing, togo>>

-----------------------------------------------------------------------------
(* ensure_connected, and the operation it is called for. *)

\* send_data and the setters write a command and wait for its answer.
Command == commands' = IF alive THEN Append(commands, TRUE) ELSE commands

\* The client is there: recv waits for a packet, send puts the first of
\* its fragments on air.
Begin(op) ==
    /\ doing' = op
    /\ IF op = "send" THEN Command /\ togo' \in 1..MaxFragments
       ELSE UNCHANGED commands /\ togo' = 0

\* Mutant: a call before its time puts the next attempt off.
FailAgain ==
    /\ wait' = delay
    /\ UNCHANGED delay

NotReady == UNCHANGED <<delay, wait>>

record_failure ==
    /\ wait' \in {delay, delay - 1}
    /\ delay' = IF 2 * delay <= MaxDelay THEN 2 * delay ELSE MaxDelay

\* What came before the port is opened may be there to read or not.
Open(op) ==
    /\ plugged /\ alive' = TRUE
    /\ uart' \in {uart, <<>>}
    /\ commands' = Append(commands, TRUE)
    /\ doing' = IF op = "send" THEN "connect to send" ELSE "connect to recv"
    /\ togo' = Commands
    /\ UNCHANGED <<delay, wait>>

OpenFails ==
    /\ ~plugged
    /\ record_failure
    /\ doing' = "turn"
    /\ UNCHANGED <<alive, commands, uart, togo>>

Await(op) ==
    /\ doing = "turn"
    /\ IF inner /\ ~broken
       THEN /\ Begin(op)
            /\ UNCHANGED <<alive, uart, inner, broken, delay, wait, rx_queue>>
       ELSE /\ inner' = FALSE /\ broken' = FALSE /\ rx_queue' = <<>>
            /\ IF wait > 0
               THEN NotReady /\ UNCHANGED <<alive, commands, uart, doing, togo>>
               ELSE Open(op) \/ OpenFails
    /\ UNCHANGED <<plugged, faults, arrived, handed>>

\* The connection fails, or the operation does; only an I/O error of the
\* operation breaks the link.
Fails(io) ==
    /\ doing' = "turn" /\ togo' = 0
    /\ IF Connecting
       THEN record_failure /\ rx_queue' = <<>> /\ UNCHANGED broken
       ELSE UNCHANGED <<delay, wait, rx_queue>> /\ broken' = (broken \/ io)
    /\ UNCHANGED inner

\* expect("+OK") has its answer: the next command, or the end of them.
Succeeds ==
    /\ IF togo > 1
       THEN /\ togo' = togo - 1
            /\ Command
            /\ UNCHANGED <<doing, inner, delay, wait>>
       ELSE IF Connecting
       THEN /\ inner' = TRUE
            /\ delay' = InitialDelay /\ wait' = 0
            /\ Begin(IF doing = "connect to send" THEN "send" ELSE "recv")
       ELSE /\ doing' = "turn" /\ togo' = 0
            /\ UNCHANGED <<commands, inner, delay, wait>>
    /\ UNCHANGED <<broken, rx_queue>>

Queued(n) ==
    Append(IF Len(rx_queue) = RX_QUEUE_DEPTH THEN Tail(rx_queue)
           ELSE rx_queue, n)

\* One line of next_line, for `expect`.
expect ==
    /\ Awaiting /\ alive /\ uart # <<>>
    /\ LET line == Head(uart)
       IN  \/ /\ line.kind = "rcv"
              /\ rx_queue' = Queued(line.n)
              /\ uart' = Tail(uart)
              /\ UNCHANGED <<commands, inner, broken, delay, wait, doing, togo>>
           \/ /\ line.kind = "rest"
              /\ uart' = Tail(uart)
              /\ UNCHANGED <<commands, inner, broken, delay, wait, rx_queue,
                             doing, togo>>
           \/ line.kind = "+OK" /\ uart' = Tail(uart) /\ Succeeds
           \/ /\ line.kind = "+ERR"
              /\ uart' = Tail(uart) /\ UNCHANGED commands /\ Fails(FALSE)
           \/ /\ line.kind = "bad"
              /\ commands' = [i \in DOMAIN commands |-> FALSE]
              /\ uart' = Disowned(Tail(uart))
              /\ Fails(FALSE)
    /\ UNCHANGED <<plugged, faults, alive, arrived, handed>>

IoError ==
    /\ ~alive /\ doing # "turn"
    /\ Fails(TRUE)
    /\ UNCHANGED <<plugged, faults, alive, commands, uart, arrived, handed>>

\* Mutant: the packet queued last is handed up first.
PopNewest(q) == <<q[Len(q)], SubSeq(q, 1, Len(q) - 1)>>

PopFront(q) == <<Head(q), Tail(q)>>

\* A packet is handed up; recv waits on unless it ends a frame.
listen_for_packet ==
    /\ doing = "recv" /\ alive
    /\ \/ /\ rx_queue # <<>>
          /\ handed' = PopFront(rx_queue)[1]
          /\ rx_queue' = PopFront(rx_queue)[2]
          /\ doing' \in {"recv", "turn"}
          /\ UNCHANGED uart
       \/ /\ rx_queue = <<>> /\ uart # <<>>
          /\ uart' = Tail(uart)
          /\ UNCHANGED rx_queue
          /\ LET line == Head(uart)
             IN  \/ /\ line.kind = "rcv" /\ handed' = line.n
                    /\ doing' \in {"recv", "turn"}
                 \/ /\ line.kind = "bad" /\ doing' = "turn"
                    /\ UNCHANGED handed
                 \/ /\ line.kind \notin {"rcv", "bad"}
                    /\ UNCHANGED <<doing, handed>>
    /\ UNCHANGED <<plugged, faults, alive, commands, arrived, inner, broken,
                   delay, wait, togo>>

\* Another arm of select! is ready first.
Cancel ==
    /\ doing \in {"recv", "connect to recv"}
    /\ doing = "recv" \/ GivenUp < MaxGivenUp
    /\ doing' = "turn" /\ togo' = 0
    /\ IF doing = "recv"
       THEN /\ uart' \in {uart} \cup
                    IF uart = <<>> \/ rx_queue # <<>> THEN {}
                    ELSE {<<[kind |-> "rest"]>> \o Tail(uart)}
            /\ UNCHANGED <<commands, rx_queue>>
       ELSE Disown /\ rx_queue' = <<>>
    /\ UNCHANGED <<plugged, faults, alive, arrived, handed, inner, broken,
                   delay, wait>>

-----------------------------------------------------------------------------

\* build_rylr998_link has connected once.
RadioInit ==
    /\ plugged = TRUE /\ faults = 0
    /\ commands = <<>> /\ uart = <<>>
    /\ arrived = 0 /\ handed = 0
    /\ inner = TRUE /\ broken = FALSE /\ alive = TRUE
    /\ delay = InitialDelay /\ wait = 0
    /\ rx_queue = <<>>
    /\ doing = "turn" /\ togo = 0

RadioNext ==
    \/ Arrive \/ Answer \/ Unplug \/ Plug \/ BackoffTick
    \/ Await("recv") \/ Await("send")
    \/ expect \/ IoError \/ listen_for_packet \/ Cancel

RadioSpec == RadioInit /\ [][RadioNext]_radioVars

\* What does not wait for the driver's choice.
GoesOn == Answer \/ Plug \/ BackoffTick \/ expect \/ IoError

-----------------------------------------------------------------------------

RadioTypeOK ==
    /\ plugged \in BOOLEAN /\ faults \in 0..MaxFaults
    /\ commands \in Seq(BOOLEAN)
    /\ uart \in Seq(Line)
    /\ arrived \in 0..MaxPackets /\ handed \in 0..arrived
    /\ inner \in BOOLEAN /\ broken \in BOOLEAN /\ alive \in BOOLEAN
    /\ delay \in InitialDelay..MaxDelay /\ wait \in 0..MaxDelay
    /\ rx_queue \in Seq(1..arrived) /\ Len(rx_queue) <= RX_QUEUE_DEPTH
    /\ doing \in Doing /\ togo \in 0..Commands

\* Packets are handed up in the order the module received them and none
\* twice, whether they came while a command was awaited or not and however
\* often recv is cut short: the last one handed up is older than those in
\* rx_queue, and these than those still to be read (`listen_for_packet`,
\* `expect`).
HandedUpInOrder ==
    /\ \A i \in DOMAIN rx_queue :
          /\ handed < rx_queue[i]
          /\ \A j \in 1 .. i - 1 : rx_queue[j] < rx_queue[i]
    /\ \A i \in DOMAIN uart : uart[i].kind = "rcv" =>
          /\ handed < uart[i].n
          /\ \A j \in DOMAIN rx_queue : rx_queue[j] < uart[i].n
          /\ \A j \in 1 .. i - 1 : uart[j].kind = "rcv" => uart[j].n < uart[i].n

\* A link that lost its module, or lost step with its answers, recovers:
\* as long as the module is there, it is connected again and again with no
\* answer owed to a command given up on ("the link recovers without a
\* `wayfinder-tap` restart").
Recovers == []<>(plugged => inner /\ ~broken /\ alive /\ GivenUp = 0)
=============================================================================
