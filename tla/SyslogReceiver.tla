---------------------------- MODULE SyslogReceiver ----------------------------
(***************************************************************************)
(* internal/syslog/receiver.go: one goroutine (run) reads datagrams into   *)
(* pooled messages and hands them over a buffered channel to the parser    *)
(* goroutines (runParser), which log them and put them back in the pool.   *)
(* A third goroutine (cleanup) closes the socket, the parse channel and    *)
(* the done channel, in that order, when the context is cancelled.         *)
(*                                                                         *)
(* A datagram is its sequence number on the wire; parsing and logging one  *)
(* is one step.  The UDP socket and sync.Pool are external.                *)
(***************************************************************************)
EXTENDS Naturals, Sequences, FiniteSets

CONSTANTS
    Parsers,       \* the parser goroutines; the channel holds as many messages
    Slot,          \* the message objects sync.Pool may hand out
    NoSlot,        \* the nil message
    SockMax,       \* datagrams the socket's receive buffer holds
    MaxDatagrams   \* bound on the datagrams sent to the socket

ASSUME ParsersAssumption == IsFiniteSet(Parsers) /\ Parsers # {}
ASSUME NoSlotAssumption == NoSlot \notin Slot
ASSUME BoundsAssumption == SockMax \in Nat /\ MaxDatagrams \in Nat

VARIABLES
    sent,      \* datagrams sent to the socket so far
    sock,      \* those waiting in its receive buffer
    open,      \* the socket is open
    pool,      \* messages in syslogMessagePool
    content,   \* the datagram in each message's buf (0: none yet)
    run,       \* where the receiving goroutine is
    msg,       \* run's local msg
    got,       \* the datagrams run has read, in order
    parse,     \* the parse channel
    closed,    \* close(r.parse) has happened
    done,      \* close(r.done) has happened
    err,       \* r.err is set
    parser,    \* where each parser goroutine is
    hold,      \* the message each parser holds (its m)
    logged,    \* the datagrams logged, in order
    ctxDone,   \* the context is cancelled
    cleanup    \* where the cleanup goroutine is

socket == <<sent, sock, open>>
pooled == <<pool, content>>
reader == <<run, msg, got, err>>
channel == <<parse, closed>>
workers == <<parser, hold, logged>>
ending == <<done, ctxDone, cleanup>>
vars == <<socket, pooled, reader, channel, workers, ending>>

Cap == Cardinality(Parsers)

TypeOK ==
    /\ sent \in 0..MaxDatagrams /\ sock \in Seq(1..MaxDatagrams) /\ open \in BOOLEAN
    /\ pool \subseteq Slot /\ content \in [Slot -> 0..MaxDatagrams]
    /\ run \in {"start", "get", "read", "send", "returned", "failed", "panic"}
    /\ msg \in Slot \cup {NoSlot} /\ got \in Seq(1..MaxDatagrams) /\ err \in BOOLEAN
    /\ parse \in Seq(Slot) /\ Len(parse) <= Cap /\ closed \in BOOLEAN
    /\ parser \in [Parsers -> {"idle", "recv", "log", "put", "exit"}]
    /\ hold \in [Parsers -> Slot \cup {NoSlot}]
    /\ logged \in Seq(0..MaxDatagrams)
    /\ done \in BOOLEAN /\ ctxDone \in BOOLEAN
    /\ cleanup \in {"idle", "wait", "parse", "done", "end"}

Init ==
    /\ sent = 0 /\ sock = <<>> /\ open = FALSE
    /\ pool = {} /\ content = [s \in Slot |-> 0]
    /\ run = "start" /\ msg = NoSlot /\ got = <<>> /\ err = FALSE
    /\ parse = <<>> /\ closed = FALSE
    /\ parser = [p \in Parsers |-> "idle"] /\ hold = [p \in Parsers |-> NoSlot]
    /\ logged = <<>>
    /\ done = FALSE /\ ctxDone = FALSE /\ cleanup = "idle"

\* A panic in any goroutine ends the process.
Alive == run # "panic"

\* Messages somebody holds.
InUse == {msg} \cup {parse[i] : i \in 1..Len(parse)} \cup {hold[p] : p \in Parsers}

-----------------------------------------------------------------------------
(* The network, the context and sync.Pool (external). *)

\* A datagram arrives; a full or closed socket drops it.
Arrive ==
    /\ Alive /\ sent < MaxDatagrams
    /\ sent' = sent + 1
    /\ sock' = IF open /\ Len(sock) < SockMax THEN Append(sock, sent') ELSE sock
    /\ UNCHANGED <<open, pooled, reader, channel, workers, ending>>

Cancel ==
    /\ Alive /\ ~ctxDone /\ ctxDone' = TRUE
    /\ UNCHANGED <<socket, pooled, reader, channel, workers, done, cleanup>>

\* The garbage collector empties the pool.
PoolDrop ==
    /\ Alive /\ pool # {} /\ pool' = {}
    /\ UNCHANGED <<socket, content, reader, channel, workers, ending>>

-----------------------------------------------------------------------------
(* StartReceiver and run. *)

\* StartReceiver: nothing is started when the address cannot be listened on.
StartReceiver ==
    /\ run = "start"
    /\ \/ /\ run' = "get" /\ open' = TRUE /\ cleanup' = "wait"
          /\ parser' = [p \in Parsers |-> "recv"]
       \/ run' = "failed" /\ UNCHANGED <<open, cleanup, parser>>
    /\ UNCHANGED <<sent, sock, pooled, msg, got, err, channel, hold, logged, done, ctxDone>>

\* msg = syslogMessagePool.Get(): a pooled message or a new one.  A message
\* that comes from the pool still has its last datagram in buf.
Get(s) ==
    /\ run = "get" /\ (s \in pool \/ s \notin InUse)
    /\ msg' = s /\ pool' = pool \ {s}
    /\ content' = [content EXCEPT ![s] = IF s \in pool THEN @ ELSE 0]
    /\ run' = "read"
    /\ UNCHANGED <<socket, got, err, channel, workers, ending>>

\* ReadFromUDP fills msg.buf.
Read ==
    /\ run = "read" /\ open /\ sock # <<>>
    /\ content' = [content EXCEPT ![msg] = Head(sock)]
    /\ got' = Append(got, Head(sock)) /\ sock' = Tail(sock)
    /\ run' = "send"
    /\ UNCHANGED <<sent, open, pool, msg, err, channel, workers, ending>>

\* ReadFromUDP fails, as it does once the socket is closed and as it may at
\* any time.  The error is wrapped before it is tested for net.Error, so the
\* test never succeeds: run sets r.err and returns, its deferred function
\* putting msg back.
ReadError ==
    /\ run = "read"
    /\ run' = "returned" /\ err' = TRUE
    /\ pool' = pool \cup {msg} /\ msg' = NoSlot
    /\ UNCHANGED <<socket, content, got, channel, workers, ending>>

ReadClosed == ~open /\ ReadError
ReadFails == open /\ ReadError

\* Mutant: the channel takes one message too many.
SendOverCap ==
    /\ run = "send" /\ ~closed /\ Len(parse) <= Cap
    /\ parse' = Append(parse, msg) /\ msg' = NoSlot
    /\ run' = "get"
    /\ UNCHANGED <<socket, pooled, got, err, closed, workers, ending>>

\* Mutant: msg is not set to nil after it was handed over.
SendKeeping ==
    /\ run = "send" /\ ~closed /\ Len(parse) < Cap
    /\ parse' = Append(parse, msg)
    /\ run' = "read"
    /\ UNCHANGED <<socket, pooled, msg, got, err, closed, workers, ending>>

\* r.parse <- msg; msg = nil.
Send ==
    /\ run = "send" /\ ~closed /\ Len(parse) < Cap
    /\ parse' = Append(parse, msg) /\ msg' = NoSlot
    /\ run' = "get"
    /\ UNCHANGED <<socket, pooled, got, err, closed, workers, ending>>

\* r.parse <- msg when the channel has been closed, also while run was blocked
\* on it: the goroutine panics.
SendPanics ==
    /\ run = "send" /\ closed
    /\ run' = "panic"
    /\ UNCHANGED <<socket, pooled, msg, got, err, channel, workers, ending>>

-----------------------------------------------------------------------------
(* cleanup. *)

\* <-ctx.Done(); r.c.Close().
CloseConn ==
    /\ Alive /\ cleanup = "wait" /\ ctxDone
    /\ open' = FALSE /\ sock' = <<>> /\ cleanup' = "parse"
    /\ UNCHANGED <<sent, pooled, reader, channel, workers, done, ctxDone>>

\* Mutant: the parse channel is left open.
CloseParseForgotten ==
    /\ Alive /\ cleanup = "parse"
    /\ cleanup' = "done"
    /\ UNCHANGED <<socket, pooled, reader, channel, workers, done, ctxDone>>

\* close(r.parse).
CloseParse ==
    /\ Alive /\ cleanup = "parse"
    /\ closed' = TRUE /\ cleanup' = "done"
    /\ UNCHANGED <<socket, pooled, reader, parse, workers, done, ctxDone>>

\* close(r.done).
CloseDone ==
    /\ Alive /\ cleanup = "done"
    /\ done' = TRUE /\ cleanup' = "end"
    /\ UNCHANGED <<socket, pooled, reader, channel, workers, ctxDone>>

-----------------------------------------------------------------------------
(* runParser. *)

\* Mutant: a parser leaves as soon as the channel is closed.
ReceiveUntilClosed(p) ==
    /\ Alive /\ parser[p] = "recv"
    /\ ~closed /\ parse # <<>>
    /\ hold' = [hold EXCEPT ![p] = Head(parse)] /\ parse' = Tail(parse)
    /\ parser' = [parser EXCEPT ![p] = "log"]
    /\ UNCHANGED <<socket, pooled, reader, closed, logged, ending>>

\* for m := range r.parse.
Receive(p) ==
    /\ Alive /\ parser[p] = "recv"
    /\ parse # <<>>
    /\ hold' = [hold EXCEPT ![p] = Head(parse)] /\ parse' = Tail(parse)
    /\ parser' = [parser EXCEPT ![p] = "log"]
    /\ UNCHANGED <<socket, pooled, reader, closed, logged, ending>>

RangeEnds(p) ==
    /\ Alive /\ parser[p] = "recv"
    /\ parse = <<>> /\ closed
    /\ parser' = [parser EXCEPT ![p] = "exit"]
    /\ UNCHANGED <<socket, pooled, reader, channel, hold, logged, ending>>

\* Mutant: the message goes back to the pool before it is parsed and logged.
LogAfterPut(p) ==
    /\ Alive /\ parser[p] = "log"
    /\ IF hold[p] \in pool
       THEN /\ logged' = Append(logged, content[hold[p]])
            /\ parser' = [parser EXCEPT ![p] = "put"] /\ UNCHANGED pool
       ELSE pool' = pool \cup {hold[p]} /\ UNCHANGED <<logged, parser>>
    /\ UNCHANGED <<socket, content, reader, channel, hold, ending>>

\* m.parse() and the logger call.
Log(p) ==
    /\ Alive /\ parser[p] = "log"
    /\ logged' = Append(logged, content[hold[p]])
    /\ parser' = [parser EXCEPT ![p] = "put"]
    /\ UNCHANGED <<socket, pooled, reader, channel, hold, ending>>

\* m.reset(); syslogMessagePool.Put(m).
Put(p) ==
    /\ Alive /\ parser[p] = "put"
    /\ pool' = pool \cup {hold[p]}
    /\ hold' = [hold EXCEPT ![p] = NoSlot]
    /\ parser' = [parser EXCEPT ![p] = "recv"]
    /\ UNCHANGED <<socket, content, reader, channel, logged, ending>>

-----------------------------------------------------------------------------

Running == (\E s \in Slot : Get(s)) \/ Read \/ ReadClosed \/ Send \/ SendPanics
Parsing(p) == Receive(p) \/ RangeEnds(p) \/ Log(p) \/ Put(p)
CleaningUp == CloseConn \/ CloseParse \/ CloseDone

Next ==
    \/ Arrive \/ Cancel \/ PoolDrop
    \/ StartReceiver \/ Running \/ ReadFails \/ CleaningUp
    \/ \E p \in Parsers : Parsing(p)

\* Every goroutine that can run does.  Datagrams, read errors and the end of
\* the context need not come.
Fairness ==
    /\ WF_vars(StartReceiver) /\ WF_vars(Running) /\ WF_vars(CleaningUp)
    /\ \A p \in Parsers : WF_vars(Parsing(p))

Spec == Init /\ [][Next]_vars /\ Fairness

-----------------------------------------------------------------------------
(* Properties. *)

\* A message has one owner at a time: the pool, run, the channel or a parser.
\* Two owners would let run read a datagram into a buf that is being logged.
SingleOwner ==
    /\ msg \notin pool
    /\ \A i \in 1..Len(parse) :
        /\ parse[i] \notin pool /\ parse[i] # msg
        /\ \A j \in 1..Len(parse) : parse[i] = parse[j] => i = j
        /\ \A p \in Parsers : parse[i] # hold[p]
    /\ \A p \in Parsers : hold[p] # NoSlot =>
        /\ hold[p] \notin pool /\ hold[p] # msg
        /\ \A q \in Parsers : hold[p] = hold[q] => p = q

\* run has a message exactly from Get to Send, a parser from Receive to Put.
HoldsByStage ==
    /\ run \in {"read", "send", "panic"} <=> msg # NoSlot
    /\ run = "start" => \A p \in Parsers : parser[p] = "idle"
    /\ \A p \in Parsers : parser[p] \in {"log", "put"} <=> hold[p] # NoSlot

\* The inductive invariant behind SingleOwner.
OwnerInv == TypeOK /\ HoldsByStage /\ SingleOwner

Datagrams == 1..MaxDatagrams

\* The messages with a datagram that run has read and nobody has logged: run's
\* before it is sent, those in the channel and those with a parser.
Unlogged ==
    {parse[i] : i \in 1..Len(parse)}
    \cup {hold[p] : p \in {q \in Parsers : parser[q] = "log"}}
    \cup (IF run \in {"send", "panic"} THEN {msg} ELSE {})
Pending == {content[s] : s \in Unlogged}

\* The datagram that run has read last.
LastGot == IF got = <<>> THEN 0 ELSE got[Len(got)]

\* What the receiver is seen to do, with the machinery hidden.
Abstract == INSTANCE SyslogLog WITH
    Datagram <- Datagrams, Ordered <- Cardinality(Parsers) = 1,
    last <- LastGot, pending <- Pending, log <- logged, up <- Alive

\* The receiver implements SyslogLog: through the pooled buffers, the channel
\* and the shutdown, what was read is logged once, unchanged and in the end,
\* unless run panics; with one parser, which is what main asks for, in order.
\* Also when the context is cancelled first: the parsers drain the closed
\* channel before they leave.
LogsWhatItReads == Abstract!Spec

Has(seq, d) == \E i \in 1..Len(seq) : seq[i] = d

\* Cancelling the context ends run, every parser and cleanup.
ShutdownCompletes ==
    ctxDone ~> \/ run \in {"failed", "panic"}
               \/ run = "returned" /\ done /\ \A p \in Parsers : parser[p] = "exit"

\* main logs "syslog server stopped" and returns no error when the context is
\* cancelled: stopping the receiver is an orderly end, not a panic.
StopsWithoutPanic == Alive

\* README.md: the syslog server receives syslog messages and logs them.  A
\* datagram in the socket's buffer is logged unless the server is stopped.
ReceivesAndLogs ==
    \A d \in Datagrams : Has(sock, d) ~> (Has(logged, d) \/ ctxDone)
=============================================================================
