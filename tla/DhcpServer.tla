------------------------------ MODULE DhcpServer ------------------------------
(***************************************************************************)
(* internal/dhcp/server/dhcp.go: Serve reads packets and starts one        *)
(* goroutine per packet, which asks the backend and answers, while the     *)
(* backend's records change and the context may be cancelled.              *)
(*                                                                         *)
(* Handler i is the goroutine started for the i-th packet.  The socket and *)
(* the backend are external: db is what the backend would answer now.      *)
(***************************************************************************)
EXTENDS DhcpHandlers, Naturals

CONSTANTS
    Pkt,          \* the packets clients send
    Garbage,      \* a datagram that dhcpv4.FromBytes rejects
    Macs,         \* the clients' macs
    Answers,      \* what the backend may hold for a mac
    MaxPackets,   \* bound on the packets of one behaviour
    MaxUpdates    \* bound on the changes to the backend

ASSUME BoundsAssumption == MaxPackets \in Nat /\ MaxUpdates \in Nat
ASSUME PktAssumption == Garbage \notin Pkt /\ \A pkt \in Pkt : pkt.mac \in Macs

VARIABLES
    mode,      \* -dhcp-mode, for the life of the process
    inbox,     \* datagrams in the socket's receive buffer
    arrived,   \* every datagram sent to the socket, in order
    open,      \* the socket is open
    serve,     \* where Serve is
    ret,       \* what Serve returned
    broken,    \* a read of the open socket failed
    stage,     \* where each handler is: "none", "new", "asked" or "done"
    pkt,       \* the packet each handler was given
    res,       \* what the backend answered each handler
    replies,   \* replies sent: which handler sent what
    db,        \* the backend's answer for each mac
    held,      \* what db has held for each handler's mac since its packet came
    updates,   \* changes to db so far
    ctxDone    \* the context is cancelled

net == <<inbox, arrived, open>>
server == <<serve, ret, broken>>
handlers == <<stage, pkt, res, replies>>
backend == <<db, held, updates>>
vars == <<mode, net, server, handlers, backend, ctxDone>>

Handlers == 1..MaxPackets
Replies ==
    {Reply(x[1], x[2], x[3]) : x \in Modes \X Pkt \X (Answers \cup {BackendError})}
AnswersFor(m) == {a \in Answers : a.st = "ok" => a.hw.mac = m}

TypeOK ==
    /\ mode \in Modes
    /\ inbox \in Seq(Handlers) /\ arrived \in Seq(Pkt \cup {Garbage})
    /\ Len(arrived) <= MaxPackets
    /\ open \in BOOLEAN /\ ctxDone \in BOOLEAN /\ broken \in BOOLEAN
    /\ serve \in {"setup", "read", "returned"} /\ ret \in {"none", "nil", "setupErr", "readErr"}
    /\ stage \in [Handlers -> {"none", "new", "asked", "done"}]
    /\ pkt \in [Handlers -> Pkt \cup {Garbage}]
    /\ res \in [Handlers -> Answers \cup {BackendError}]
    /\ replies \in Seq([from : Handlers, reply : Replies])
    /\ db \in [Macs -> Answers]
    /\ held \in [Handlers -> SUBSET Answers]
    /\ updates \in 0..MaxUpdates

Init ==
    /\ mode \in Modes
    /\ inbox = <<>> /\ arrived = <<>> /\ open = TRUE
    /\ serve = "setup" /\ ret = "none" /\ broken = FALSE
    /\ stage = [h \in Handlers |-> "none"]
    /\ pkt = [h \in Handlers |-> Garbage] /\ res = [h \in Handlers |-> BackendError]
    /\ replies = <<>>
    /\ db \in {f \in [Macs -> Answers] : \A m \in Macs : f[m] \in AnswersFor(m)}
    /\ held = [h \in Handlers |-> {}] /\ updates = 0
    /\ ctxDone = FALSE

-----------------------------------------------------------------------------
(* The network, the backend and the context (external). *)

\* A datagram reaches the socket; it is known by its place in arrived.
Arrive(p) ==
    /\ Len(arrived) < MaxPackets /\ open
    /\ arrived' = Append(arrived, p)
    /\ inbox' = Append(inbox, Len(arrived'))
    /\ UNCHANGED <<mode, open, server, handlers, backend, ctxDone>>

\* The record of mac m changes.
Update(m, a) ==
    /\ updates < MaxUpdates /\ db[m] # a
    /\ updates' = updates + 1
    /\ db' = [db EXCEPT ![m] = a]
    /\ held' = [h \in Handlers |->
                  IF stage[h] \in {"new", "asked"} /\ arrived[h].mac = m
                  THEN held[h] \cup {a} ELSE held[h]]
    /\ UNCHANGED <<mode, net, server, handlers, ctxDone>>

Cancel ==
    /\ ~ctxDone /\ ctxDone' = TRUE
    /\ UNCHANGED <<mode, net, server, handlers, backend>>

-----------------------------------------------------------------------------
(* Serve. *)

\* SetControlMessage, which fails on a socket that is already closed.
Setup ==
    /\ serve = "setup"
    /\ \/ open /\ serve' = "read" /\ UNCHANGED ret
       \/ serve' = "returned" /\ ret' = "setupErr"
    /\ UNCHANGED <<mode, net, broken, handlers, backend, ctxDone>>

\* Mutant: one packet variable for all the goroutines of the loop.
ReceiveSharingPacket ==
    /\ serve = "read" /\ open /\ inbox # <<>>
    /\ LET h == Head(inbox) IN
        IF arrived[h] = Garbage
        THEN UNCHANGED <<stage, pkt, held>>
        ELSE /\ stage' = [stage EXCEPT ![h] = "new"]
             /\ pkt' = [i \in Handlers |-> arrived[h]]
             /\ held' = [held EXCEPT ![h] = {db[arrived[h].mac]}]
    /\ inbox' = Tail(inbox)
    /\ UNCHANGED <<mode, arrived, open, server, res, replies, db, updates, ctxDone>>

\* ReadFrom returns a datagram: one that does not parse is skipped, for any
\* other a handler goroutine is started.
Receive ==
    /\ serve = "read" /\ open /\ inbox # <<>>
    /\ LET h == Head(inbox) IN
        IF arrived[h] = Garbage
        THEN UNCHANGED <<stage, pkt, held>>
        ELSE /\ stage' = [stage EXCEPT ![h] = "new"]
             /\ pkt' = [pkt EXCEPT ![h] = arrived[h]]
             /\ held' = [held EXCEPT ![h] = {db[arrived[h].mac]}]
    /\ inbox' = Tail(inbox)
    /\ UNCHANGED <<mode, arrived, open, server, res, replies, db, updates, ctxDone>>

\* Mutant: an error of ReadFrom is returned also after the context's end.
ReadErrorUnchecked ==
    /\ serve = "read"
    /\ broken' = (broken \/ open)
    /\ ret' = "readErr" /\ serve' = "returned" /\ open' = FALSE
    /\ UNCHANGED <<mode, inbox, arrived, handlers, backend, ctxDone>>

\* Mutant: the context's own error is returned at its end.
ReadErrorOfContext ==
    /\ serve = "read"
    /\ broken' = (broken \/ open)
    /\ ret' = IF ctxDone THEN "canceled" ELSE "readErr"
    /\ serve' = "returned" /\ open' = FALSE
    /\ UNCHANGED <<mode, inbox, arrived, handlers, backend, ctxDone>>

\* ReadFrom returns an error, because the socket is closed or because it
\* failed; the deferred nConn.Close() closes it in any case.
ReadError ==
    /\ serve = "read"
    /\ broken' = (broken \/ open)
    /\ ret' = IF ctxDone THEN "nil" ELSE "readErr"
    /\ serve' = "returned" /\ open' = FALSE
    /\ UNCHANGED <<mode, inbox, arrived, handlers, backend, ctxDone>>

ReadClosed == ~open /\ ReadError
ReadFails == open /\ ReadError

\* Mutant: nothing closes the socket when the context ends.
CloseNever ==
    /\ open /\ ctxDone /\ serve = "returned" /\ open' = FALSE
    /\ UNCHANGED <<mode, inbox, arrived, server, handlers, backend, ctxDone>>

\* The goroutine that waits for ctx.Done() and calls Close.
Close ==
    /\ open /\ ctxDone /\ open' = FALSE
    /\ UNCHANGED <<mode, inbox, arrived, server, handlers, backend, ctxDone>>

-----------------------------------------------------------------------------
(* Handle, one goroutine per packet. *)

\* The backend is asked, where the mode asks it, and may fail.
Ask(h) ==
    /\ stage[h] = "new"
    /\ stage' = [stage EXCEPT ![h] = "asked"]
    /\ \E a \in IF AsksBackend(mode, pkt[h]) THEN {db[pkt[h].mac], BackendError} ELSE {BackendError} :
         res' = [res EXCEPT ![h] = a]
    /\ UNCHANGED <<mode, net, server, pkt, replies, backend, ctxDone>>

\* Mutant: the goroutine stays until its reply could be written.
AnswerUntilWritten(h) ==
    /\ stage[h] = "asked"
    /\ stage' = [stage EXCEPT ![h] = "done"]
    /\ LET r == Reply(mode, pkt[h], res[h]) IN
        IF r = NoReply THEN UNCHANGED replies
        ELSE open /\ replies' = Append(replies, [from |-> h, reply |-> r])
    /\ UNCHANGED <<mode, net, server, pkt, res, backend, ctxDone>>

\* The reply, if there is one, is written to the socket once; a write that
\* fails, as it does on a closed socket, is logged.
Answer(h) ==
    /\ stage[h] = "asked"
    /\ stage' = [stage EXCEPT ![h] = "done"]
    /\ LET r == Reply(mode, pkt[h], res[h]) IN
        \/ r # NoReply /\ open /\ replies' = Append(replies, [from |-> h, reply |-> r])
        \/ UNCHANGED replies
    /\ UNCHANGED <<mode, net, server, pkt, res, backend, ctxDone>>

-----------------------------------------------------------------------------

Serving == Setup \/ Receive \/ ReadClosed
Handling(h) == Ask(h) \/ Answer(h)

Next ==
    \/ \E p \in Pkt \cup {Garbage} : Arrive(p)
    \/ \E m \in Macs : \E a \in AnswersFor(m) : Update(m, a)
    \/ Cancel \/ Serving \/ ReadFails \/ Close
    \/ \E h \in Handlers : Handling(h)

\* Goroutines run; packets, updates, read errors and the end of the context
\* need not come.
Fairness ==
    /\ WF_vars(Serving) /\ WF_vars(Close)
    /\ \A h \in Handlers : WF_vars(Handling(h))

Spec == Init /\ [][Next]_vars /\ Fairness

-----------------------------------------------------------------------------
(* Properties. *)

\* However the goroutines interleave, a packet gets at most one reply, of the
\* type its own message type calls for and to the address it came from.
ReplyToItsRequest ==
    \A i \in 1..Len(replies) :
        LET r == replies[i].reply
            p == arrived[replies[i].from]
        IN  /\ p # Garbage /\ r.type = ReplyType(p.type) /\ r.to = ReplyDestination(p)
            /\ \A j \in 1..Len(replies) : replies[i].from = replies[j].from => i = j

\* A machine is given an address only if, at some time since its packet came,
\* the backend held an enabled record of it, and it is that record's address.
ReservedOnly ==
    mode = "reservation" =>
        \A i \in 1..Len(replies) : \E a \in held[replies[i].from] :
            a.st = "ok" /\ ~a.hw.disabled /\ replies[i].reply.yiaddr = a.hw.ip

\* Outside mode auto-proxy a machine is told what to boot only if, at some time
\* since its packet came, the backend held a record that allows it to netboot.
NetbootGate ==
    mode # "auto-proxy" =>
        \A i \in 1..Len(replies) :
            LET file == replies[i].reply.boot.file IN
            IsBinary(file) \/ IsScript(file) =>
                \E a \in held[replies[i].from] : a.st = "ok" /\ a.hw.allow

\* Once it reads, Serve reports an error only when a read of the open socket
\* failed: that its own context closed the socket under it is not reported.
CleanStop == ret = "readErr" => broken

\* Every goroutine that Serve starts ends.
HandlersFinish ==
    \A h \in Handlers : stage[h] = "new" ~> stage[h] = "done"

\* Serve returns once its context is cancelled.
ServeReturns == ctxDone ~> serve = "returned"
=============================================================================
