------------------------------ MODULE SyslogLog ------------------------------
(***************************************************************************)
(* What the syslog server promises of the datagrams it has read from its   *)
(* socket: each is logged once, as it was read, in the order of arrival if *)
(* there is one parser, and none is forgotten unless the process crashes.  *)
(* Goroutines, channel and pooled buffers are SyslogReceiver's business.   *)
(***************************************************************************)
EXTENDS Naturals, Sequences

CONSTANTS
    Datagram,  \* datagrams, numbered in the order of their arrival
    Ordered    \* the log keeps that order

VARIABLES
    last,      \* the last datagram that was read (0: none)
    pending,   \* datagrams that were read and are not logged yet
    log,       \* what is logged
    up         \* the process runs

vars == <<last, pending, log, up>>

Init == last = 0 /\ pending = {} /\ log = <<>> /\ up = TRUE

\* A datagram is read; some that came before it may have been dropped.
Accept(d) ==
    /\ up /\ d > last
    /\ last' = d /\ pending' = pending \cup {d}
    /\ UNCHANGED <<log, up>>

Emit(d) ==
    /\ up /\ d \in pending
    /\ Ordered => \A e \in pending : d <= e
    /\ log' = Append(log, d) /\ pending' = pending \ {d}
    /\ UNCHANGED <<last, up>>

Crash == up /\ up' = FALSE /\ UNCHANGED <<last, pending, log>>

Next == Crash \/ \E d \in Datagram : Accept(d) \/ Emit(d)

\* Nothing is pending for ever.
Progress == \A d \in Datagram : d \in pending ~> (d \notin pending \/ ~up)

Safety == Init /\ [][Next]_vars
Spec == Safety /\ Progress
=============================================================================
