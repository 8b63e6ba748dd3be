-------------------------------- MODULE Xff --------------------------------
(***************************************************************************)
(* internal/ipxe/http/xff.go: the client's address, resolved from the      *)
(* X-Forwarded-For header of a request that trusted proxies have passed    *)
(* on.  A header is the sequence of its comma-separated entries; an entry  *)
(* that is no address is in no subnet.                                     *)
(***************************************************************************)
EXTENDS Naturals, Sequences

CONSTANTS
    Addr,      \* addresses
    Trusted    \* those in the subnets of --trusted-proxies

ASSUME TrustedAssumption == Trusted \subseteq Addr
ASSUME AddrAssumption == "" \notin Addr

\* xff.allowed; the middleware is installed only if there are subnets.
Allowed(a) == a \in Trusted

\* parse reads the header from its end and stops at the first entry that is
\* not allowed, which it returns, or that is no address, which it does not.
Stops(h) == {i \in 1..Len(h) : ~Allowed(h[i])}

\* Mutant: the header is read from its start.
ParseXffForward(h) ==
    LET first == CHOOSE i \in Stops(h) : \A j \in Stops(h) : i <= j
    IN  IF Stops(h) = {} THEN h[Len(h)] ELSE IF h[first] \in Addr THEN h[first] ELSE ""

\* The result is "" if there is no entry to return.  A single entry is returned
\* if it is an address.
ParseXff(h) ==
    LET last == CHOOSE i \in Stops(h) : \A j \in Stops(h) : i >= j
    IN  IF Stops(h) = {} THEN h[1]
        ELSE IF h[last] \in Addr THEN h[last]
        ELSE IF last < Len(h) THEN h[last + 1] ELSE ""

\* getRemoteAddrIfAllowed, by which xff.Handler replaces RemoteAddr.
RemoteAddr(peer, h) ==
    IF h # <<>> /\ Allowed(peer) /\ ParseXff(h) # "" THEN ParseXff(h) ELSE peer

\* What arrives of a request that its client sent with header h to the first of
\* the proxies in via (external): each appends the address it got the request
\* from, and the last one is the server's peer.
PeerOf(client, via) == IF via = <<>> THEN client ELSE via[Len(via)]
HeaderOf(client, h, via) ==
    IF via = <<>> THEN h ELSE h \o <<client>> \o SubSeq(via, 1, Len(via) - 1)
=============================================================================
