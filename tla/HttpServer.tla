----------------------------- MODULE HttpServer -----------------------------
(***************************************************************************)
(* internal/ipxe/http/http.go with the ISO handler behind it: requests are *)
(* served concurrently, a request for an ISO by the reverse proxy of       *)
(* internal/iso/internal/reverseproxy.go whose transport and copy loop are *)
(* iso.Handler's RoundTrip and Copy.  The script handler and the server of *)
(* binaries answer in one step.                                            *)
(*                                                                         *)
(* A request is a record:                                                  *)
(*   route    "iso" or "script";                                           *)
(*   client, sent, via   who sent it, with which X-Forwarded-For header,   *)
(*            through which proxies;                                       *)
(*   path     of an ISO's URL: "ok", "ext" (not .iso), "mac" (no mac), or  *)
(*            "upgrade" if the request asks for an unprintable protocol;   *)
(*   mac      the machine named in the URL;                                *)
(*   lo, hi   the bytes of the image asked for.                            *)
(* The network, the source of the image and the backend are external.  The *)
(* source is taken to say how long its body is (Content-Length or chunks), *)
(* so that one which breaks off gives a read error and not io.EOF.         *)
(***************************************************************************)
EXTENDS Xff, Iso, FiniteSets

CONSTANTS
    Conn,        \* requests served concurrently: a connection has one
    Request,     \* what requests may come on each connection
    NoRequest,
    Mac,         \* machines
    Rec,         \* what a machine's record may contribute to the patch
    Absent,      \* no record
    BufSize,     \* bytes one Read returns at most
    MaxUpdates   \* bound on the changes of records

Requests == UNION {Request[c] : c \in Conn}

ASSUME ConnAssumption == NoRequest \notin Requests /\ Absent \notin Rec
ASSUME BoundsAssumption == BufSize \in Nat \ {0} /\ MaxUpdates \in Nat
ASSUME RecAssumption == \A rec \in Rec : rec \in Seq(Range(rec))
ASSUME RequestAssumption ==
    \A q \in Requests :
        /\ q.client \in Addr /\ q.via \in Seq(Addr) /\ q.sent \in Seq(Range(q.sent))
        /\ q.route = "iso" => q.mac \in Mac /\ q.lo \in 1..q.hi /\ q.hi \in 1..Len(Image)

\* What is read, and what it is patched with.
Byte == {" "} \cup Mac \cup Range(Image) \cup UNION {Range(rec) : rec \in Rec}

VARIABLES
    server,    \* ServeHTTP and the process it is part of
    ctxDone,   \* the context has ended
    req,       \* the request of each connection
    stage,     \* where its handler is
    remote,    \* r.RemoteAddr as the handler sees it
    patch,     \* the patch in the context of the request
    status,    \* the status code sent (0: none yet)
    pos,       \* the next byte of the image to be read from the source
    cuts,      \* where a Read began or ended (history; forgotten if the copy fails)
    got,       \* the body that was written to the client
    records,   \* the backend's records
    held,      \* what the backend held since the request came (history)
    updates    \* changes of records so far

life == <<server, ctxDone>>
handling == <<req, stage, remote, patch, status>>
copying == <<pos, cuts, got>>
backend == <<records, held, updates>>
vars == <<life, handling, copying, backend>>

Running == server # "exited"

\* How a handler ends: it returns, it panics with ErrAbortHandler, which
\* closes the connection, or the process ends under it.
Ended == {"done", "aborted", "cut"}

LifeTypeOK == server \in {"init", "closed", "serving", "returned", "failed", "exited"} /\ ctxDone \in BOOLEAN

StatusCode == {0, 200, 206, 400, 404, 500, 502}
HandlingTypeOK ==
    /\ req \in [Conn -> Requests \cup {NoRequest}]
    /\ stage \in [Conn -> {"idle", "route", "upstream", "copy"} \cup Ended]
    /\ remote \in [Conn -> Addr \cup {""}] /\ patch \in [Conn -> Seq(Byte)]
    /\ status \in [Conn -> StatusCode]

CopyingTypeOK ==
    /\ pos \in [Conn -> 0..(Len(Image) + 1)] /\ cuts \in [Conn -> SUBSET (1..(Len(Image) + 1))]
    /\ got \in [Conn -> Seq(Byte)] /\ \A c \in Conn : Len(got[c]) <= Len(Image)

BackendTypeOK ==
    /\ records \in [Mac -> Rec \cup {Absent}] /\ updates \in 0..MaxUpdates
    /\ held \in [Conn -> SUBSET (Rec \cup {Absent})]

TypeOK == LifeTypeOK /\ HandlingTypeOK /\ CopyingTypeOK /\ BackendTypeOK

Init ==
    /\ server = "init" /\ ctxDone = FALSE
    /\ req = [c \in Conn |-> NoRequest] /\ stage = [c \in Conn |-> "idle"]
    /\ remote = [c \in Conn |-> ""] /\ patch = [c \in Conn |-> <<>>]
    /\ status = [c \in Conn |-> 0]
    /\ pos = [c \in Conn |-> 0] /\ cuts = [c \in Conn |-> {}] /\ got = [c \in Conn |-> <<>>]
    /\ records \in [Mac -> Rec \cup {Absent}] /\ held = [c \in Conn |-> {}] /\ updates = 0

-----------------------------------------------------------------------------
(* The server's life. *)

\* ListenAndServe returns at once if Shutdown came first.
Listen ==
    /\ \/ server = "init" /\ server' \in {"serving", "failed"}
       \/ server = "closed" /\ server' = "returned"
    /\ UNCHANGED <<ctxDone, handling, copying, backend>>

Cancel ==
    /\ Running /\ ~ctxDone /\ ctxDone' = TRUE
    /\ UNCHANGED <<server, handling, copying, backend>>

\* Mutant: the server is shut down only when no request is being served.
ShutdownWhenIdle ==
    /\ ctxDone /\ \A c \in Conn : stage[c] \in Ended \cup {"idle"}
    /\ \/ server = "init" /\ server' = "closed"
       \/ server = "serving" /\ server' = "returned"
    /\ UNCHANGED <<ctxDone, handling, copying, backend>>

\* The goroutine that waits for the context: the listener is closed, which makes
\* ListenAndServe return ErrServerClosed and ServeHTTP nil.  The context given
\* to Shutdown has ended already, so nothing waits for the handlers.
Shutdown ==
    /\ ctxDone
    /\ \/ server = "init" /\ server' = "closed"
       \/ server = "serving" /\ server' = "returned"
    /\ UNCHANGED <<ctxDone, handling, copying, backend>>

\* main returns, or panics, once its services have: handlers are cut off.
Exit ==
    /\ server \in {"returned", "failed"} /\ server' = "exited"
    /\ stage' = [c \in Conn |-> IF stage[c] \in Ended \cup {"idle"} THEN stage[c] ELSE "cut"]
    /\ pos' = [c \in Conn |-> 0] /\ cuts' = [c \in Conn |-> IF stage[c] = "done" THEN cuts[c] ELSE {}]
    /\ UNCHANGED <<ctxDone, req, remote, patch, status, got, backend>>

\* A record is created, changed or deleted.
Update(m, rec) ==
    /\ Running /\ updates < MaxUpdates /\ records[m] # rec
    /\ records' = [records EXCEPT ![m] = rec] /\ updates' = updates + 1
    /\ held' = [c \in Conn |-> IF stage[c] # "idle" /\ req[c].route = "iso" /\ req[c].mac = m
                               THEN held[c] \cup {rec} ELSE held[c]]
    /\ UNCHANGED <<life, handling, copying>>

-----------------------------------------------------------------------------
(* A request. *)

\* The server accepts it and calls xff.Handler, then loggingMiddleware and the
\* mux.
Accept(c, q) ==
    /\ server = "serving" /\ stage[c] = "idle"
    /\ req' = [req EXCEPT ![c] = q]
    /\ remote' = [remote EXCEPT ![c] = RemoteAddr(PeerOf(q.client, q.via), HeaderOf(q.client, q.sent, q.via))]
    /\ stage' = [stage EXCEPT ![c] = "route"]
    /\ held' = [held EXCEPT ![c] = IF q.route = "iso" THEN {records[q.mac]} ELSE {}]
    /\ UNCHANGED <<life, patch, status, copying, records, updates>>

Finish(c, how, code) ==
    /\ stage' = [stage EXCEPT ![c] = how]
    /\ status' = [status EXCEPT ![c] = code]

\* Any handler but the ISO's (see ScriptHandler).
ServeOther(c) ==
    /\ Running /\ stage[c] = "route" /\ req[c].route # "iso"
    /\ Finish(c, "done", 200)
    /\ UNCHANGED <<life, req, remote, patch, copying, backend>>

\* The proxy's ServeHTTP and RoundTrip refuse what they cannot serve: the ISO is
\* served only if the URL names a mac that the backend has a record of.  The
\* backend is asked last and may fail; of the file backend also a missing
\* record is an error of no particular kind.
Refuse(c) ==
    /\ Running /\ stage[c] = "route" /\ req[c].route = "iso"
    /\ \/ req[c].path = "upgrade" /\ Finish(c, "done", 502)
       \/ req[c].path = "ext" /\ Finish(c, "done", 404)
       \/ req[c].path = "mac" /\ Finish(c, "done", 400)
       \/ req[c].path = "ok" /\ Finish(c, "done", 500)
       \/ req[c].path = "ok" /\ records[req[c].mac] = Absent /\ Finish(c, "done", 404)
    /\ UNCHANGED <<life, req, remote, patch, copying, backend>>

\* Mutant: RoundTrip keeps the patch in the handler and not in the context.
RoundTripShared(c) ==
    /\ Running /\ stage[c] = "route" /\ req[c].route = "iso" /\ req[c].path = "ok"
    /\ records[req[c].mac] # Absent
    /\ patch' = [d \in Conn |-> ConstructPatch(req[c].mac, records[req[c].mac])]
    /\ stage' = [stage EXCEPT ![c] = "upstream"]
    /\ UNCHANGED <<life, req, remote, status, copying, backend>>

\* RoundTrip puts the patch in the request's context and asks the source.
RoundTrip(c) ==
    /\ Running /\ stage[c] = "route" /\ req[c].route = "iso" /\ req[c].path = "ok"
    /\ records[req[c].mac] # Absent
    /\ patch' = [patch EXCEPT ![c] = ConstructPatch(req[c].mac, records[req[c].mac])]
    /\ stage' = [stage EXCEPT ![c] = "upstream"]
    /\ UNCHANGED <<life, req, remote, status, copying, backend>>

\* The source cannot be reached, or has no image to give: its own status is
\* passed on, with a body that is no part of the image.
UpstreamError(c) ==
    /\ Running /\ stage[c] = "upstream"
    /\ Finish(c, "done", 502) \/ Finish(c, "done", 404)
    /\ UNCHANGED <<life, req, remote, patch, copying, backend>>

\* The source answers with the bytes asked for.  The proxy sends the header and
\* starts to copy the body.
UpstreamResponse(c) ==
    /\ Running /\ stage[c] = "upstream"
    /\ Finish(c, "copy", IF req[c].lo = 1 /\ req[c].hi = Len(Image) THEN 200 ELSE 206)
    /\ pos' = [pos EXCEPT ![c] = req[c].lo] /\ cuts' = [cuts EXCEPT ![c] = {req[c].lo}]
    /\ UNCHANGED <<life, req, remote, patch, got, backend>>

\* The n bytes that a Read returns, patched.
Chunk(c, n) == PatchChunk(SubSeq(Image, pos[c], pos[c] + n - 1), patch[c])

\* Copy's loop: a Read returns n bytes and no error; they are patched
\* and written.
CopyMore(c, n) ==
    /\ Running /\ stage[c] = "copy" /\ n > 0 /\ pos[c] + n <= req[c].hi + 1
    /\ got' = [got EXCEPT ![c] = @ \o Chunk(c, n)]
    /\ pos' = [pos EXCEPT ![c] = @ + n] /\ cuts' = [cuts EXCEPT ![c] = @ \cup {pos'[c]}]
    /\ UNCHANGED <<life, handling, backend>>

\* A Read returns the last bytes, or none, with io.EOF: Copy returns no error.
\* That io.EOF comes only at the end of the range is what net/http makes of a body
\* whose length the source has given.
CopyEnd(c, n) ==
    /\ Running /\ stage[c] = "copy" /\ pos[c] + n = req[c].hi + 1
    /\ got' = [got EXCEPT ![c] = @ \o Chunk(c, n)]
    /\ pos' = [pos EXCEPT ![c] = @ + n] /\ cuts' = [cuts EXCEPT ![c] = @ \cup {pos'[c]}]
    /\ Finish(c, "done", status[c])
    /\ UNCHANGED <<life, req, remote, patch, backend>>

\* Mutant: an error of Read ends the copy like io.EOF.
CopyReadErrorSwallowed(c, n) ==
    /\ Running /\ stage[c] = "copy" /\ pos[c] + n <= req[c].hi + 1
    /\ got' = [got EXCEPT ![c] = @ \o Chunk(c, n)]
    /\ pos' = [pos EXCEPT ![c] = @ + n] /\ cuts' = [cuts EXCEPT ![c] = @ \cup {pos'[c]}]
    /\ Finish(c, "done", status[c])
    /\ UNCHANGED <<life, req, remote, patch, backend>>

\* A Read returns n bytes, or none, with an error: they are written, and the
\* proxy panics with ErrAbortHandler.
CopyReadError(c, n) ==
    /\ Running /\ stage[c] = "copy" /\ pos[c] + n <= req[c].hi + 1
    /\ got' = [got EXCEPT ![c] = @ \o Chunk(c, n)]
    /\ pos' = [pos EXCEPT ![c] = @ + n] /\ cuts' = [cuts EXCEPT ![c] = {}]
    /\ Finish(c, "aborted", status[c])
    /\ UNCHANGED <<life, req, remote, patch, backend>>

\* The client is gone: some of what was read reaches it, and Write fails.
CopyWriteError(c, n, k) ==
    /\ Running /\ stage[c] = "copy" /\ k < n /\ pos[c] + n <= req[c].hi + 1
    /\ got' = [got EXCEPT ![c] = @ \o SubSeq(Chunk(c, n), 1, k)]
    /\ pos' = [pos EXCEPT ![c] = @ + n] /\ cuts' = [cuts EXCEPT ![c] = {}]
    /\ Finish(c, "aborted", status[c])
    /\ UNCHANGED <<life, req, remote, patch, backend>>

-----------------------------------------------------------------------------

Copying(c) ==
    \/ \E n \in 1..BufSize : CopyMore(c, n)
    \/ \E n \in 0..BufSize : CopyEnd(c, n) \/ CopyReadError(c, n)
    \/ \E n \in 1..BufSize : \E k \in 0..(n - 1) : CopyWriteError(c, n, k)

Next ==
    \/ Listen \/ Cancel \/ Shutdown \/ Exit
    \/ \E m \in Mac, rec \in Rec \cup {Absent} : Update(m, rec)
    \/ \E c \in Conn :
        \/ \E q \in Request[c] : Accept(c, q)
        \/ ServeOther(c) \/ Refuse(c) \/ RoundTrip(c) \/ UpstreamError(c) \/ UpstreamResponse(c)
        \/ Copying(c)

\* ListenAndServe and the goroutine that waits for the context run.  Nothing is
\* assumed of requests, of the source or of how fast it is read.
Fairness == WF_vars(Listen) /\ WF_vars(Shutdown)

Spec == Init /\ [][Next]_vars /\ Fairness

-----------------------------------------------------------------------------
(* Properties. *)

\* A machine whose address is in no trusted subnet is known by that address,
\* whatever header it sent, and through however many trusted proxies its
\* request came: the script handler's lookup by address finds its own record.
ClientAddress ==
    \A c \in Conn : stage[c] # "idle" /\ ~Allowed(req[c].client)
                    /\ (\A i \in 1..Len(req[c].via) : Allowed(req[c].via[i]))
        => remote[c] = req[c].client

IsIso(c) == req[c] # NoRequest /\ req[c].route = "iso"

\* The patch, padded to the length of the magic string.
Padded(p) == CopyInto(Padding, 1, p)

\* What the client gets is the image byte for byte, but that in place of the
\* magic string there may be the patch for this machine, from a record
\* that the backend held since the request came.  A patch that is longer than
\* the magic string writes over what follows, so nothing is claimed for it.
OwnPatchInPlace ==
    \A c \in Conn : IsIso(c) /\ Len(patch[c]) <= Len(Magic) =>
        \E rec \in held[c] : \A i \in 1..Len(got[c]) :
            LET at == req[c].lo + i - 1
            IN  \/ got[c][i] = Image[at]
                \/ /\ rec # Absent
                   /\ \E o \in Occurrences(Image) :
                        /\ at \in o..(o + Len(Magic) - 1)
                        /\ got[c][i] = Padded(ConstructPatch(req[c].mac, rec))[at - o + 1]

\* The magic string at o is in the range that c asks for.
InRange(c, o) == req[c].lo <= o /\ o + Len(Magic) - 1 <= req[c].hi

\* A read boundary falls into the magic string at o, or a read has another one
\* before it.
Missed(c, o) ==
    \/ \E x \in cuts[c] : o < x /\ x < o + Len(Magic)
    \/ \E p \in Occurrences(Image) : p < o /\ req[c].lo <= p /\ \A x \in cuts[c] : x <= p \/ x > o

\* A response that was sent to its end has every magic string in its range
\* replaced by the patch, or by as much of it as there is room for, except for
\* those that Copy does not see whole in one read, or that are not the first in
\* it.
PatchedWhereSeen ==
    \A c \in Conn : IsIso(c) /\ stage[c] = "done" /\ status[c] \in {200, 206} =>
        \A o \in Occurrences(Image) : InRange(c, o) /\ ~Missed(c, o) =>
            SubSeq(got[c], o - req[c].lo + 1, o - req[c].lo + Len(Magic)) = Padded(patch[c])

\* A response that ends like a complete one is complete: a source that breaks
\* off, a client that goes away and the end of the process abort it.  What was
\* sent until then has the length of what was read or less, so that offsets
\* into the image are kept however long the patch is.
CompleteOrAborted ==
    \A c \in Conn : IsIso(c) /\ stage[c] = "done" /\ status[c] \in {200, 206} =>
        Len(got[c]) = req[c].hi - req[c].lo + 1

\* ServeHTTP returns once the context has ended, however long a request takes.
ServerStops == ctxDone ~> server \in {"returned", "failed", "exited"}
=============================================================================
