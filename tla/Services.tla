------------------------------ MODULE Services ------------------------------
(***************************************************************************)
(* cmd/smee/main.go: main starts the services one after the other in an    *)
(* errgroup and waits for all of them.  The first error that a service     *)
(* returns ends the context of the others; a signal ends it too.           *)
(*                                                                         *)
(* The services are those of SyslogReceiver, HttpServer and DhcpServer,    *)
(* reduced to how they start and end, and the TFTP server (external).  A   *)
(* panic in any goroutine ends the process; one in main's runs its         *)
(* deferred functions first.  net/http recovers those of its handlers; the *)
(* goroutines of the TFTP library and of controller-runtime are taken not  *)
(* to panic.                                                               *)
(***************************************************************************)
EXTENDS Naturals, FiniteSets

Service == {"syslog", "tftp", "http", "dhcp"}

\* HTTP handlers; a handler of those that use a backend, or the DHCP server.
Handler == {"binary", "script", "iso"}
Reader == {"script", "iso", "dhcp"}

Feature == {"syslog", "tftp", "dhcp"} \cup Handler

CONSTANT Configuration   \* the sets of features that may be enabled

ASSUME ConfigurationAssumption == Configuration \subseteq SUBSET Feature

VARIABLES
    features,  \* what is enabled
    backend,   \* the kind of backend that config.backend chooses (see Backends)
    tracing,   \* where OpenTelemetry is: "off" without an endpoint
    main,      \* where main is
    svc,       \* where each service's goroutine is
    kube,      \* the kube backends whose cache runs in a goroutine
    receiving, \* the syslog receiver's goroutines were started
    handling,  \* the DHCP server has begun to read, and to start handlers
    conn,      \* the DHCP server's socket
    err,       \* the error that the group keeps
    canceled,  \* the group has ended its context
    signal,    \* a signal has ended the parent context
    proc,      \* the process
    reason,    \* which panic ends it
    fault,     \* something that smee depends on has failed (history)
    first      \* the service that failed before the context ended (history)

config == <<features, backend>>
starting == <<main, tracing>>
group == <<svc, err, canceled, first>>
resources == <<kube, receiving, handling, conn>>
ending == <<proc, reason>>
vars == <<config, starting, group, resources, ending, signal, fault>>

NoError == [by |-> "none", kind |-> "nil"]
Deferred == {"traces", "exporter", "end"}

ConfigType == features \in Configuration /\ backend \in {"refused", "noop", "file", "kube"}
StartingType ==
    /\ tracing \in {"off", "unset", "on", "provider down", "down"}
    /\ main \in {"telemetry", "syslog", "tftp", "script", "iso", "http", "dhcp", "wait"} \cup Deferred
GroupType ==
    /\ svc \in [Service -> {"off", "starting", "setup", "serving", "returned"}]
    /\ err \in [by : Service \cup {"none"}, kind : {"nil", "canceled", "setup", "failed"}]
    /\ canceled \in BOOLEAN /\ first \in Service \cup {"none"}
ResourceType ==
    /\ kube \subseteq (IF backend = "kube" THEN features \cap Reader ELSE {})
    /\ receiving \in BOOLEAN /\ handling \in BOOLEAN /\ conn \in {"none", "open", "closed"}
EndingType ==
    /\ proc \in {"running", "exited", "panicked"}
    /\ reason \in {"none", "main", "group", "kube", "bind", "send", "datagram", "packet"}

TypeOK ==
    /\ ConfigType /\ StartingType /\ GroupType /\ ResourceType /\ EndingType
    /\ signal \in BOOLEAN /\ fault \in BOOLEAN

Init ==
    /\ features \in Configuration /\ backend \in {"refused", "noop", "file", "kube"}
    /\ tracing \in {"off", "unset"} /\ main = "telemetry"
    /\ svc = [s \in Service |-> "off"] /\ kube = {} /\ receiving = FALSE /\ handling = FALSE /\ conn = "none"
    /\ err = NoError /\ canceled = FALSE /\ signal = FALSE
    /\ proc = "running" /\ reason = "none" /\ fault = FALSE /\ first = "none"

Running == proc = "running"

\* The context of the services has ended.
Done == signal \/ canceled

Signal ==
    /\ Running /\ ~signal /\ signal' = TRUE
    /\ UNCHANGED <<config, starting, group, resources, ending, fault>>

\* A panic outside main's goroutine.
Die(why) == proc' = "panicked" /\ reason' = why

-----------------------------------------------------------------------------
(* main. *)

\* main panics, over something that is wrong with the configuration or the
\* machine: its deferred functions run first.
MainPanics == main' = "traces" /\ reason' = "main" /\ fault' = TRUE /\ UNCHANGED proc

Spawn(s) == svc' = [svc EXCEPT ![s] = "starting"] /\ UNCHANGED <<err, canceled, first>>

\* otel.Init: with an endpoint, resource and exporter may fail to be created.
InitTelemetry ==
    /\ Running /\ main = "telemetry"
    /\ \/ /\ tracing' = (IF tracing = "unset" THEN "on" ELSE tracing)
          /\ main' = "syslog" /\ UNCHANGED <<ending, fault>>
       \/ tracing = "unset" /\ MainPanics /\ UNCHANGED tracing
    /\ UNCHANGED <<config, group, resources, signal>>

\* A service that needs nothing to be created first; a bind address that cannot
\* be parsed is fatal for TFTP, trusted proxies that cannot be are for HTTP.
StartSyslog ==
    /\ Running /\ main = "syslog" /\ main' = "tftp"
    /\ IF "syslog" \in features THEN Spawn("syslog") ELSE UNCHANGED group
    /\ UNCHANGED <<config, tracing, resources, ending, signal, fault>>

StartTftp ==
    /\ Running /\ main = "tftp"
    /\ \/ /\ main' = "script" /\ UNCHANGED <<ending, fault>>
          /\ IF "tftp" \in features THEN Spawn("tftp") ELSE UNCHANGED group
       \/ "tftp" \in features /\ MainPanics /\ UNCHANGED group
    /\ UNCHANGED <<config, tracing, resources, signal>>

\* config.backend: each caller gets a backend of its own, and the cache of one
\* of kind kube is started in a goroutine.
NewBackend(r) == kube' = IF backend = "kube" THEN kube \cup {r} ELSE kube

\* Mutant: the backend is created before it is asked whether the handler is
\* enabled, and nobody uses it then.
AddHandlerEager(h, next) ==
    /\ Running /\ main = h
    /\ \/ backend # "refused" /\ NewBackend(h) /\ main' = next /\ UNCHANGED <<ending, fault>>
       \/ backend # "noop" /\ MainPanics /\ UNCHANGED kube
    /\ UNCHANGED <<config, tracing, group, receiving, handling, conn, signal>>

\* The script's and the ISO's handler.  The backend may fail to be created, and
\* the ISO's URL to be parsed.
AddHandler(h, next) ==
    /\ Running /\ main = h
    /\ \/ h \notin features /\ main' = next /\ UNCHANGED <<kube, ending, fault>>
       \/ h \in features /\ backend # "refused" /\ NewBackend(h) /\ main' = next /\ UNCHANGED <<ending, fault>>
       \/ h \in features /\ backend # "noop" /\ MainPanics /\ UNCHANGED kube
       \/ h = "iso" /\ h \in features /\ backend # "refused" /\ NewBackend(h) /\ MainPanics
    /\ UNCHANGED <<config, tracing, group, receiving, handling, conn, signal>>

StartHttp ==
    /\ Running /\ main = "http"
    /\ \/ /\ main' = "dhcp" /\ UNCHANGED <<ending, fault>>
          /\ IF features \cap Handler # {} THEN Spawn("http") ELSE UNCHANGED group
       \/ features \cap Handler # {} /\ MainPanics /\ UNCHANGED group
    /\ UNCHANGED <<config, tracing, resources, signal>>

\* dhcpHandler checks some of its configuration before it creates the backend
\* and the rest after.
StartDhcp ==
    /\ Running /\ main = "dhcp"
    /\ \/ "dhcp" \notin features /\ main' = "wait" /\ UNCHANGED <<group, kube, ending, fault>>
       \/ /\ "dhcp" \in features /\ backend # "refused" /\ NewBackend("dhcp") /\ UNCHANGED <<ending, fault>>
          /\ main' = "wait" /\ Spawn("dhcp")
       \/ "dhcp" \in features /\ MainPanics /\ UNCHANGED <<group, kube>>
       \/ "dhcp" \in features /\ backend # "refused" /\ NewBackend("dhcp") /\ MainPanics /\ UNCHANGED group
    /\ UNCHANGED <<config, tracing, receiving, handling, conn, signal>>

\* Mutant: main waits for the context and not for the services.
WaitForContext ==
    /\ Running /\ main = "wait" /\ Done
    /\ main' = "traces" /\ canceled' = TRUE
    /\ reason' = IF err.kind \in {"nil", "canceled"} THEN "none" ELSE "group"
    /\ UNCHANGED <<config, tracing, svc, err, first, resources, proc, signal, fault>>

\* g.Wait: all services have returned.  It ends the context.
Wait ==
    /\ Running /\ main = "wait" /\ \A s \in Service : svc[s] \in {"off", "returned"}
    /\ main' = "traces" /\ canceled' = TRUE
    /\ reason' = IF err.kind \in {"nil", "canceled"} THEN "none" ELSE "group"
    /\ UNCHANGED <<config, tracing, svc, err, first, resources, proc, signal, fault>>

\* The deferred functions: otelShutdown, which gives the tracer provider and
\* then the exporter five seconds and only logs what goes wrong; and done.
ShutdownTraces ==
    /\ Running /\ main = "traces" /\ main' = "exporter"
    /\ tracing' = (IF tracing = "on" THEN "provider down" ELSE tracing)
    /\ UNCHANGED <<config, group, resources, ending, signal, fault>>

ShutdownExporter ==
    /\ Running /\ main = "exporter" /\ main' = "end"
    /\ tracing' = (IF tracing = "provider down" THEN "down" ELSE tracing)
    /\ UNCHANGED <<config, group, resources, ending, signal, fault>>

End ==
    /\ Running /\ main = "end"
    /\ proc' = IF reason = "none" THEN "exited" ELSE "panicked"
    /\ UNCHANGED <<config, starting, group, resources, reason, signal, fault>>

Main ==
    \/ InitTelemetry \/ StartSyslog \/ StartTftp
    \/ AddHandler("script", "iso") \/ AddHandler("iso", "http")
    \/ StartHttp \/ StartDhcp \/ Wait \/ ShutdownTraces \/ ShutdownExporter \/ End

-----------------------------------------------------------------------------
(* The services. *)

\* Mutant: the group keeps the last error.
ReturnKeepingLast(s, kind) ==
    /\ svc' = [svc EXCEPT ![s] = "returned"]
    /\ err' = IF kind # "nil" THEN [by |-> s, kind |-> kind] ELSE err
    /\ canceled' = (canceled \/ kind # "nil")
    /\ first' = IF kind = "failed" /\ ~Done THEN s ELSE first

\* errgroup (external): the first error is kept and ends the context.
Return(s, kind) ==
    /\ svc' = [svc EXCEPT ![s] = "returned"]
    /\ err' = IF kind # "nil" /\ err = NoError THEN [by |-> s, kind |-> kind] ELSE err
    /\ canceled' = (canceled \/ kind # "nil")
    /\ first' = IF kind = "failed" /\ ~Done THEN s ELSE first

\* A service returns because something it depends on has failed.
Fail(s) ==
    /\ Return(s, "failed") /\ fault' = TRUE
    /\ UNCHANGED <<config, starting, resources, ending, signal>>

Serve(s) == svc' = [svc EXCEPT ![s] = "serving"] /\ UNCHANGED <<err, canceled, first>>

\* syslog: StartReceiver either fails or leaves goroutines behind.
SyslogStarts ==
    /\ Running /\ svc["syslog"] = "starting"
    /\ Serve("syslog") /\ receiving' = TRUE
    /\ UNCHANGED <<config, starting, kube, handling, conn, ending, signal, fault>>

\* Nothing waits for the receiver's goroutines.
SyslogStops ==
    /\ Running /\ svc["syslog"] = "serving" /\ Done
    /\ Return("syslog", "nil")
    /\ UNCHANGED <<config, starting, resources, ending, signal, fault>>

\* run sends on the channel that cleanup has closed (SendPanics in
\* SyslogReceiver).
ReceiverPanics ==
    /\ Running /\ receiving /\ Done
    /\ Die("send")
    /\ UNCHANGED <<config, starting, group, resources, signal, fault>>

\* parse panics over a datagram that ends within its priority (stage "panic" of
\* SyslogMessage): nothing recovers it in the parser's goroutine.
ParserPanics ==
    /\ Running /\ receiving
    /\ Die("datagram")
    /\ UNCHANGED <<config, starting, group, resources, signal, fault>>

Listens(s) ==
    /\ Running /\ svc[s] = "starting" /\ Serve(s)
    /\ UNCHANGED <<config, starting, resources, ending, signal, fault>>

\* ListenAndServe of the TFTP server (external) and of the HTTP server: Shutdown
\* makes the latter return ErrServerClosed, and ServeHTTP no error.
ListenFails(s) == Running /\ svc[s] \in {"starting", "serving"} /\ Fail(s)

ListenStops(s, kind) ==
    /\ Running /\ svc[s] \in {"starting", "serving"} /\ Done
    /\ s = "http" => kind = "nil"
    /\ Return(s, kind)
    /\ UNCHANGED <<config, starting, resources, ending, signal, fault>>

\* DHCP: without an address or a socket the goroutine panics.
DhcpPanics ==
    /\ Running /\ svc["dhcp"] = "starting"
    /\ Die("bind") /\ fault' = TRUE
    /\ UNCHANGED <<config, starting, group, resources, signal>>

DhcpBinds ==
    /\ Running /\ svc["dhcp"] = "starting"
    /\ svc' = [svc EXCEPT !["dhcp"] = "setup"] /\ conn' = "open"
    /\ UNCHANGED <<config, starting, err, canceled, first, kube, receiving, handling, ending, signal, fault>>

\* Mutant: the socket is closed only if no packet is waited for.
DhcpClosesBeforeServing ==
    /\ Running /\ svc["dhcp"] = "setup" /\ conn = "open" /\ Done
    /\ conn' = "closed"
    /\ UNCHANGED <<config, starting, group, kube, receiving, handling, ending, signal, fault>>

\* Serve's goroutine that waits for the context.
DhcpCloses ==
    /\ Running /\ svc["dhcp"] \in {"setup", "serving"} /\ conn = "open" /\ Done
    /\ conn' = "closed"
    /\ UNCHANGED <<config, starting, group, kube, receiving, handling, ending, signal, fault>>

\* SetControlMessage: its error is returned, also that of a socket which the
\* end of the context has closed.
DhcpSetup ==
    /\ Running /\ svc["dhcp"] = "setup"
    /\ \/ conn = "open" /\ Serve("dhcp") /\ handling' = TRUE /\ UNCHANGED <<conn, fault>>
       \/ conn = "open" /\ Return("dhcp", "failed") /\ conn' = "closed" /\ fault' = TRUE /\ UNCHANGED handling
       \/ conn = "closed" /\ Return("dhcp", "setup") /\ UNCHANGED <<handling, conn, fault>>
    /\ UNCHANGED <<config, starting, kube, receiving, ending, signal>>

\* Mutant: Serve returns any error of ReadFrom.
DhcpReadFailsAlways ==
    /\ Running /\ svc["dhcp"] = "serving"
    /\ Return("dhcp", "failed") /\ conn' = "closed" /\ fault' = (fault \/ ~Done)
    /\ UNCHANGED <<config, starting, kube, receiving, handling, ending, signal>>

\* ReadFrom fails, as it does once the socket is closed and as it may at any
\* time: it is an error only if the context has not ended.
DhcpReadFails ==
    /\ Running /\ svc["dhcp"] = "serving"
    /\ Return("dhcp", IF Done THEN "nil" ELSE "failed") /\ conn' = "closed" /\ fault' = (fault \/ ~Done)
    /\ UNCHANGED <<config, starting, kube, receiving, handling, ending, signal>>

\* A handler panics over its packet or the record found for it, as the kube
\* backend does over an interface that lacks a part (Scan in KubeBackend).
\* Nothing recovers it, and handlers outlive Serve.
HandlerPanics ==
    /\ Running /\ handling
    /\ Die("packet")
    /\ UNCHANGED <<config, starting, group, resources, signal, fault>>

\* The goroutine of a kube backend: an error of Start is fatal.
KubeFails(r) ==
    /\ Running /\ r \in kube /\ Die("kube") /\ fault' = TRUE
    /\ UNCHANGED <<config, starting, group, resources, signal>>

KubeStops(r) ==
    /\ Running /\ r \in kube /\ Done /\ kube' = kube \ {r}
    /\ UNCHANGED <<config, starting, group, receiving, handling, conn, ending, signal, fault>>

-----------------------------------------------------------------------------

Stops(s) == \E kind \in {"nil", "canceled"} : ListenStops(s, kind)
Syslog == SyslogStarts \/ SyslogStops
Dhcp == DhcpBinds \/ DhcpSetup \/ (conn = "closed" /\ DhcpReadFails)

Failures ==
    \/ svc["syslog"] = "starting" /\ Running /\ Fail("syslog")
    \/ ListenFails("tftp") \/ ListenFails("http") \/ DhcpPanics \/ DhcpReadFails
    \/ ReceiverPanics \/ ParserPanics \/ HandlerPanics
    \/ \E r \in Reader : KubeFails(r)

Next ==
    \/ Signal \/ Main \/ Syslog
    \/ \E s \in {"tftp", "http"} : Listens(s) \/ Stops(s)
    \/ Dhcp \/ DhcpCloses
    \/ \E r \in Reader : KubeStops(r)
    \/ Failures

\* Every goroutine runs, and TFTP's ListenAndServe returns when its context has
\* ended.  Signals and failures need not come.
Fairness ==
    /\ WF_vars(Main) /\ WF_vars(Syslog) /\ WF_vars(Dhcp) /\ WF_vars(DhcpCloses)
    /\ \A s \in {"tftp", "http"} : WF_vars(Stops(s))

Spec == Init /\ [][Next]_vars /\ Fairness

-----------------------------------------------------------------------------
(* Properties. *)

\* The process exits without a panic only if it was asked to, or has nothing to
\* do: then every service that was started has returned, and the traces were
\* handed to the exporter before that was shut down.
OrderlyEnd ==
    proc = "exited" =>
        /\ signal \/ features = {}
        /\ \A s \in Service : svc[s] \in {"off", "returned"}
        /\ tracing \in {"off", "down"}

\* A service that fails while the others run is what the process ends with,
\* whatever the others return when their context ends: its error is neither
\* replaced by a consequence of it nor lost in context.Canceled.
FailureReported ==
    first # "none" /\ proc # "running" =>
        /\ proc = "panicked"
        /\ reason = "group" => err.by = first

\* If nothing that smee depends on has failed, and no goroutine has panicked
\* over the datagram, packet or record it was working on, then only a signal
\* ends the process in a panic, by one of two races: the DHCP server was still
\* setting up its socket when it was closed, or the syslog receiver was about
\* to hand over a datagram.
StopIsOrderly ==
    proc = "panicked" /\ ~fault /\ reason \notin {"datagram", "packet"} =>
        /\ signal
        /\ \/ reason = "send"
           \/ reason = "group" /\ err = [by |-> "dhcp", kind |-> "setup"]

\* The services end as a whole: once there was a signal, or one of them has
\* returned for whatever reason, the process ends.
EndsAsAWhole == (signal \/ \E s \in Service : svc[s] = "returned") ~> proc # "running"
=============================================================================
