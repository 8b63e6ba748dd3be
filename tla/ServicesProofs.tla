--------------------------- MODULE ServicesProofs ---------------------------
(***************************************************************************)
(* How the process ends, for every set of features, every order in which   *)
(* the services start, fail and return, and every moment of a signal.      *)
(***************************************************************************)
EXTENDS Services, TLAPS

\* main has started what it has come past.
Started ==
    /\ features = {} => \A s \in Service : svc[s] = "off"
    /\ receiving => svc["syslog"] # "off"
    /\ main \notin {"telemetry", "syslog"} \cup Deferred /\ "syslog" \in features => svc["syslog"] # "off"
    /\ main \in {"script", "iso", "http", "dhcp", "wait"} /\ "tftp" \in features => svc["tftp"] # "off"
    /\ main \in {"dhcp", "wait"} /\ features \cap Handler # {} => svc["http"] # "off"
    /\ main = "wait" /\ "dhcp" \in features => svc["dhcp"] # "off"

\* What the error that the group keeps tells of how it came about.
Kept ==
    /\ ~canceled => err = NoError
    /\ first # "none" => err = [by |-> first, kind |-> "failed"]
    /\ err.kind = "failed" => fault
    /\ err.kind = "canceled" => signal
    /\ err.kind = "setup" => err.by = "dhcp" /\ (signal \/ fault)

\* The context does not end, and no service returns, without a cause.
Caused ==
    /\ canceled /\ err.kind = "nil" => main \in Deferred /\ \A s \in Service : svc[s] \in {"off", "returned"}
    /\ canceled /\ ~fault => signal \/ features = {}
    /\ \A s \in Service : svc[s] = "returned" => signal \/ err.kind # "nil"
    /\ svc["dhcp"] = "setup" /\ conn = "closed" => Done

\* How far the tracing is, unless main panics.
Traced ==
    proc # "panicked" /\ reason # "main" =>
        /\ main = "telemetry" => tracing \in {"off", "unset"}
        /\ main \notin {"telemetry", "exporter", "end"} => tracing \in {"off", "on"}
        /\ main = "exporter" => tracing \in {"off", "provider down"}
        /\ main = "end" => tracing \in {"off", "down"}

\* main's deferred functions run because it panics, or because the services have
\* ended; then the reason is the group's error.
Reasons ==
    /\ main \in Deferred /\ reason = "none" =>
         /\ \A s \in Service : svc[s] \in {"off", "returned"}
         /\ err.kind \in {"nil", "canceled"}
         /\ signal \/ features = {}
    /\ proc = "running" => reason \in (IF main \in Deferred THEN {"none", "main", "group"} ELSE {"none"})
    /\ proc = "exited" => reason = "none" /\ main = "end"
    /\ proc = "panicked" => reason # "none"
    /\ reason \in {"main", "kube", "bind"} => fault
    /\ reason = "group" => err.kind \in {"setup", "failed"}
    /\ reason = "send" => signal \/ fault

\* The inductive invariant.
ServicesInv == TypeOK /\ Started /\ Kept /\ Caused /\ Traced /\ Reasons

-----------------------------------------------------------------------------

\* The process starts with nothing started and nothing wrong.
LEMMA ServicesInit == Init => ServicesInv
<1> SUFFICES ASSUME Init PROVE ServicesInv
  OBVIOUS
<1> USE DEF Init
<1>1. /\ canceled \in BOOLEAN /\ signal \in BOOLEAN /\ fault \in BOOLEAN
      /\ receiving \in BOOLEAN /\ handling \in BOOLEAN
  BY Zenon
<1>2. ConfigType /\ StartingType /\ GroupType /\ ResourceType /\ EndingType
  BY <1>1 DEF ConfigType, StartingType, GroupType, ResourceType, EndingType, NoError
<1>3. Started /\ Kept /\ Caused /\ Traced /\ Reasons
  BY DEF Started, Kept, Caused, Traced, Reasons, Deferred, NoError, Service, Done
<1> QED BY <1>1, <1>2, <1>3 DEF ServicesInv, TypeOK

\* A service that is running returns, and not without a cause.
Returns(s, kind) ==
    /\ Return(s, kind) /\ svc[s] \notin {"off", "returned"}
    /\ kind \in {"nil", "canceled"} => Done
    /\ kind = "setup" => s = "dhcp" /\ svc["dhcp"] = "setup" /\ conn = "closed"
    /\ kind = "failed" => fault'
    /\ UNCHANGED <<starting, ending, signal>>

Begins(s) ==
    \/ Spawn(s) /\ features # {} /\ main \notin Deferred
    \/ Serve(s) /\ svc[s] \notin {"off", "returned"}

\* What a step does to the group: a service is started, serves or returns, or
\* main has waited for all of them.
LEMMA GroupSteps ==
    ASSUME [Next]_vars
    PROVE  \/ UNCHANGED group
           \/ \E s \in Service : Begins(s)
           \/ \E s \in Service, kind \in {"nil", "canceled", "setup", "failed"} : Returns(s, kind)
           \/ DhcpBinds \/ Wait
<1> DEFINE Does == \/ UNCHANGED group
                   \/ \E s \in Service : Begins(s)
                   \/ \E s \in Service, kind \in {"nil", "canceled", "setup", "failed"} : Returns(s, kind)
                   \/ DhcpBinds \/ Wait
<1>0. "syslog" \in Service /\ "tftp" \in Service /\ "http" \in Service /\ "dhcp" \in Service
  BY DEF Service
<1>1. CASE Signal \/ Main
  BY <1>0, <1>1 DEF Signal, Main, InitTelemetry, StartSyslog, StartTftp, AddHandler, StartHttp, StartDhcp,
     ShutdownTraces, ShutdownExporter, End, group, Begins, Deferred
<1>2. CASE Syslog
  BY <1>0, <1>2 DEF Syslog, SyslogStarts, SyslogStops, Begins, Returns
<1>3. ASSUME NEW s \in {"tftp", "http"}, Listens(s) \/ Stops(s) PROVE Does
  BY <1>0, <1>3 DEF Listens, Stops, ListenStops, Begins, Returns
<1>4. CASE DhcpCloses \/ \E r \in Reader : KubeStops(r)
  BY <1>4 DEF DhcpCloses, KubeStops
<1>5. CASE DhcpSetup
  BY <1>0, <1>5 DEF DhcpSetup, Begins, Returns
<1>6. CASE DhcpReadFails
  <2>1. CASE Done
    BY <1>0, <1>6, <2>1 DEF DhcpReadFails, Returns
  <2>2. CASE ~Done
    BY <1>0, <1>6, <2>2 DEF DhcpReadFails, Returns
  <2> QED BY <2>1, <2>2
<1>7. CASE Failures
  <2>1. CASE svc["syslog"] = "starting" /\ Running /\ Fail("syslog")
    BY <1>0, <2>1 DEF Fail, Returns
  <2>2. ASSUME NEW s \in {"tftp", "http"}, ListenFails(s) PROVE Does
    BY <1>0, <2>2 DEF ListenFails, Fail, Returns
  <2>3. CASE DhcpPanics \/ ReceiverPanics \/ ParserPanics \/ HandlerPanics \/ \E r \in Reader : KubeFails(r)
    BY <2>3 DEF DhcpPanics, ReceiverPanics, ParserPanics, HandlerPanics, KubeFails
  <2> QED BY <1>6, <1>7, <2>1, <2>2, <2>3 DEF Failures
<1>8. CASE UNCHANGED vars
  BY <1>8 DEF vars
<1> QED BY <1>1, <1>2, <1>3, <1>4, <1>5, <1>6, <1>7, <1>8 DEF Next, Dhcp

\* The flags never change, and only main goes on in main.
LEMMA MainSteps == [Next]_vars => UNCHANGED config /\ (Main \/ UNCHANGED starting)
<1> SUFFICES ASSUME [Next]_vars PROVE UNCHANGED config /\ (Main \/ UNCHANGED starting)
  OBVIOUS
<1>1. CASE Main
  BY <1>1 DEF Main, InitTelemetry, StartSyslog, StartTftp, AddHandler, StartHttp, StartDhcp, Wait,
     ShutdownTraces, ShutdownExporter, End, config
<1>2. CASE Signal \/ Syslog
  BY <1>2 DEF Signal, Syslog, SyslogStarts, SyslogStops
<1>3. ASSUME NEW s \in {"tftp", "http"}, Listens(s) \/ Stops(s)
      PROVE  UNCHANGED config /\ UNCHANGED starting
  BY <1>3 DEF Listens, Stops, ListenStops
<1>4. CASE Dhcp \/ DhcpCloses \/ \E r \in Reader : KubeStops(r)
  BY <1>4 DEF Dhcp, DhcpBinds, DhcpSetup, DhcpReadFails, DhcpCloses, KubeStops
<1>5. CASE Failures
  BY <1>5 DEF Failures, Fail, ListenFails, DhcpPanics, DhcpReadFails, ReceiverPanics, ParserPanics,
     HandlerPanics, KubeFails
<1>6. CASE UNCHANGED vars
  BY <1>6 DEF vars
<1> QED BY <1>1, <1>2, <1>3, <1>4, <1>5, <1>6 DEF Next

\* Which steps change the backends' goroutines, the receiver's and the socket.
LEMMA ResourceSteps ==
    ASSUME [Next]_vars
    PROVE  \/ UNCHANGED resources
           \/ AddHandler("script", "iso") \/ AddHandler("iso", "http") \/ StartDhcp
           \/ SyslogStarts \/ DhcpBinds \/ DhcpCloses \/ DhcpSetup \/ DhcpReadFails
           \/ \E r \in Reader : KubeStops(r)
<1>1. CASE Signal \/ Main
  BY <1>1 DEF Signal, Main, InitTelemetry, StartSyslog, StartTftp, StartHttp, Wait, ShutdownTraces,
     ShutdownExporter, End
<1>2. CASE Syslog
  BY <1>2 DEF Syslog, SyslogStops
<1>3. ASSUME NEW s \in {"tftp", "http"}, Listens(s) \/ Stops(s) PROVE UNCHANGED resources
  BY <1>3 DEF Listens, Stops, ListenStops
<1>4. CASE Dhcp \/ DhcpCloses
  BY <1>4 DEF Dhcp
<1>5. CASE Failures
  BY <1>5 DEF Failures, Fail, ListenFails, DhcpPanics, ReceiverPanics, ParserPanics, HandlerPanics, KubeFails
<1>6. CASE UNCHANGED vars
  BY <1>6 DEF vars
<1> QED BY <1>1, <1>2, <1>3, <1>4, <1>5, <1>6 DEF Next

\* What a step does to the process and its history.
LEMMA EndingSteps ==
    ASSUME [Next]_vars
    PROVE  \/ UNCHANGED <<ending, signal, fault>>
           \/ UNCHANGED <<ending, fault>> /\ signal' = TRUE
           \/ UNCHANGED <<ending, signal>> /\ fault' = TRUE
           \/ UNCHANGED <<proc, signal>> /\ fault' = TRUE /\ main' = "traces" /\ reason' = "main"
           \/ UNCHANGED signal /\ fault' = TRUE /\ proc' = "panicked" /\ reason' \in {"kube", "bind"}
           \/ UNCHANGED <<signal, fault>> /\ proc' = "panicked" /\ reason' \in {"datagram", "packet"}
           \/ ReceiverPanics
           \/ Wait \/ End \/ DhcpReadFails
<1> SUFFICES ASSUME [Next]_vars, ~Wait, ~End, ~DhcpReadFails
             PROVE  \/ UNCHANGED <<ending, signal, fault>>
                    \/ UNCHANGED <<ending, fault>> /\ signal' = TRUE
                    \/ UNCHANGED <<ending, signal>> /\ fault' = TRUE
                    \/ UNCHANGED <<proc, signal>> /\ fault' = TRUE /\ main' = "traces" /\ reason' = "main"
                    \/ UNCHANGED signal /\ fault' = TRUE /\ proc' = "panicked" /\ reason' \in {"kube", "bind"}
                    \/ UNCHANGED <<signal, fault>> /\ proc' = "panicked" /\ reason' \in {"datagram", "packet"}
                    \/ ReceiverPanics
  OBVIOUS
<1> USE DEF ending
<1>1. CASE Signal \/ Main
  BY <1>1 DEF Signal, Main, InitTelemetry, StartSyslog, StartTftp, AddHandler, StartHttp, StartDhcp,
     ShutdownTraces, ShutdownExporter, MainPanics
<1>2. CASE Syslog
  BY <1>2 DEF Syslog, SyslogStarts, SyslogStops
<1>3. ASSUME NEW s \in {"tftp", "http"}, Listens(s) \/ Stops(s)
      PROVE  UNCHANGED <<ending, signal, fault>>
  BY <1>3 DEF Listens, Stops, ListenStops
<1>4. CASE Dhcp \/ DhcpCloses \/ \E r \in Reader : KubeStops(r)
  BY <1>4 DEF Dhcp, DhcpBinds, DhcpSetup, DhcpCloses, KubeStops
<1>5. CASE Failures
  BY <1>5 DEF Failures, Fail, ListenFails, DhcpPanics, ParserPanics, HandlerPanics, KubeFails, Die
<1>6. CASE UNCHANGED vars
  BY <1>6 DEF vars
<1> QED BY <1>1, <1>2, <1>3, <1>4, <1>5, <1>6 DEF Next

\* Every step keeps the state well typed.
LEMMA TypeStep == TypeOK /\ [Next]_vars => TypeOK'
<1> SUFFICES ASSUME TypeOK, [Next]_vars PROVE TypeOK'
  OBVIOUS
<1>0. UNCHANGED <<features, backend>>
  BY MainSteps DEF config
<1>1. GroupType'
  <2>0. canceled \in BOOLEAN
    BY DEF TypeOK, GroupType
  <2>1. CASE UNCHANGED group
    BY <2>1 DEF TypeOK, GroupType, group
  <2>2. ASSUME NEW s \in Service, Begins(s) PROVE GroupType'
    BY <2>2 DEF TypeOK, GroupType, Begins, Spawn, Serve
  <2>3. ASSUME NEW s \in Service, NEW kind \in {"nil", "canceled", "setup", "failed"}, Returns(s, kind)
        PROVE  GroupType'
    <3>1. canceled' \in BOOLEAN
      BY <2>0, <2>3, Zenon DEF Returns, Return
    <3>2. err' \in [by : Service \cup {"none"}, kind : {"nil", "canceled", "setup", "failed"}]
      BY <2>3 DEF TypeOK, GroupType, Returns, Return
    <3> QED BY <2>3, <3>1, <3>2 DEF TypeOK, GroupType, Returns, Return
  <2>4. CASE DhcpBinds
    BY <2>4 DEF TypeOK, GroupType, DhcpBinds
  <2>5. CASE Wait
    BY <2>5 DEF TypeOK, GroupType, Wait
  <2> QED BY <2>1, <2>2, <2>3, <2>4, <2>5, GroupSteps
<1>2. ConfigType'
  BY <1>0 DEF TypeOK, ConfigType
<1>3. StartingType'
  <2>1. CASE UNCHANGED starting
    BY <2>1 DEF TypeOK, StartingType, starting
  <2>2. CASE Main
    BY <2>2 DEF Main, InitTelemetry, StartSyslog, StartTftp, AddHandler, StartHttp, StartDhcp, Wait,
       ShutdownTraces, ShutdownExporter, End, MainPanics, TypeOK, StartingType, Deferred, starting
  <2> QED BY <2>1, <2>2, MainSteps
<1>4. ResourceType'
  <2>1. CASE UNCHANGED resources
    BY <1>0, <2>1 DEF TypeOK, ResourceType, resources
  <2>2. CASE AddHandler("script", "iso") \/ AddHandler("iso", "http") \/ StartDhcp
    BY <1>0, <2>2 DEF AddHandler, StartDhcp, NewBackend, TypeOK, ResourceType, Reader
  <2>3. CASE SyslogStarts \/ DhcpBinds \/ DhcpCloses \/ DhcpSetup \/ DhcpReadFails \/ \E r \in Reader : KubeStops(r)
    BY <1>0, <2>3 DEF SyslogStarts, DhcpBinds, DhcpCloses, DhcpSetup, DhcpReadFails, KubeStops, TypeOK, ResourceType
  <2> QED BY <2>1, <2>2, <2>3, ResourceSteps
<1>5. EndingType' /\ signal' \in BOOLEAN /\ fault' \in BOOLEAN
  <2>0. signal \in BOOLEAN /\ fault \in BOOLEAN
    BY DEF TypeOK
  <2>1. CASE Wait
    BY <2>0, <2>1 DEF Wait, TypeOK, EndingType
  <2>2. CASE End
    BY <2>0, <2>2 DEF End, TypeOK, EndingType
  <2>3. CASE DhcpReadFails
    <3>1. fault' \in BOOLEAN
      BY <2>0, <2>3, Zenon DEF DhcpReadFails
    <3> QED BY <2>3, <3>1 DEF DhcpReadFails, TypeOK, EndingType, ending
  <2>4. CASE ~Wait /\ ~End /\ ~DhcpReadFails
    <3>1. EndingType'
      BY <2>4, EndingSteps DEF TypeOK, EndingType, ending, ReceiverPanics, Die
    <3>2. (signal' = signal \/ signal' = TRUE) /\ (fault' = fault \/ fault' = TRUE)
      BY <2>4, EndingSteps DEF ReceiverPanics
    <3> QED BY <2>0, <3>1, <3>2
  <2> QED BY <2>1, <2>2, <2>3, <2>4
<1> QED BY <1>1, <1>2, <1>3, <1>4, <1>5 DEF TypeOK

\* Nothing happens in a process that has ended.
LEMMA Halts == [Next]_vars => proc = "running" \/ UNCHANGED vars
<1> SUFFICES ASSUME Next PROVE proc = "running"
  BY DEF vars
<1> USE DEF Running
<1>1. CASE Signal \/ Main
  BY <1>1 DEF Signal, Main, InitTelemetry, StartSyslog, StartTftp, AddHandler, StartHttp, StartDhcp, Wait,
     ShutdownTraces, ShutdownExporter, End
<1>2. CASE Syslog
  BY <1>2 DEF Syslog, SyslogStarts, SyslogStops
<1>3. ASSUME NEW s \in {"tftp", "http"}, Listens(s) \/ Stops(s) PROVE proc = "running"
  BY <1>3 DEF Listens, Stops, ListenStops
<1>4. CASE Dhcp \/ DhcpCloses \/ \E r \in Reader : KubeStops(r)
  BY <1>4 DEF Dhcp, DhcpBinds, DhcpSetup, DhcpReadFails, DhcpCloses, KubeStops
<1>5. CASE Failures
  BY <1>5 DEF Failures, Fail, ListenFails, DhcpPanics, DhcpReadFails, ReceiverPanics, ParserPanics,
     HandlerPanics, KubeFails
<1> QED BY <1>1, <1>2, <1>3, <1>4, <1>5 DEF Next

\* What has happened stays so, and main does not leave its deferred functions.
LEMMA Monotone ==
    ASSUME TypeOK, [Next]_vars
    PROVE  /\ signal => signal'
           /\ fault => fault'
           /\ canceled => canceled'
           /\ main \in Deferred => main' \in Deferred
           /\ \A s \in Service : svc[s] # "off" => svc'[s] # "off"
<1>1. (signal => signal') /\ (fault => fault')
  <2>1. (signal' = signal \/ signal' = TRUE) /\ (fault' = fault \/ fault' = TRUE \/ fault' = (fault \/ ~Done))
    BY EndingSteps DEF Wait, End, DhcpReadFails, ReceiverPanics
  <2>2. fault' = (fault \/ ~Done) => (fault => fault')
    BY Zenon
  <2>3. fault' = fault => (fault => fault')
    BY Zenon
  <2>4. signal' = signal => (signal => signal')
    BY Zenon
  <2> QED BY <2>1, <2>2, <2>3, <2>4
<1>2. canceled => canceled'
  BY GroupSteps DEF group, Begins, Spawn, Serve, Returns, Return, DhcpBinds, Wait
<1>3. main \in Deferred => main' \in Deferred
  BY MainSteps DEF starting, Deferred, Main, InitTelemetry, StartSyslog, StartTftp, AddHandler, StartHttp,
     StartDhcp, Wait, ShutdownTraces, ShutdownExporter, End
<1>4. \A s \in Service : svc[s] # "off" => svc'[s] # "off"
  BY GroupSteps DEF TypeOK, GroupType, group, Begins, Spawn, Serve, Returns, Return, DhcpBinds, Wait
<1> QED BY <1>1, <1>2, <1>3, <1>4

\* main starts every service that is enabled before it goes on.
LEMMA StartedStep == ServicesInv /\ [Next]_vars => Started'
<1> SUFFICES ASSUME ServicesInv, [Next]_vars PROVE Started'
  OBVIOUS
<1>0. TypeOK /\ features' = features /\ {"syslog", "tftp", "http", "dhcp"} \subseteq Service
  BY MainSteps DEF ServicesInv, config, Service
<1>1. features = {} => \A s \in Service : svc'[s] = "off"
  BY <1>0, GroupSteps DEF ServicesInv, Started, group, Begins, Spawn, Serve, Returns, Return, DhcpBinds, Wait
<1>2. receiving' => svc'["syslog"] # "off"
  <2>1. CASE receiving' = receiving
    BY <1>0, <2>1, Monotone DEF ServicesInv, Started
  <2>2. CASE SyslogStarts
    BY <1>0, <2>2 DEF SyslogStarts, Serve, TypeOK, GroupType
  <2> QED BY <2>1, <2>2, ResourceSteps DEF resources, AddHandler, StartDhcp, DhcpBinds, DhcpCloses,
           DhcpSetup, DhcpReadFails, KubeStops
<1>3. CASE UNCHANGED starting
  BY <1>0, <1>1, <1>2, <1>3, Monotone DEF ServicesInv, Started, starting
<1>4. CASE Main
  <2>0. /\ Started /\ DOMAIN svc = Service /\ \A s \in Service : svc[s] # "off" => svc'[s] # "off"
    BY <1>0, Monotone DEF ServicesInv, TypeOK, GroupType
  <2>1. CASE main' \in Deferred
    BY <1>0, <1>1, <1>2, <2>1 DEF Started, Deferred
  <2>2. CASE main = "telemetry" /\ main' = "syslog"
    BY <1>0, <1>1, <1>2, <2>2 DEF Started
  <2>3. CASE StartSyslog
    BY <1>0, <1>1, <1>2, <2>0, <2>3 DEF Started, StartSyslog, Spawn
  <2>4. CASE StartTftp /\ main' = "script"
    BY <1>0, <1>1, <1>2, <2>0, <2>4 DEF Started, StartTftp, Spawn, MainPanics, Deferred
  <2>5. CASE <<main, main'>> \in {<<"script", "iso">>, <<"iso", "http">>}
    BY <1>0, <1>1, <1>2, <2>0, <2>5 DEF Started, Deferred
  <2>6. CASE StartHttp /\ main' = "dhcp"
    BY <1>0, <1>1, <1>2, <2>0, <2>6 DEF Started, StartHttp, Spawn, MainPanics, Deferred
  <2>7. CASE StartDhcp /\ main' = "wait"
    BY <1>0, <1>1, <1>2, <2>0, <2>7 DEF Started, StartDhcp, Spawn, MainPanics, Deferred
  <2>8. main' \in Deferred \/ (main = "telemetry" /\ main' = "syslog") \/ StartSyslog
        \/ (StartTftp /\ main' = "script") \/ <<main, main'>> \in {<<"script", "iso">>, <<"iso", "http">>}
        \/ (StartHttp /\ main' = "dhcp") \/ (StartDhcp /\ main' = "wait")
    BY <1>4 DEF Main, InitTelemetry, StartTftp, AddHandler, StartHttp, StartDhcp, Wait, ShutdownTraces,
                ShutdownExporter, End, MainPanics, Deferred, starting
  <2> QED BY <2>1, <2>2, <2>3, <2>4, <2>5, <2>6, <2>7, <2>8
<1> QED BY <1>3, <1>4, MainSteps

\* The group keeps the first error, and it tells how it came about.
LEMMA KeptStep == ServicesInv /\ [Next]_vars => Kept'
<1> SUFFICES ASSUME ServicesInv, [Next]_vars PROVE Kept'
  OBVIOUS
<1>0. TypeOK /\ Kept /\ NoError.kind = "nil"
  BY DEF ServicesInv, NoError
<1>1. CASE UNCHANGED <<err, canceled, first>>
  BY <1>0, <1>1, Monotone DEF Kept
<1>2. ASSUME NEW s \in Service, NEW kind \in {"nil", "canceled", "setup", "failed"}, Returns(s, kind)
      PROVE  Kept'
  <2>1. CASE kind # "nil" /\ err = NoError
    <3>1. err' = [by |-> s, kind |-> kind] /\ canceled'
      BY <1>2, <2>1 DEF Returns, Return
    <3>2. first' # "none" => first' = s /\ kind = "failed"
      BY <1>0, <1>2, <2>1 DEF Returns, Return, Kept
    <3>3. kind \in {"canceled", "setup"} => signal' 
      BY <1>0, <1>2, <2>1, Monotone DEF Returns, Return, Kept, Caused, ServicesInv, Done
    <3> QED BY <1>2, <3>1, <3>2, <3>3 DEF Returns, Kept
  <2>2. CASE ~(kind # "nil" /\ err = NoError)
    BY <1>0, <1>2, <2>2, Monotone DEF Returns, Return, Kept, Done
  <2> QED BY <2>1, <2>2
<1>3. CASE Wait
  BY <1>0, <1>3, Monotone DEF Wait, Kept
<1> QED BY <1>1, <1>2, <1>3, GroupSteps DEF group, Begins, Spawn, Serve, DhcpBinds

\* The context ends, and a service returns, only for a cause.
LEMMA CausedStep == ServicesInv /\ [Next]_vars => Caused'
<1> SUFFICES ASSUME ServicesInv, [Next]_vars PROVE Caused'
  OBVIOUS
<1>0. /\ TypeOK /\ Kept /\ Caused /\ Started /\ features' = features /\ "dhcp" \in Service
      /\ (Done => Done')
  BY MainSteps, Monotone DEF ServicesInv, config, Service, Done
<1>1. svc'["dhcp"] = "setup" /\ conn' = "closed" => Done'
  <2>1. CASE svc'["dhcp"] = svc["dhcp"] /\ conn' = conn
    BY <1>0, <2>1 DEF Caused
  <2>2. CASE svc'["dhcp"] = "setup" /\ svc["dhcp"] # "setup"
    BY <1>0, <2>2, GroupSteps DEF group, Begins, Spawn, Serve, Returns, Return, DhcpBinds, Wait, TypeOK, GroupType
  <2>3. CASE conn' = "closed" /\ conn # "closed"
    BY <1>0, <2>3, ResourceSteps DEF resources, AddHandler, StartDhcp, SyslogStarts, DhcpBinds, DhcpCloses,
       DhcpSetup, DhcpReadFails, KubeStops, Return, TypeOK, GroupType
  <2> QED BY <1>0, <2>1, <2>2, <2>3 DEF Caused
<1>2. CASE UNCHANGED group
  BY <1>0, <1>1, <1>2, Monotone DEF Caused, group
<1>3. ASSUME NEW s \in Service, Begins(s) \/ DhcpBinds PROVE Caused'
  <2>1. UNCHANGED <<err, canceled>> /\ \A q \in Service : svc'[q] = "returned" => svc[q] = "returned"
    BY <1>0, <1>3 DEF Begins, Spawn, Serve, DhcpBinds, TypeOK, GroupType
  <2>2. ~(canceled /\ err.kind = "nil")
    BY <1>0, <1>3 DEF Begins, DhcpBinds, Caused
  <2> QED BY <1>0, <1>1, <2>1, <2>2, Monotone DEF Caused
<1>4. ASSUME NEW s \in Service, NEW kind \in {"nil", "canceled", "setup", "failed"}, Returns(s, kind)
      PROVE  Caused'
  <2>1. kind \in {"nil", "canceled", "setup"} => Done
    BY <1>0, <1>4 DEF Returns, Caused
  <2>2. canceled' /\ err'.kind = "nil" => main' \in Deferred /\ \A q \in Service : svc'[q] \in {"off", "returned"}
    BY <1>0, <1>4, Monotone DEF Returns, Return, Kept, Caused, NoError
  <2>3. canceled' /\ ~fault' => signal' \/ features' = {}
    BY <1>0, <1>4, <2>1, Monotone DEF Returns, Return, Caused, Done
  <2>4. \A q \in Service : svc'[q] = "returned" => signal' \/ err'.kind # "nil"
    BY <1>0, <1>4, <2>1, Monotone DEF Returns, Return, Caused, Kept, Done, TypeOK, GroupType, NoError
  <2> QED BY <1>1, <2>2, <2>3, <2>4 DEF Caused
<1>5. CASE Wait
  <2>1. main' \in Deferred /\ UNCHANGED <<err, svc>> /\ \A s \in Service : svc[s] \in {"off", "returned"}
    BY <1>5 DEF Wait, Deferred
  <2>2. signal \/ fault \/ features = {}
    <3>1. CASE \E s \in Service : svc[s] = "returned"
      BY <1>0, <3>1 DEF Caused, Kept, TypeOK, GroupType
    <3>2. CASE \A s \in Service : svc[s] = "off"
      BY <1>0, <1>5, <3>2, ConfigurationAssumption
         DEF Wait, Started, Service, TypeOK, ConfigType, Feature, Handler, Deferred
    <3> QED BY <2>1, <3>1, <3>2
  <2> QED BY <1>0, <1>1, <2>1, <2>2, Monotone DEF Caused
<1> QED BY <1>0, <1>2, <1>3, <1>4, <1>5, GroupSteps DEF group

\* The provider is shut down after the services have returned, and before the
\* exporter.
LEMMA TracedStep == ServicesInv /\ [Next]_vars => Traced'
<1> SUFFICES ASSUME ServicesInv, [Next]_vars PROVE Traced'
  OBVIOUS
<1>0. StartingType /\ Traced /\ Reasons
  BY DEF ServicesInv, TypeOK
<1>1. CASE UNCHANGED starting
  BY <1>0, <1>1, EndingSteps DEF Traced, starting, ending, Wait, End, Running, DhcpReadFails, ReceiverPanics, Die
<1>2. CASE Main
  <2>1. CASE reason' = "main"
    BY <2>1 DEF Traced
  <2>2. CASE InitTelemetry /\ reason' # "main"
    BY <1>0, <2>2 DEF InitTelemetry, MainPanics, Traced, ending
  <2>3. CASE ShutdownTraces \/ ShutdownExporter
    BY <1>0, <2>3 DEF ShutdownTraces, ShutdownExporter, Traced, ending
  <2>4. CASE End
    BY <1>0, <2>4 DEF End, Traced, starting, Running
  <2>5. CASE Wait
    BY <1>0, <2>5 DEF Wait, Traced, Running, Reasons, Deferred
  <2>6. CASE /\ main \in {"syslog", "tftp", "script", "iso", "http", "dhcp"}
             /\ main' \in {"tftp", "script", "iso", "http", "dhcp", "wait"}
             /\ UNCHANGED <<tracing, ending>>
    BY <1>0, <2>6 DEF Traced, ending
  <2>7. StartSyslog \/ StartTftp \/ AddHandler("script", "iso") \/ AddHandler("iso", "http")
        \/ StartHttp \/ StartDhcp =>
          \/ reason' = "main"
          \/ /\ main \in {"syslog", "tftp", "script", "iso", "http", "dhcp"}
             /\ main' \in {"tftp", "script", "iso", "http", "dhcp", "wait"}
             /\ UNCHANGED <<tracing, ending>>
    BY DEF StartSyslog, StartTftp, AddHandler, StartHttp, StartDhcp, MainPanics, ending
  <2> QED BY <1>2, <2>1, <2>2, <2>3, <2>4, <2>5, <2>6, <2>7 DEF Main
<1> QED BY <1>1, <1>2, MainSteps

\* The process ends for the reason that main had, or panics for its own.
LEMMA ReasonsStep == ServicesInv /\ [Next]_vars => Reasons'
<1> SUFFICES ASSUME ServicesInv, [Next]_vars PROVE Reasons'
  OBVIOUS
<1>0. TypeOK /\ Kept /\ Caused /\ Started /\ Reasons /\ features' = features
  BY MainSteps DEF ServicesInv, config
<1>1. CASE Wait
  <2>1. main' \in Deferred /\ main \notin Deferred /\ UNCHANGED <<err, svc, proc, signal, fault>> /\ proc = "running"
    BY <1>1 DEF Wait, Deferred, Running
  <2>2. reason' = IF err.kind \in {"nil", "canceled"} THEN "none" ELSE "group"
    BY <1>1 DEF Wait
  <2>3. err.kind \in {"nil", "canceled"} => signal \/ features = {}
    <3>1. CASE \E s \in Service : svc[s] = "returned"
      BY <1>0, <3>1 DEF Caused, Kept
    <3>2. CASE \A s \in Service : svc[s] = "off"
      BY <1>0, <1>1, <3>2, ConfigurationAssumption
         DEF Wait, Started, Service, TypeOK, ConfigType, Feature, Handler, Deferred
    <3> QED BY <1>1, <3>1, <3>2 DEF Wait
  <2> QED BY <1>0, <1>1, <2>1, <2>2, <2>3 DEF Wait, Reasons, TypeOK, GroupType
<1>2. CASE ~Wait
  <2>1. main' \in Deferred /\ reason' = "none" =>
          /\ \A s \in Service : svc'[s] \in {"off", "returned"}
          /\ err'.kind \in {"nil", "canceled"} /\ (signal' \/ features' = {})
    <3>1. main' \in Deferred /\ reason' = "none" => main \in Deferred /\ reason = "none"
      <4>1. CASE UNCHANGED starting
        BY <1>2, <4>1, EndingSteps DEF starting, ending, End, DhcpReadFails, ReceiverPanics, Die
      <4>2. CASE Main
        BY <1>2, <4>2 DEF Main, InitTelemetry, StartSyslog, StartTftp, AddHandler, StartHttp, StartDhcp,
           ShutdownTraces, ShutdownExporter, End, MainPanics, ending, Deferred
      <4> QED BY <4>1, <4>2, MainSteps
    <3>2. main \in Deferred /\ reason = "none" => UNCHANGED <<svc, err>>
      BY <1>0, <1>2, GroupSteps DEF Reasons, group, Begins, Returns, DhcpBinds, Service
    <3> QED BY <1>0, <3>1, <3>2, Monotone DEF Reasons
  <2>2. err'.kind \in {"setup", "failed"} \/ ~(err.kind \in {"setup", "failed"})
    BY <1>0, <1>2, GroupSteps DEF group, Begins, Spawn, Serve, Returns, Return, DhcpBinds, NoError
  <2>3. CASE End
    BY <1>0, <2>1, <2>2, <2>3, Monotone DEF End, Reasons, Running, Deferred, starting, TypeOK, EndingType
  <2>4. CASE UNCHANGED ending
    <3>1. proc = "exited" => main' = main
      BY Halts DEF vars, starting
    <3> QED BY <1>0, <2>1, <2>2, <2>4, <3>1, Monotone DEF ending, Reasons
  <2>5. CASE proc' = proc /\ fault' /\ main' = "traces" /\ reason' = "main"
    <3>1. CASE UNCHANGED ending
      BY <2>4, <3>1
    <3>2. CASE proc = "running"
      BY <1>0, <2>5, <3>2 DEF Reasons, Deferred
    <3> QED BY <3>1, <3>2, Halts DEF vars
  <2>6. CASE proc' = "panicked" /\ reason' \in {"kube", "bind"} /\ fault'
    BY <1>0, <2>1, <2>2, <2>6 DEF Reasons
  <2>7. CASE ReceiverPanics
    <3>1. signal \/ fault
      BY <1>0, <2>7 DEF ReceiverPanics, Done, Caused, Started, Service
    <3> QED BY <2>7, <3>1, Monotone, <1>0 DEF ReceiverPanics, Die, Reasons
  <2>8. CASE proc' = "panicked" /\ reason' \in {"datagram", "packet"}
    BY <1>0, <2>1, <2>2, <2>8 DEF Reasons
  <2> QED BY <1>2, <2>3, <2>4, <2>5, <2>6, <2>7, <2>8, EndingSteps DEF ending, DhcpReadFails
<1> QED BY <1>1, <1>2

\* The inductive invariant holds in every behaviour.
THEOREM ServicesInvHolds == Spec => []ServicesInv
<1>1. ServicesInv /\ [Next]_vars => ServicesInv'
  BY TypeStep, StartedStep, KeptStep, CausedStep, TracedStep, ReasonsStep DEF ServicesInv
<1> QED BY ServicesInit, <1>1, PTL DEF Spec

\* The state of main, the errgroup and the services keeps its types.
THEOREM TypeCorrect == Spec => []TypeOK
<1>1. ServicesInv => TypeOK
  BY DEF ServicesInv
<1> QED BY ServicesInvHolds, <1>1, PTL

\* main ends without a panic only after a signal, or with nothing enabled; then
\* every service has returned and the traces were handed over.
THEOREM EndIsOrderly == Spec => []OrderlyEnd
<1>1. ServicesInv => OrderlyEnd
  BY DEF ServicesInv, Reasons, Traced, OrderlyEnd, Deferred
<1> QED BY ServicesInvHolds, <1>1, PTL

\* The error of the service that failed first is what main panics with.
THEOREM FirstFailureReported == Spec => []FailureReported
<1>1. ServicesInv => FailureReported
  BY DEF ServicesInv, TypeOK, EndingType, Kept, Reasons, FailureReported, Deferred
<1> QED BY ServicesInvHolds, <1>1, PTL

\* Where nothing has failed and no goroutine has panicked over the datagram, the
\* packet or the record it was working on, only the DHCP server's setup and the
\* syslog receiver's send end the process in a panic, and only after a signal.
THEOREM OnlyRacesSpoilAStop == Spec => []StopIsOrderly
<1>1. ServicesInv => StopIsOrderly
  <2> SUFFICES ASSUME ServicesInv, proc = "panicked", ~fault, reason \notin {"datagram", "packet"}
               PROVE  signal /\ (reason = "send" \/ (reason = "group" /\ err = [by |-> "dhcp", kind |-> "setup"]))
    BY DEF StopIsOrderly
  <2>1. reason \in {"group", "send"}
    BY DEF ServicesInv, TypeOK, EndingType, Reasons
  <2>2. CASE reason = "send"
    BY <2>2 DEF ServicesInv, Reasons
  <2>3. CASE reason = "group"
    BY <2>3 DEF ServicesInv, TypeOK, GroupType, Reasons, Kept
  <2> QED BY <2>1, <2>2, <2>3
<1> QED BY ServicesInvHolds, <1>1, PTL
=============================================================================
