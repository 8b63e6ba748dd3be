# A TLA+ model of Smee

Smee is Tinkerbell's network boot service: it answers DHCP, hands out iPXE binaries and
scripts, patches ISOs and collects syslog, all from the hardware records of a backend. This
directory holds TLA+ modules that model its core, TLC configurations that check them on small
instances, and proofs that TLAPS checks for every value of the constants.
`PROJECT.json` lists the runs, maps every definition to the lines it models, and names the
hazards that the properties are for.

Run a check with `tlc -config X.cfg M` and a proof with `tlapm M.tla`.

## Inventory

| Part | State | Operations | Hard behaviour | What makes it correct |
|---|---|---|---|---|
| File backend, watcher (`backend/file`) | `w.data`, the inotify watch, the read under way | `NewWatcher`, `Start` | edits during a read, merged and dropped events, file replaced | cached data catches up with the file; no edit is missed |
| File backend, lookups | none of its own | `GetByMac`, `GetByIP`, `translate` | map order, spellings of a mac, wrong records | lookups by mac and ip agree; a wrong record spoils no other |
| Kube backend (`backend/kube`) | controller-runtime cache and two indexes | `Start`, `GetByMac`, `GetByIP`, `transform` | several objects or interfaces with one address, missing parts | never an arbitrary answer; lookups agree |
| Noop backend | none | both lookups fail | none | |
| Packet inspection (`dhcp/dhcp.go`) | none | `Arch`, `IsNetbootClient`, `Bootfile`, `NextServer`, ... | order of cases | a client that runs Smee's iPXE gets a script, any other a binary |
| Reservation handler, proxy handler | none | `Handle` | record changes while a packet is handled; lookups fail | an address or boot file only on the word of a record |
| DHCP server (`dhcp/server`) | the socket, one goroutine per packet | `Serve`, `Close` | interleaved handlers, shutdown under the reader | replies match requests; shutdown is clean |
| Script handler (`ipxe/script`) | none | `HandlerFunc` | its own, differently stale view of the records | nobody boots, or gets a script, that is not his |
| Syslog receiver (`syslog/receiver.go`) | pool, channel, socket | `StartReceiver`, `run`, `runParser`, `cleanup` | buffer reuse across goroutines, shutdown | each datagram logged once, in order; shutdown ends |
| Syslog parser (`syslog/message.go`) | the message's fields and its old buffer | `parse`, `reset` | short datagrams, byte arithmetic | result depends on the datagram alone; a printed message is logged as it was printed |
| ISO handler (`iso`) | the patch in a request's context | `RoundTrip`, `Copy` | magic string across chunks, concurrent requests | each machine gets the image with its own patch where the magic string is |
| Reverse proxy (`iso/internal`) | none | `ServeHTTP`, `copyResponse` | failures after the header was sent | what looks complete is complete |
| HTTP server, X-Forwarded-For (`ipxe/http`) | listener, handlers | `ServeHTTP`, `getRemoteAddrIfAllowed` | shutdown, chains of proxies | client address from trusted proxies only; it stops |
| `main` | errgroup, contexts, tracing | choose backends and handlers, start and stop services | one failure ends all, a stop during the start | the process ends as a whole, with the first error |
| TFTP/HTTP binary servers (ipxedust), OpenTelemetry, metrics, flags | | | | not the project's subject, see below |

Interaction: `main` builds one DHCP handler for the configured mode, the script handler and
the ISO handler, and gives *each* a backend of its own; the DHCP server calls its handler in a
new goroutine per packet; machines carry state (boot file, address) from the DHCP handler to
the script handler.

## Modules

| Module | Models | Extends |
|---|---|---|
| `FileWatcher` | `NewWatcher` and `Start` of the file backend | |
| `FileWatcherProofs` | proofs about it | `FileWatcher` |
| `FileLookup` | lookups of the file backend | |
| `KubeBackend` | the kube backend's indexes and lookups | |
| `Backends`, `MCBackends` | `config.backend`: the choice of one, and what a handler gets from it | `KubeBackend`, instance of `FileLookup` |
| `BackendsProofs` | proofs about all three | `Backends` |
| `SyslogLog` | what the syslog server promises (abstract) | |
| `SyslogReceiver` | the syslog receiver, which implements it | instance of `SyslogLog` |
| `SyslogReceiverProofs` | proofs about it, and that it implements `SyslogLog` | `SyslogReceiver` |
| `SyslogMessage`, `MCSyslogMessage` | the message parser and the entry it leads to | |
| `SyslogMessageProofs` | proofs about it | `SyslogMessage` |
| `DhcpInfo` | `dhcp.go`: conclusions from a packet, as operators | |
| `DhcpHandlers` | the two handlers' replies, as operators of mode, packet and record | `DhcpInfo` |
| `DhcpServer`, `MCDhcpServer` | `Serve` and its concurrent handlers | `DhcpHandlers` |
| `DhcpServerProofs` | proofs about it | `DhcpServer` |
| `ScriptHandler` | the script handler's responses, as operators | `DhcpHandlers` |
| `BootFlow`, `MCBootFlow` | machines that boot through both handlers | `ScriptHandler` |
| `BootFlowProofs` | proofs about it | `BootFlow` |
| `Xff` | the client's address behind proxies, as operators | |
| `Iso` | what the ISO handler does to a chunk, as operators | |
| `HttpServer`, `MCHttpServer` | the HTTP server, its requests and the copy of an ISO | `Xff`, `Iso` |
| `HttpServerProofs` | proofs about it | `HttpServer` |
| `Services`, `MCServices` | `main`: start and end of the process and its services | |
| `ServicesProofs` | proofs about it | `Services` |

### FileWatcher
The file is a sequence of blocks; truncating it and each write are steps of their own, and so
is each `read(2)` of `os.ReadFile`, so a read may return a mixture of two versions. The kernel's
queue merges an event equal to its last one, and when it is full drops events behind one
overflow notice. fsnotify reads the queue in batches and hands events to `Start` one at a time.
`pc` is where `NewWatcher`, then `Start`, is; `missed` remembers that the last refresh could not
read the file. Each edit adds at most one block, and `TypeOK` says that neither a read nor the cached
data is longer than the file can have been. `Start`'s action is the goroutine being started by `File.backend`; `ReceiveEvent` is the
`select` with an event or error at hand.

### FileLookup, KubeBackend and Backends
Lookups are operators on the current data, evaluated in every state of a machine that changes
the data arbitrarily. Network settings that a record only carries along are left out. Go's map
order makes `FileLookup`'s lookups set-valued. In `KubeBackend` a lookup that dereferences a nil
part answers `"panic"`. `Backends` puts both behind `config.backend`'s choice, with the noop backend,
so that what handlers rely on (`OwnRecord`, `LookupsAgree`) is stated once for whichever backend a
handler was given. `BackendsTypeOK` says that the backends which were not chosen stay idle.

### SyslogReceiver
Goroutines `run`, `cleanup` and one per parser; a message is a slot of the pool with the datagram
it holds. Reading, sending on the channel, receiving, logging and putting back are separate
steps. A send on the closed channel is the `panic` that ends the process.

`SyslogLog` is the abstract specification: datagrams are accepted, become pending, and are
emitted to the log, in order if there is one parser. `LogsWhatItReads` says that the receiver implements
it. The mapping takes for pending what is in `run`'s message once it is read, in the channel and
with the parsers (`Pending`); a buffer overwritten too early, or a message logged twice or left in the channel, has no
abstract step. That nothing stays pending is part of `SyslogLog!Spec` as a leads-to property.

### SyslogMessage
One pooled message: `Read`, `Log`, `Reset`, again and again, with whatever was in the buffer left in
it. A byte is a symbol that stands for one byte or for a word the parser takes as a whole (a
timestamp, a severity's name with its colon). `Parse` and what it calls are operators on buffer,
size and fields; `m.panic` is a slice expression out of range. `bytes.SplitN` is taken apart: `Space` is where the first space is,
`Before` and `After` what it separates. The senders' side (`PrintMessage`) is a reference: it prints messages
of both formats, and `WellFormedUnderstood` compares what is logged with what was printed.
`DatagramAlone` compares each entry with the one that a fresh message would give, which shows how
far the old bytes reach: a datagram that ends within its priority, as `<13` does, is read on into
the bytes of the one before. If these bring a `>`, `m.buf[1+i+1 : m.size]` is out of range and the
parser panics; no other result depends on them.

### Xff, Iso and HttpServer
A request is accepted, routed and, for an ISO, goes through `RoundTrip`, the source's response and
the copy loop, one `Read` at a time, of every length up to the buffer's. Scripts and binaries are served in one step. `cuts` is a history variable: where reads
began and ended. The properties state how far the ISO handler goes: every magic string that one read
returns whole, and first, is replaced by the machine's patch, or by as much of it as there is room for (`PatchedWhereSeen`); one that
straddles two reads or two range requests is left as it is, and a patch that is longer than the
magic string writes over what follows it, without changing the length (`CompleteOrAborted`). The proxy's handling of headers, of 1xx and 101
responses and its flush timer are left out: the copy does not depend on them. The source of the image is
external and assumed to give the length of its body (a `Content-Length` or chunks): net/http then reports a body that
breaks off as a read error. A source that gives none and closes the connection early looks to `Copy` like one that
has ended, and `CompleteOrAborted` is not claimed for it.

### Services
`main` is a sequence of steps; a service is a goroutine that starts, serves and returns with an
error or none; `Return` is what errgroup makes of it. A panic in a service's or a backend's
goroutine ends the process at once, one in `main` after its deferred functions. Each service is
reduced to what its own module shows of its start and end. `fault` and `first` are history variables.

The panics outside `main`, none of which is recovered, are: a kube backend whose `Start` fails (`KubeFails`), a DHCP server
without an address or a socket (`DhcpPanics`), the syslog receiver's send on the closed channel (`ReceiverPanics`), its parser
over a datagram that ends within its priority (`ParserPanics`; see `SyslogMessage`), and a DHCP handler over its packet or the record found for it
(`HandlerPanics`; the kube backend's lookups of `kube_missing` run in its goroutine). The last two need neither a signal nor a failure:
once the receiver or `Serve` has begun to read they may come at any time, also after the service has returned. `reason` tells the
panics apart. net/http recovers a panic of its handlers, so the same lookup fails one request only when the script or the ISO handler makes
it. The goroutines of the TFTP library and of controller-runtime are taken not to panic.

### DhcpInfo, DhcpHandlers, ScriptHandler
Pure functions, translated as operators. A packet is a record of the fields the code looks at,
a URL a record of what it names, so that following a URL needs no parsing. With `OTELEnabled` the
code adds a trace id to the binary's name, which the server of binaries strips; it is left out.

### DhcpServer
`Serve` reads, parses and starts handler `i` for packet `i`; a handler asks the backend and
answers in two steps, between which records change (`Update`), the context ends (`Cancel`) and
the socket closes. `held` is a history variable: what the backend held for a handler's machine
since its packet came. That a handler may panic, and with it the process, is modelled in `Services`.

### BootFlow
The composition. A machine goes from firmware (`rom`, or `vendor` for an iPXE in the ROM) to
Smee's iPXE (`tink`) to a script (`get`, `booted`) or to its local disk. `ServeDhcp` may answer
any packet of the machine's present exchange, late or again; a packet that is never answered is
lost. Each handler has a view of the records that follows the truth one record at a time.
`allowed` is a history variable: the views that have allowed the machine to netboot since it was
switched on.

## Runs

| Run | Expect | Properties | Bounds, and why they are enough |
|---|---|---|---|
| `file_watcher` | pass | `TypeOK`, `NoLostUpdate`, `EventuallyFresh` | 2 blocks, queue of 2, 4 edits: the queue overflows, an edit falls into every gap of two refreshes |
| `file_watcher_replace` | violation | `ServesFileOnDisk` | one replacement is enough |
| `backends` | pass | `BackendsTypeOK`, `OwnRecord`, `LookupsAgree`, `Isolated`, `Unambiguous`, `NotFoundMeansAbsent` | every choice of backend and mode; every file of up to 3 of 5 keys, with two spellings of a mac, a key that is none, shared addresses and wrong entries; every pair of Hardware objects with up to 2 of 8 interfaces |
| `syslog` | pass | `TypeOK`, `SingleOwner`, `LogsWhatItReads`, `ShutdownCompletes` | 1 parser as in `main`, 3 messages (run, channel, parser each hold one), 4 datagrams so that messages are reused |
| `syslog_stop` | violation | `StopsWithoutPanic` | |
| `syslog_read_error` | violation | `ReceivesAndLogs` | |
| `dhcp_server` | pass | `TypeOK`, `ReplyToItsRequest`, `ReservedOnly`, `NetbootGate`, `CleanStop`, `HandlersFinish`, `ServeReturns` | all three modes, 2 concurrent packets of 2 machines or garbage, 1 change of a record: enough for two handlers and a change between lookup and reply |
| `boot_flow` | pass | `TypeOK`, `ChainloadsOnce`, `DenialHolds`, `OwnScript`, `EventuallyBoots` | all three modes, 1 machine with two ways to boot, a second record that may have its address, 2 changes, switched off once on its way |
| `kube_missing` | violation | `MissingFieldsAreErrors` | |
| `syslog_parser` | pass | `TypeOK`, `DatagramAlone`, `WellFormedUnderstood`, `SeverityKept` | 2 datagrams one after the other, since only the last one's bytes can remain; messages of both formats with fields present and missing, priorities up to three digits and above 255, one that does not fit in the buffer, and 16 datagrams that break the formats at different places |
| `http` | pass | `TypeOK`, `ClientAddress`, `OwnPatchInPlace`, `CompleteOrAborted`, `PatchedWhereSeen`, `ServerStops` | 2 concurrent requests, an image of 5 bytes with the magic string of 2 at both ends, one range that starts within it, reads of 1 to 5 bytes, patches of its length and longer, 1 change of a record; headers with up to 4 entries behind up to 2 proxies |
| `services` | pass | `TypeOK`, `OrderlyEnd`, `FailureReported`, `StopIsOrderly`, `EndsAsAWhole` | every set of the four services, with script and ISO handler or binaries only behind HTTP, every kind of backend, with and without tracing |

Deadlock checking is off where the system may stop: a stopped watcher, receiver or server, and
edits, datagrams or updates used up.

### What the violations show
* `file_watcher_replace`: `Start` reloads on `Write` only and does not renew the watch; a file saved
  by rename is not read again, against docs/Backend-File.md.
* `syslog_stop`: `cleanup` closes the channel that `run` may be sending on; the send panics. Until
  then, and otherwise, the shutdown is in order (`ShutdownCompletes`, `LogsWhatItReads`).
* `syslog_read_error`: the error is wrapped before it is tested for `net.Error`, so `run` ends on any
  read error, and nobody notices.
* `kube_missing`: the loops over interfaces read parts the indexers know may be nil. In a DHCP handler's goroutine the
  panic ends the process (`HandlerPanics` in `Services`).

More differences were met while modelling and have no run. The comment at proxy.go:192
promises a "/not-allowed" boot file, where the code sends nothing. README.md:61 promises the
static script "if no corresponding Hardware record is found", where the code serves it on any failed
lookup, also of a record that denies netboot; `DenialHolds` is therefore not claimed in mode
auto-proxy. README.md:29 says the syslog server logs the messages it receives: a text that starts with a
brace and is no JSON object is left out of its entry (receiver.go:138-142), and a datagram that ends within its
priority may make the parser panic (`DatagramAlone` states when). The comments at
file.go:297 and kube.go:214 give a default lease time of one week: a record without one is handed out with a
lease of 0 seconds, since the conversion of 0 succeeds. A signal while the DHCP server is setting up its
socket makes `main` panic where it would log "smee is shutting down" (`StopIsOrderly` names that
race, and the one of `syslog_stop`, as the only two that spoil a stop when nothing has failed and no goroutine has panicked
over its input).

### Fairness
Weak fairness of every goroutine that has a step to take: Go's scheduler runs what can run.
Nothing is assumed of edits, packets, updates, read errors and the end of a context. `BootFlow`
needs more, and says so: views catch up (an informer or watcher delivers in the end), a machine that is off
or has ended on its disk is switched on again and again, and strong fairness of its packets and of
its script requests, that is, not every packet is lost and not every lookup fails. `Services` assumes of
ipxedust's TFTP server that it returns when its context has ended. `HttpServer` assumes nothing of requests or of the image's source:
`ServerStops` holds however long a request takes.

## Proofs

All proofs are for arbitrary values of the constants, under the assumptions stated in the
modules.

* `FileWatcherProofs`: `TypeCorrect` and `UpdatesNotLost` (`Spec => []NoLostUpdate`). `NoLostUpdate` is
  not inductive: that a dropped `Write` is covered by a queued one follows only if a full queue
  contains a `Write`. The invariant `IndInv` adds that the watched queue holds only `Write`s and `Chmod`s with no two
  equal neighbours (`QueueOK`), so that one of any two neighbours is a `Write` (which is why `QMax`
  must be at least 2), and that, with no `Write` to come, the read under way has a prefix of
  the file and a finished one all of it (`UpToDate`). The bound on the cached data's length is inductive with those on the file and the
  read under way (`RestOfRead` for a read that a rename cuts off from later edits).
* `SyslogReceiverProofs`: `TypeCorrect` and `OneOwner` (`Spec => []SingleOwner`), for any number of
  parsers. The invariant `OwnerInv` adds who holds a message at which stage (`HoldsByStage`).
  `ImplementsLog` (`Spec => Abstract!Safety`) is the refinement without its leads-to part: the initial
  states map to initial ones (`LogInit`), reading maps to `Accept` (`ReadStep`), logging to `Emit`
  (`LogStep`), a panic to `Crash`, and every other step of `run`, `cleanup` and the parsers to a stutter
  (`QuietSteps`). The mapping takes apart what the messages contain, so `LogInv` adds to `OwnerInv` that
  the socket holds only datagrams newer than the last one read (`Fresh`), that what is pending was read and is in one
  message only (`Distinct`) and that, along parsers, channel and `run`, it was read in that order
  (`Aged`), which gives the order of the log.
* `SyslogMessageProofs`: `EntryIsTheDatagrams` (`Spec => []DatagramAlone`), `TypeCorrect`, `SeverityIsKept`
  (`Spec => []SeverityKept`) and `PrintedIsUnderstood` (`Spec => []WellFormedUnderstood`), for any datagrams, messages and length of
  the buffer. `MessageInv` adds that a message is blank until it is parsed and holds the datagram in its first `size`
  bytes. Only `parsePriority` and the slice of `String` look at the buffer, and slices end with the
  datagram (`SameSlice`, `EntryAlone`). `parsePriority` stops at the same byte in two buffers that agree on a datagram which
  decides (`PriorityAlone`); in one that does not, a fresh buffer has a zero byte behind it, which ends the priority without success,
  and an old one gives the same answer or a panic (`PriorityUndecided`). The rest of the parser does not set `panic` (`RestKeeps`), and
  makes slices of slices, which gives the types (`Keeps`, `ParseTyped`). The last two theorems say that parsing undoes printing. `DatagramAlone` reduces them to
  a fresh message (`MessageUnderstood`). A message that does not fit in the buffer is one with a shorter text, because a
  printed message is a head that does not depend on the text, and the text (`Tails`, `CutIs`). Then each function of the parser finds what was printed for
  it and leaves the rest: `PriorityOfPrinted` (the number comes back modulo 256, `DecimalIs`, and its remainder modulo 8 is that of the
  number, `SeverityOfByte`), `WordIs` for a field between spaces, `TagUnderstood` for tag and pid, `InFront` for a tag not being
  taken for a version or a time, `TextUnderstood` for the prefixes of the text. No induction is needed: a number has at most three digits,
  and the searches for a space, a bracket or a tag's end are minima, for which `LeastIs` and `MinIs` hold.
* `DhcpServerProofs`: `TypeCorrect`, `AnswersItsRequest` (`Spec => []ReplyToItsRequest`),
  `AddressesReserved` (`Spec => []ReservedOnly`), `NetbootIsAllowed` (`Spec => []NetbootGate`) and
  `StopIsClean` (`Spec => []CleanStop`), for any packets, records, modes and number of handlers.
  The first four follow from `ServerInv`, which adds that a datagram in the buffer has no handler yet
  and is there once (`Queued`), that a handler's packet is the one that arrived for it (`Begun`), that
  what it got from the backend is an error or something the backend held since then (`Recorded`), and
  that only a handler that is done has replied (`Replied`). Three lemmas say what the handlers' replies
  are made of. `StopIsClean` needs that only the end of the context closes the socket under a
  reading `Serve` (`ClosedByContext`).

* `ServicesProofs`: `TypeCorrect`, `EndIsOrderly` (`Spec => []OrderlyEnd`), `FirstFailureReported`
  (`Spec => []FailureReported`) and `OnlyRacesSpoilAStop` (`Spec => []StopIsOrderly`). The last one excepts what failures and panics over
  a datagram, a packet or a record cause: those need no signal. `ServicesInv` adds
  which services may run at which step of `main` (`Started`), that the group's error is the first one and
  is there once a service failed (`Kept`), what can have ended the context or a service (`Caused`), how
  far tracing is set up or taken down (`Traced`) and for what reason the process ended (`Reasons`).
* `BackendsProofs`: `BackendsTypeCorrect`, `RecordsAreOwn`, `HandlersAgree`, `WrongEntriesAreIsolated`,
  `KubeIsUnambiguous` and `KubeMissesNone`, for any number of entries, objects and interfaces. The
  properties say what the lookups compute from the records of the moment, so the work is in lemmas on the
  operators and the invariant is the type, with what the idle backends hold. The loops over interfaces and entries are
  `CHOOSE`s of a first one: that there is a first one is `Least`, the least-element principle for sets of numbers, which
  the library's `WFMin` gives without an induction.
* `BootFlowProofs`: `TypeCorrect`, `NoBootLoop` (`Spec => []ChainloadsOnce`), `ScriptIsOwn` (`Spec => []OwnScript`)
  and `DenialIsKept` (`Spec => [](PrependMac => DenialHolds)`), for any machines, records and packets. `BootInv`
  adds to the types, of each machine, how many binaries it has loaded at which stage (`Staged`), what the replies of its present
  exchange may tell it (`Told`: any of them may still arrive, so all are constrained), that a view that allows it now has been
  noted (`Noticed`), and what the file name and the script it goes by imply (`Addressed`, `Entitled`). `DenialHolds` needs the mac in the script's URL: without it the script handler
  looks the machine up by an address that may be another's by then, and TLC refutes it.
* `HttpServerProofs`: `TypeCorrect`, `ClientIsKnown` (`Spec => []ClientAddress`), `PatchIsOwn`
  (`Spec => []OwnPatchInPlace`), `ResponseIsComplete` (`Spec => []CompleteOrAborted`) and `SeenMagicIsReplaced`
  (`Spec => []PatchedWhereSeen`), for any image, magic string, records, buffer size and number of connections.
  `HttpInv` adds, of each connection, that as much was written as was read (`InStep`), that the patch
  is from a record held since the request came (`Sourced`), and the two properties of the image for the part written so far
  (`InPlace`, `Patched`). `Patched` is kept because a new read cannot undo that an occurrence
  was missed: a magic string that the new read completes either has a cut in it, or is in this read, where it is the
  first or has one before it (`SeenIsPatched`). The lemma `ChunkIs` says what Copy makes of a part of the image, `RemoteAddrIsClient` that parse stops at the client's own entry.

Assumptions on the constants, in the modules that declare them, say of what shape they are (a request's
range lies within the image, the image and a record's text are sequences, there are finitely many Hardware
objects), that the empty string is no address, and in `BootFlow` what the code or its configuration
guarantees: `main` leaves the user class empty (`UserClassAssumption`), and a record's own script URL is not one of Smee's
(`AnswersAssumption`). In `SyslogMessage`, datagrams and texts are strings of bytes (`OthersAssumption`), nil is none
(`NilAssumption`), and `FormattedAssumption` says what `Printable` messages are: a number of up to three digits, fields without
the byte that ends them and, for RFC 5424, no field that is the `-` which stands for none, a head that fits in the buffer, and a legacy text that does
not start with what the parser trims from one (a severity, a time, a carriage return), since nobody can tell such a text from a prefix. TLC evaluates
all of them on the runs' constants.

Only model-checked: the liveness properties, `Progress` of the refinement among them (fairness and `ENABLED` are out
of the prover's reach).

## Not modelled
* ipxedust's TFTP and HTTP servers: a library; `BootFlow` takes binaries to be loaded when named.
* `internal/iso/internal/reverseproxy.go` beyond what an ISO's response depends on: rewriting of headers, 1xx and 101 responses,
  the flush timer. The file is a copy of the standard library's with one hook, and the hook is modelled.
* OpenTelemetry's attributes and metrics: nothing depends on them. Flags: their values are constants.
* The time in a syslog message: it is parsed and corrected, and no log entry shows it.
* Text of scripts, log lines, DHCP options that are copied from a record.

## Plan
1. Done: the modules above.
2. Done: proofs of every safety invariant that the runs check, and of the safety part of the refinement.
3. The lease time and other settings that a record carries into a DHCP reply, with the numeric
   edges of their conversion.
