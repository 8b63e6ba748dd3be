------------------------------ MODULE Backends ------------------------------
(***************************************************************************)
(* cmd/smee: config.backend gives each handler one backend, which the      *)
(* handler knows only by its two lookups (handler.BackendReader).  This    *)
(* module composes the kube backend and the lookups of the file backend    *)
(* with that choice and with the noop backend, which has no records.       *)
(***************************************************************************)
EXTENDS KubeBackend

CONSTANTS
    Key, Entry, Malformed, MaxEntries,  \* see FileLookup
    DhcpMode                            \* the values of --dhcp-mode

ASSUME KeyAssumption ==
    \A k \in Key : k.mac \in Mac /\ k.spelling \in {"lower", "upper", "dash", "none"}
ASSUME EntryAssumption == "" \notin IP /\ \A e \in Entry : e.ip \in IP \cup {""}
ASSUME MaxEntriesAssumption == MaxEntries \in Nat

VARIABLES
    reader,  \* the handler's backend, "none" before it is chosen, "refused" if none is
    data     \* the file backend's data; Malformed where there is none

File == INSTANCE FileLookup

allVars == <<started, cache, reader, data>>

\* A backend that was not chosen has read nothing and runs nothing.
BackendsTypeOK ==
    /\ TypeOK /\ File!TypeOK
    /\ reader \in {"none", "refused", "noop", "file", "kube"}
    /\ reader # "file" => data = Malformed
    /\ reader # "kube" => ~started /\ \A n \in Name : cache[n] = <<>>

BackendsInit == Init /\ reader = "none" /\ data = Malformed

\* config.backend: kubernetes is enabled by default, and off when another one
\* is on.
ChosenReader(file, noop, mode) ==
    IF file /\ noop THEN "refused"
    ELSE IF noop THEN IF mode = "auto-proxy" THEN "noop" ELSE "refused"
    ELSE IF file THEN "file" ELSE "kube"

\* Mutant: the file backend is created as soon as its flag is seen, before the
\* other flags are.
ChooseEager(file, noop, mode) ==
    /\ reader = "none"
    /\ \/ reader' = ChosenReader(file, noop, mode)
       \/ ChosenReader(file, noop, mode) \in {"file", "kube"} /\ reader' = "refused"
    /\ IF file THEN data' \in File!Contents ELSE UNCHANGED data
    /\ UNCHANGED vars

\* The new backend of kind file has read its file.  Those of kind file and kube
\* may fail to be created.
Choose(file, noop, mode) ==
    /\ reader = "none"
    /\ \/ reader' = ChosenReader(file, noop, mode)
       \/ ChosenReader(file, noop, mode) \in {"file", "kube"} /\ reader' = "refused"
    /\ IF reader' = "file" THEN data' \in File!Contents ELSE UNCHANGED data
    /\ UNCHANGED vars

BackendsNext ==
    \/ \E file, noop \in BOOLEAN, mode \in DhcpMode : Choose(file, noop, mode)
    \/ reader = "file" /\ File!Next /\ UNCHANGED <<vars, reader>>
    \/ reader = "kube" /\ Next /\ UNCHANGED <<reader, data>>

BackendsSpec == BackendsInit /\ [][BackendsNext]_allVars

\* What a handler may get from its backend.
ReaderByMac(m) ==
    CASE reader = "file" -> File!GetByMac(m)
      [] reader = "kube" -> {GetByMac(m)}
      [] reader = "noop" -> {Failure("error")}
      [] OTHER -> {}

ReaderByIP(a) ==
    CASE reader = "file" -> File!GetByIP(a)
      [] reader = "kube" -> {GetByIP(a)}
      [] reader = "noop" -> {Failure("error")}
      [] OTHER -> {}

-----------------------------------------------------------------------------
(* Properties. *)

\* What the handlers take for granted (AnswersFor in DhcpServer and BootFlow):
\* whichever backend was chosen and however its records change, a record that
\* is found for a mac has that mac, one found for an address that address.
OwnRecord ==
    /\ \A m \in Mac : \A r \in ReaderByMac(m) : r.st = "ok" => r.mac = m
    /\ \A a \in IP : \A r \in ReaderByIP(a) : r.st = "ok" => r.ip = a

\* No two records of the file have an address in common; of Hardware objects it
\* is enough that no two interfaces of the same object have.
NoSharedAddress ==
    /\ reader = "file" => File!OneEach
    /\ reader = "kube" => \A n \in Name : \A i, j \in 1..Len(cache[n]) : i # j =>
        cache[n][i].mac # cache[n][j].mac /\ cache[n][i].ip # cache[n][j].ip

\* The DHCP handler, which asks by mac, and the script handler, which may ask
\* by ip, see the same record: where no address is shared, a machine has one
\* record, and its address leads to that record or to none.
LookupsAgree ==
    NoSharedAddress => \A m \in Mac : \A r \in ReaderByMac(m) : r.st = "ok" =>
        ReaderByMac(m) = {r} /\ \A q \in ReaderByIP(r.ip) : q.st = "ok" => q = r

\* Of the file backend, a wrong record or key spoils no other: a valid entry is
\* found by its mac and by its address if it is the only one for them.
Isolated == File!Isolated
=============================================================================
