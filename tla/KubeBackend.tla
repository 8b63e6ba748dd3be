----------------------------- MODULE KubeBackend -----------------------------
(***************************************************************************)
(* internal/backend/kube: lookups of Hardware objects by mac and by ip in  *)
(* the client-side cache, through its two indexes.                         *)
(*                                                                         *)
(* An object is the sequence of its interfaces.  An interface has:         *)
(*   dhcp     whether its DHCP part is there at all;                       *)
(*   mac, ip  the addresses in that part, "" where a field is empty, and   *)
(*            ip = "nil" where DHCP.IP is not there;                       *)
(*   valid    whether the remaining required fields parse;                 *)
(*   disabled its DisableDHCP;                                             *)
(*   netboot  whether its Netboot part is there; allow its AllowPXE.       *)
(* The cache (controller-runtime) is external: it follows the cluster one  *)
(* object at a time and answers a List from one state of it.               *)
(***************************************************************************)
EXTENDS Naturals, Sequences, FiniteSets

CONSTANTS
    Name,        \* names of Hardware objects
    Iface,       \* what an interface may look like
    Mac, IP,     \* addresses asked for
    MaxIfaces    \* bound on the interfaces of an object

ASSUME IfaceAssumption == \A f \in Iface : f.mac \in Mac \cup {""} /\ f.ip \in IP \cup {"", "nil"}
ASSUME AddressAssumption == "" \notin Mac /\ {"", "nil"} \cap IP = {}
ASSUME MaxIfacesAssumption == MaxIfaces \in Nat
ASSUME NameAssumption == IsFiniteSet(Name)

VARIABLES
    started,  \* Start has been called and the cache has synced
    cache     \* the interfaces of each object; none for an object that is not there

vars == <<started, cache>>

Objects == UNION {[1..n -> Iface] : n \in 0..MaxIfaces}

TypeOK == started \in BOOLEAN /\ cache \in [Name -> Objects]

Init == started = FALSE /\ cache = [n \in Name |-> <<>>]

Start == ~started /\ started' = TRUE /\ UNCHANGED cache

\* An object is created, changed or deleted.
Change(n, obj) ==
    /\ started /\ cache[n] # obj
    /\ cache' = [cache EXCEPT ![n] = obj]
    /\ UNCHANGED started

Next == Start \/ \E n \in Name, obj \in Objects : Change(n, obj)

Spec == Init /\ [][Next]_vars

-----------------------------------------------------------------------------
(* The indexes. *)

Ifaces(n) == {cache[n][i] : i \in 1..Len(cache[n])}

\* Mutant: the index lists only an object's first interface.
GetMACsFirst(n) == {f.mac : f \in {g \in Ifaces(n) : g = cache[n][1] /\ g.dhcp /\ g.mac # ""}}

\* Interfaces without a DHCP part, or without an address in it, have no entry.
GetMACs(n) == {f.mac : f \in {g \in Ifaces(n) : g.dhcp /\ g.mac # ""}}
GetIPs(n) == {f.ip : f \in {g \in Ifaces(n) : g.dhcp /\ g.ip \notin {"", "nil"}}}

-----------------------------------------------------------------------------
(* Lookups. *)

Failure(st) == [st |-> st, mac |-> "", ip |-> "", disabled |-> FALSE, allow |-> FALSE]

\* transform: toDHCPData and toNetbootData fail on what is missing or invalid.
Transform(f) ==
    IF f.dhcp /\ f.mac # "" /\ f.ip \notin {"", "nil"} /\ f.valid /\ f.netboot
    THEN [st |-> "ok", mac |-> f.mac, ip |-> f.ip, disabled |-> f.disabled, allow |-> f.allow]
    ELSE Failure("error")

\* The loop of GetByMac reads DHCP.MAC, that of GetByIP DHCP.IP.Address.
Readable(f, by) == f.dhcp /\ (by = "ip" => f.ip # "nil")

\* The loop over an object's interfaces: the first one that has address a is
\* transformed; one before it that lacks a part the loop reads makes the lookup
\* panic.
Scan(obj, by, a) ==
    LET stops == {i \in 1..Len(obj) : ~Readable(obj[i], by) \/ obj[i][by] = a}
        first == CHOOSE i \in stops : \A j \in stops : i <= j
    IN  IF stops = {} THEN Failure("error")
        ELSE IF ~Readable(obj[first], by) THEN Failure("panic")
        ELSE Transform(obj[first])

\* One object is expected to have the address.
Lookup(names, by, a) ==
    IF ~started THEN Failure("error")
    ELSE IF names = {} THEN Failure("notFound")
    ELSE IF Cardinality(names) > 1 THEN Failure("error")
    ELSE Scan(cache[CHOOSE n \in names : TRUE], by, a)

\* Mutant: of several objects with the mac the first is taken.
GetByMacFirst(m) ==
    LET names == {n \in Name : m \in GetMACs(n)}
    IN  IF ~started THEN Failure("error")
        ELSE IF names = {} THEN Failure("notFound")
        ELSE Scan(cache[CHOOSE n \in names : TRUE], "mac", m)

GetByMac(m) == Lookup({n \in Name : m \in GetMACs(n)}, "mac", m)

\* Mutant: the interface is not compared with the address asked for.
GetByIPAnyIface(a) ==
    LET names == {n \in Name : a \in GetIPs(n)}
    IN  IF ~started \/ Cardinality(names) > 1 THEN Failure("error")
        ELSE IF names = {} THEN Failure("notFound")
        ELSE Transform(cache[CHOOSE n \in names : TRUE][1])

GetByIP(a) == Lookup({n \in Name : a \in GetIPs(n)}, "ip", a)

-----------------------------------------------------------------------------
(* Properties. *)

\* The record of the first interface of n that has address a.
FirstWith(n, by, a) ==
    LET i == CHOOSE i \in 1..Len(cache[n]) :
               cache[n][i][by] = a /\ \A j \in 1..(i - 1) : cache[n][j][by] # a
    IN  Transform(cache[n][i])

\* A lookup answers with a record only if one object alone has the address, and
\* then with that of its first interface that has it.
Unambiguous ==
    /\ \A a \in Mac : GetByMac(a).st = "ok" =>
        \E n \in Name : /\ \A o \in Name : a \in GetMACs(o) <=> o = n
                        /\ FirstWith(n, "mac", a) = GetByMac(a)
    /\ \A a \in IP : GetByIP(a).st = "ok" =>
        \E n \in Name : /\ \A o \in Name : a \in GetIPs(o) <=> o = n
                        /\ FirstWith(n, "ip", a) = GetByIP(a)

\* A machine is not found only if no object has an interface for its mac.
NotFoundMeansAbsent ==
    \A m \in Mac : GetByMac(m).st = "notFound" =>
        \A n \in Name : \A f \in Ifaces(n) : f.dhcp => f.mac # m

\* The comment on toDHCPData: "if required fields are missing, an error is
\* returned".  A lookup returns an error for an object with a part missing.
MissingFieldsAreErrors ==
    /\ \A m \in Mac : GetByMac(m).st # "panic"
    /\ \A a \in IP : GetByIP(a).st # "panic"
=============================================================================
