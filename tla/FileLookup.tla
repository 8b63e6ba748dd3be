------------------------------ MODULE FileLookup ------------------------------
(***************************************************************************)
(* internal/backend/file/file.go: lookups in the data that the watcher has *)
(* published last.                                                         *)
(*                                                                         *)
(* The data is YAML: a function from keys to entries, or Malformed.  A key *)
(* names a mac in some spelling: "lower" and "upper" with colons, "dash"   *)
(* for the others net.ParseMAC takes, "none" when it is no mac at all.  An *)
(* entry has:                                                              *)
(*   ip       the address it names, "" if that does not parse;             *)
(*   printed  whether ip is spelled the way net.IP prints it;              *)
(*   valid    whether subnet mask and script URL are there and parse;      *)
(*   disabled and allow (allowPxe).                                        *)
(* Go iterates over a map in any order, so a lookup has a set of results.  *)
(***************************************************************************)
EXTENDS Naturals, FiniteSets

CONSTANTS
    Key,        \* what a key may be: [mac, spelling]
    Entry,      \* what an entry may be
    Mac, IP,    \* addresses asked for
    Malformed,  \* data that does not unmarshal
    MaxEntries  \* bound on the entries of a file

VARIABLE data  \* w.data

Files == UNION {[ks -> Entry] : ks \in {s \in SUBSET Key : Cardinality(s) <= MaxEntries}}

\* What NewWatcher or Start may have read.
Contents == Files \cup {Malformed}

TypeOK == data \in Contents

Publish(f) == data # f /\ data' = f

Next == \E f \in Contents : Publish(f)

-----------------------------------------------------------------------------

Failure(st) == [st |-> st, mac |-> "", ip |-> "", disabled |-> FALSE, allow |-> FALSE]

\* translate: address, subnet mask and script URL can make it fail.
Translate(mac, e) ==
    IF e.ip # "" /\ e.valid
    THEN [st |-> "ok", mac |-> mac, ip |-> e.ip, disabled |-> e.disabled, allow |-> e.allow]
    ELSE Failure("error")

\* Mutant: all records are translated before one is looked up.
GetByMacTranslatingAll(m) ==
    IF data = Malformed THEN {Failure("error")}
    ELSE LET hits == {k \in DOMAIN data : k.spelling \in {"lower", "upper"} /\ k.mac = m}
         IN  IF \E k \in DOMAIN data : Translate(k.mac, data[k]).st = "error"
             THEN {Failure("error")}
             ELSE IF hits = {} THEN {Failure("notFound")}
             ELSE {Translate(m, data[k]) : k \in hits}

\* Any one key that equals the printed mac but for upper and lower case.
GetByMac(m) ==
    IF data = Malformed THEN {Failure("error")}
    ELSE LET hits == {k \in DOMAIN data : k.spelling \in {"lower", "upper"} /\ k.mac = m}
         IN  IF hits = {} THEN {Failure("notFound")}
             ELSE {Translate(m, data[k]) : k \in hits}

\* Mutant: the mac is not taken from the key.
GetByIPWithoutMac(a) ==
    IF data = Malformed THEN {Failure("error")}
    ELSE LET hits == {k \in DOMAIN data : data[k].printed /\ data[k].ip = a}
         IN  IF hits = {} THEN {Failure("notFound")}
             ELSE {Translate("", data[k]) : k \in hits}

\* Any one entry whose address is spelled as a is printed; its key must parse.
GetByIP(a) ==
    IF data = Malformed THEN {Failure("error")}
    ELSE LET hits == {k \in DOMAIN data : data[k].printed /\ data[k].ip = a}
         IN  IF hits = {} THEN {Failure("notFound")}
             ELSE {IF k.spelling = "none" THEN Failure("error") ELSE Translate(k.mac, data[k]) :
                     k \in hits}

-----------------------------------------------------------------------------
(* Properties. *)

\* No two entries of the file are for the same mac or have the same address.
OneEach ==
    data # Malformed => \A k, l \in DOMAIN data : k # l =>
        k.mac # l.mac /\ (data[k].ip # data[l].ip \/ data[k].ip = "")

\* A record that is wrong, or whose key is no mac, spoils no other: whatever
\* else the file says, a valid entry is found by its mac and by its address if
\* it is the only one for them.
Isolated ==
    data # Malformed => \A k \in DOMAIN data :
        LET e == data[k] IN
        e.ip # "" /\ e.valid =>
            /\ k.spelling \in {"lower", "upper"} /\ (\A l \in DOMAIN data : l.mac = k.mac => l = k)
                 => \E r \in GetByMac(k.mac) : r.st = "ok" /\ GetByMac(k.mac) = {r}
            /\ k.spelling # "none" /\ e.printed
                 /\ (\A l \in DOMAIN data : data[l].ip = e.ip => l = k)
                 => \E r \in GetByIP(e.ip) : r.st = "ok" /\ GetByIP(e.ip) = {r}
=============================================================================
