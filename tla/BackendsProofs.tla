--------------------------- MODULE BackendsProofs ---------------------------
(***************************************************************************)
(* What the handlers may rely on, whichever backend they were given, for   *)
(* all records: the lookups of the kube and the file backend find a record *)
(* by an address it has, without mixing up objects, interfaces or entries. *)
(***************************************************************************)
EXTENDS Backends, FiniteSetTheorems, WellFoundedInduction, SequenceTheorems, TLAPS

-----------------------------------------------------------------------------
(* Types. *)

\* Every choice and every change of the records keeps the state well typed, and
\* a backend that was not chosen idle.
THEOREM BackendsTypeCorrect == BackendsSpec => []BackendsTypeOK
<1>1. BackendsInit => BackendsTypeOK
  <2> SUFFICES ASSUME BackendsInit PROVE BackendsTypeOK
    OBVIOUS
  <2> USE DEF BackendsInit, Init
  <2>1. <<>> \in Objects
    BY MaxIfacesAssumption DEF Objects
  <2>2. TypeOK
    BY <2>1 DEF TypeOK
  <2>3. File!TypeOK
    BY DEF File!TypeOK, File!Contents
  <2>4. ~started /\ \A n \in Name : cache[n] = <<>>
    OBVIOUS
  <2> QED BY <2>2, <2>3, <2>4 DEF BackendsTypeOK
<1>2. BackendsTypeOK /\ [BackendsNext]_allVars => BackendsTypeOK'
  <2> SUFFICES ASSUME BackendsTypeOK, [BackendsNext]_allVars PROVE BackendsTypeOK'
    OBVIOUS
  <2> USE DEF BackendsTypeOK, File!TypeOK, vars
  <2>1. ASSUME NEW file \in BOOLEAN, NEW noop \in BOOLEAN, NEW mode \in DhcpMode,
               Choose(file, noop, mode)
        PROVE  BackendsTypeOK'
    <3>1. ChosenReader(file, noop, mode) \in {"refused", "noop", "file", "kube"}
      BY DEF ChosenReader
    <3>2. reader' \in {"none", "refused", "noop", "file", "kube"} /\ TypeOK'
      BY <2>1, <3>1 DEF Choose, TypeOK
    <3>3. data' \in File!Contents
      BY <2>1 DEF Choose
    <3>4. (reader' # "file" => data' = Malformed) /\ ~started' /\ \A n \in Name : cache'[n] = <<>>
      BY <2>1 DEF Choose
    <3> QED BY <3>2, <3>3, <3>4
  <2>2. CASE reader = "file" /\ File!Next /\ UNCHANGED <<vars, reader>>
    BY <2>2 DEF File!Next, File!Publish, TypeOK
  <2>3. CASE reader = "kube" /\ Next /\ UNCHANGED <<reader, data>>
    <3>1. CASE Start
      BY <2>3, <3>1 DEF Start, TypeOK
    <3>2. ASSUME NEW n \in Name, NEW obj \in Objects, Change(n, obj) PROVE TypeOK'
      BY <3>2 DEF Change, TypeOK
    <3> QED BY <2>3, <3>1, <3>2 DEF Next
  <2>4. CASE UNCHANGED allVars
    BY <2>4 DEF allVars, TypeOK
  <2> QED BY <2>1, <2>2, <2>3, <2>4 DEF BackendsNext
<1> QED BY <1>1, <1>2, PTL DEF BackendsSpec

-----------------------------------------------------------------------------
(* The kube backend. *)

\* A set of numbers that is not empty has a least element.
LEMMA Least ==
    ASSUME NEW S, S \subseteq Nat, S # {}
    PROVE  \E x \in S : \A y \in S : x <= y
<1> DEFINE R == {ss \in Nat \X Nat : ss[1] < ss[2]}
<1>1. IsWellFoundedOn(R, Nat)
  BY NatLessThanWellFounded DEF OpToRel
<1> HIDE DEF R
<1>2. PICK x \in S : \A y \in S : <<y, x>> \notin R
  BY <1>1, WFMin
<1>3. \A y \in S : ~(y < x)
  BY <1>2 DEF R
<1> QED BY <1>2, <1>3

\* An object is the sequence of its interfaces.
LEMMA ObjectIsSequence ==
    ASSUME TypeOK, NEW n \in Name
    PROVE  /\ cache[n] \in Seq(Iface) /\ Len(cache[n]) \in Nat
           /\ \A i \in 1..Len(cache[n]) : cache[n][i] \in Iface
<1>1. cache[n] \in Objects
  BY DEF TypeOK
<1>2. PICK k \in Nat : cache[n] \in [1..k -> Iface]
  BY <1>1, MaxIfacesAssumption DEF Objects
<1>3. cache[n] \in Seq(Iface)
  BY <1>2
<1> QED BY <1>3

\* A scan that gives a record gives that of the first interface with the address.
LEMMA ScanIsFirst ==
    ASSUME NEW obj \in Seq(Iface), NEW by, NEW a, Scan(obj, by, a).st = "ok"
    PROVE  \E i \in 1..Len(obj) :
             /\ obj[i][by] = a /\ \A j \in 1..(i - 1) : obj[j][by] # a
             /\ Scan(obj, by, a) = Transform(obj[i])
<1> DEFINE stops == {i \in 1..Len(obj) : ~Readable(obj[i], by) \/ obj[i][by] = a}
           first == CHOOSE i \in stops : \A j \in stops : i <= j
<1>1. stops # {}
  BY DEF Scan, Failure
<1>2. stops \subseteq Nat
  OBVIOUS
<1>3. \E i \in stops : \A j \in stops : i <= j
  <2> HIDE DEF stops
  <2> QED BY <1>1, <1>2, Least
<1>4. first \in stops /\ \A j \in stops : first <= j
  <2> HIDE DEF stops
  <2> QED BY <1>3
<1>5. Scan(obj, by, a) = IF ~Readable(obj[first], by) THEN Failure("panic")
                         ELSE Transform(obj[first])
  BY <1>1 DEF Scan
<1> HIDE DEF first
<1>6. Readable(obj[first], by) /\ Scan(obj, by, a) = Transform(obj[first])
  <2>1. Failure("panic").st # "ok"
    BY DEF Failure
  <2> QED BY <1>5, <2>1
<1>7. first \in 1..Len(obj) /\ obj[first][by] = a
  BY <1>4, <1>6
<1>8. \A j \in 1..(first - 1) : j \in 1..Len(obj) /\ j \notin stops
  <2> HIDE DEF stops
  <2> QED BY <1>4, <1>7
<1>9. \A j \in 1..(first - 1) : obj[j][by] # a
  BY <1>8
<1> QED BY <1>6, <1>7, <1>9

\* That interface is the one FirstWith speaks of.
LEMMA FirstIsUnique ==
    ASSUME TypeOK, NEW n \in Name, NEW by, NEW a, NEW i \in 1..Len(cache[n]),
           cache[n][i][by] = a, \A j \in 1..(i - 1) : cache[n][j][by] # a
    PROVE  FirstWith(n, by, a) = Transform(cache[n][i])
<1> DEFINE First(k) == cache[n][k][by] = a /\ \A j \in 1..(k - 1) : cache[n][j][by] # a
<1>1. Len(cache[n]) \in Nat
  BY ObjectIsSequence
<1>2. First(i)
  OBVIOUS
<1>3. \A k \in 1..Len(cache[n]) : First(k) => k = i
  BY <1>1
<1>4. (CHOOSE k \in 1..Len(cache[n]) : First(k)) = i
  <2> HIDE DEF First
  <2> QED BY <1>2, <1>3
<1> QED BY <1>4 DEF FirstWith

\* A record that is found comes from the only object with the address.
LEMMA LookupIsUnique ==
    ASSUME TypeOK, NEW names, names \subseteq Name, NEW by, NEW a,
           Lookup(names, by, a).st = "ok"
    PROVE  \E n \in Name : \E i \in 1..Len(cache[n]) :
             /\ names = {n} /\ cache[n][i][by] = a
             /\ Lookup(names, by, a) = Transform(cache[n][i])
             /\ FirstWith(n, by, a) = Transform(cache[n][i])
<1>1. \A st : Failure(st).st = st
  BY DEF Failure
<1>2. names # {} /\ ~(Cardinality(names) > 1)
      /\ Lookup(names, by, a) = Scan(cache[CHOOSE n \in names : TRUE], by, a)
  BY <1>1 DEF Lookup
<1>3. IsFiniteSet(names)
  BY NameAssumption, FS_Subset
<1>4. Cardinality(names) \in Nat /\ Cardinality(names) # 0
  BY <1>2, <1>3, FS_CardinalityType, FS_EmptySet
<1>5. Cardinality(names) = 1
  BY <1>2, <1>4
<1>6. PICK n : names = {n}
  BY <1>3, <1>5, FS_Singleton
<1>7. n \in Name /\ (CHOOSE m \in names : TRUE) = n
  BY <1>6
<1>8. cache[n] \in Seq(Iface) /\ Lookup(names, by, a) = Scan(cache[n], by, a)
  BY <1>2, <1>7, ObjectIsSequence
<1>9. PICK i \in 1..Len(cache[n]) :
        /\ cache[n][i][by] = a /\ \A j \in 1..(i - 1) : cache[n][j][by] # a
        /\ Scan(cache[n], by, a) = Transform(cache[n][i])
  BY <1>8, ScanIsFirst
<1>10. FirstWith(n, by, a) = Transform(cache[n][i])
  BY <1>7, <1>9, FirstIsUnique
<1> QED BY <1>6, <1>7, <1>8, <1>9, <1>10

\* What a successful transform has read.
LEMMA TransformIs ==
    ASSUME NEW f, Transform(f).st = "ok"
    PROVE  /\ f.dhcp /\ f.mac # "" /\ f.ip \notin {"", "nil"}
           /\ Transform(f).mac = f.mac /\ Transform(f).ip = f.ip
<1>1. Failure("error").st # "ok"
  BY DEF Failure
<1>2. f.dhcp /\ f.mac # "" /\ f.ip \notin {"", "nil"} /\ f.valid /\ f.netboot
  BY <1>1 DEF Transform
<1> QED BY <1>2 DEF Transform

\* A machine's record comes from the only object that has its mac, and the same
\* by address: the invariant Unambiguous follows from the types.
LEMMA TypesGiveUnambiguous == TypeOK => Unambiguous
<1> SUFFICES ASSUME TypeOK PROVE Unambiguous
  OBVIOUS
<1>1. ASSUME NEW a \in Mac, GetByMac(a).st = "ok"
      PROVE  \E n \in Name : /\ \A o \in Name : a \in GetMACs(o) <=> o = n
                             /\ FirstWith(n, "mac", a) = GetByMac(a)
  <2> DEFINE names == {n \in Name : a \in GetMACs(n)}
  <2>1. GetByMac(a) = Lookup(names, "mac", a)
    BY DEF GetByMac
  <2>2. names \subseteq Name
    OBVIOUS
  <2>3. PICK n \in Name : names = {n} /\ FirstWith(n, "mac", a) = Lookup(names, "mac", a)
    <3> HIDE DEF names
    <3> QED BY <1>1, <2>1, <2>2, LookupIsUnique
  <2> QED BY <2>1, <2>3
<1>2. ASSUME NEW a \in IP, GetByIP(a).st = "ok"
      PROVE  \E n \in Name : /\ \A o \in Name : a \in GetIPs(o) <=> o = n
                             /\ FirstWith(n, "ip", a) = GetByIP(a)
  <2> DEFINE names == {n \in Name : a \in GetIPs(n)}
  <2>1. GetByIP(a) = Lookup(names, "ip", a)
    BY DEF GetByIP
  <2>2. names \subseteq Name
    OBVIOUS
  <2>3. PICK n \in Name : names = {n} /\ FirstWith(n, "ip", a) = Lookup(names, "ip", a)
    <3> HIDE DEF names
    <3> QED BY <1>2, <2>1, <2>2, LookupIsUnique
  <2> QED BY <2>1, <2>3
<1> QED BY <1>1, <1>2 DEF Unambiguous

\* The outcome of a lookup is notFound only where no object is indexed.
LEMMA NotFoundHasNoName ==
    ASSUME NEW names, NEW by, NEW a, Lookup(names, by, a).st = "notFound"
    PROVE  names = {}
<1>1. \A st : Failure(st).st = st
  BY DEF Failure
<1>2. \A f : Transform(f).st # "notFound"
  BY <1>1 DEF Transform
<1>3. \A obj : Scan(obj, by, a).st # "notFound"
  BY <1>1, <1>2 DEF Scan
<1> QED BY <1>1, <1>3 DEF Lookup

\* The index of macs leaves no interface with a mac out.
LEMMA AbsentIsNotFound == NotFoundMeansAbsent
<1> SUFFICES ASSUME NEW m \in Mac, GetByMac(m).st = "notFound", NEW n \in Name,
                    NEW f \in Ifaces(n), f.dhcp, f.mac = m
             PROVE  FALSE
  BY DEF NotFoundMeansAbsent
<1>1. {o \in Name : m \in GetMACs(o)} = {}
  BY NotFoundHasNoName DEF GetByMac
<1>2. m # ""
  BY AddressAssumption
<1>3. m \in GetMACs(n)
  BY <1>2 DEF GetMACs
<1> QED BY <1>1, <1>3

\* In every state of the kube backend, however Hardware objects share addresses,
\* a lookup answers with a record only if one object alone has the address, and
\* then with that of its first interface that has it.
THEOREM KubeIsUnambiguous == BackendsSpec => []Unambiguous
<1>1. BackendsTypeOK => Unambiguous
  BY TypesGiveUnambiguous DEF BackendsTypeOK
<1> QED BY <1>1, BackendsTypeCorrect, PTL

\* A lookup by mac does not miss an interface that the cluster has.
THEOREM KubeMissesNone == BackendsSpec => []NotFoundMeansAbsent
<1>1. BackendsTypeOK => NotFoundMeansAbsent
  BY AbsentIsNotFound
<1> QED BY <1>1, BackendsTypeCorrect, PTL

\* A record the kube backend finds is that of an interface with the address, and
\* of the one object that is indexed under it.
LEMMA KubeRecord ==
    ASSUME TypeOK
    PROVE  /\ \A m \in Mac : GetByMac(m).st = "ok" =>
                \E n \in Name : \E i \in 1..Len(cache[n]) :
                  /\ {o \in Name : m \in GetMACs(o)} = {n}
                  /\ GetByMac(m) = Transform(cache[n][i]) /\ cache[n][i].mac = m
           /\ \A a \in IP : GetByIP(a).st = "ok" =>
                \E n \in Name : \E i \in 1..Len(cache[n]) :
                  /\ {o \in Name : a \in GetIPs(o)} = {n}
                  /\ GetByIP(a) = Transform(cache[n][i]) /\ cache[n][i].ip = a
<1>1. ASSUME NEW m \in Mac, GetByMac(m).st = "ok"
      PROVE  \E n \in Name : \E i \in 1..Len(cache[n]) :
               /\ {o \in Name : m \in GetMACs(o)} = {n}
               /\ GetByMac(m) = Transform(cache[n][i]) /\ cache[n][i].mac = m
  <2> DEFINE names == {o \in Name : m \in GetMACs(o)}
  <2>1. GetByMac(m) = Lookup(names, "mac", m) /\ names \subseteq Name
    BY DEF GetByMac
  <2> HIDE DEF names
  <2>2. Lookup(names, "mac", m).st = "ok"
    BY <1>1, <2>1
  <2>3. \E n \in Name : \E i \in 1..Len(cache[n]) :
          /\ names = {n} /\ cache[n][i]["mac"] = m
          /\ Lookup(names, "mac", m) = Transform(cache[n][i])
          /\ FirstWith(n, "mac", m) = Transform(cache[n][i])
    BY <2>1, <2>2, LookupIsUnique, SMTT(30)
  <2>4. PICK n \in Name, i \in Nat :
          /\ i \in 1..Len(cache[n]) /\ names = {n} /\ cache[n][i]["mac"] = m
          /\ Lookup(names, "mac", m) = Transform(cache[n][i])
    BY <2>3
  <2>5. cache[n][i].mac = m
    BY <2>4
  <2> QED BY <2>1, <2>4, <2>5 DEF names
<1>2. ASSUME NEW a \in IP, GetByIP(a).st = "ok"
      PROVE  \E n \in Name : \E i \in 1..Len(cache[n]) :
               /\ {o \in Name : a \in GetIPs(o)} = {n}
               /\ GetByIP(a) = Transform(cache[n][i]) /\ cache[n][i].ip = a
  <2> DEFINE names == {o \in Name : a \in GetIPs(o)}
  <2>1. GetByIP(a) = Lookup(names, "ip", a) /\ names \subseteq Name
    BY DEF GetByIP
  <2> HIDE DEF names
  <2>2. Lookup(names, "ip", a).st = "ok"
    BY <1>2, <2>1
  <2>3. \E n \in Name : \E i \in 1..Len(cache[n]) :
          /\ names = {n} /\ cache[n][i]["ip"] = a
          /\ Lookup(names, "ip", a) = Transform(cache[n][i])
          /\ FirstWith(n, "ip", a) = Transform(cache[n][i])
    BY <2>1, <2>2, LookupIsUnique, SMTT(30)
  <2>4. PICK n \in Name, i \in Nat :
          /\ i \in 1..Len(cache[n]) /\ names = {n} /\ cache[n][i]["ip"] = a
          /\ Lookup(names, "ip", a) = Transform(cache[n][i])
    BY <2>3
  <2>5. cache[n][i].ip = a
    BY <2>4
  <2> QED BY <2>1, <2>4, <2>5 DEF names
<1> QED BY <1>1, <1>2

\* By mac and by address the kube backend finds the same record, if the object's
\* interfaces share no address; the address may well be indexed elsewhere too.
LEMMA KubeLookupsAgree ==
    ASSUME TypeOK, NEW m \in Mac, GetByMac(m).st = "ok",
           \A n \in Name : \A i, j \in 1..Len(cache[n]) : i # j =>
             cache[n][i].mac # cache[n][j].mac /\ cache[n][i].ip # cache[n][j].ip,
           GetByIP(GetByMac(m).ip).st = "ok"
    PROVE  GetByIP(GetByMac(m).ip) = GetByMac(m)
<1> DEFINE a == GetByMac(m).ip
<1>0. PICK n \in Name : \E i \in 1..Len(cache[n]) : GetByMac(m) = Transform(cache[n][i])
  BY KubeRecord
<1>1. PICK i \in 1..Len(cache[n]) : GetByMac(m) = Transform(cache[n][i])
  BY <1>0
<1>2. cache[n][i].dhcp /\ cache[n][i].ip = a /\ a \notin {"", "nil"}
  <2> DEFINE f == cache[n][i]
  <2>1. Transform(f).st = "ok" /\ Transform(f).ip = a
    BY <1>1
  <2> HIDE DEF f, a
  <2>2. f.dhcp /\ f.ip = a /\ f.ip \notin {"", "nil"}
    BY <2>1, TransformIs
  <2> QED BY <2>2 DEF f
<1>3. a \in IP
  <2>1. cache[n][i] \in Iface
    BY ObjectIsSequence
  <2> QED BY <1>2, <2>1, IfaceAssumption
<1>4. a \in GetIPs(n)
  <2>1. cache[n][i] \in Ifaces(n)
    BY DEF Ifaces
  <2> QED BY <1>2, <2>1 DEF GetIPs
<1> HIDE DEF a
<1>5. PICK o \in Name :
        /\ {x \in Name : a \in GetIPs(x)} = {o}
        /\ \E j \in 1..Len(cache[o]) :
             GetByIP(a) = Transform(cache[o][j]) /\ cache[o][j].ip = a
  BY <1>3, KubeRecord DEF a
<1>6. o = n
  BY <1>4, <1>5
<1>7. PICK j \in 1..Len(cache[n]) :
        GetByIP(a) = Transform(cache[n][j]) /\ cache[n][j].ip = a
  BY <1>5, <1>6
<1>8. j = i
  BY <1>2, <1>7
<1> QED BY <1>1, <1>7, <1>8 DEF a

-----------------------------------------------------------------------------
(* The file backend. *)

\* What a successful translate has read.
LEMMA TranslateIs ==
    ASSUME NEW m, NEW e
    PROVE  /\ e.ip # "" /\ e.valid => File!Translate(m, e).st = "ok"
           /\ File!Translate(m, e).st = "ok" =>
                /\ e.ip # ""
                /\ File!Translate(m, e).mac = m /\ File!Translate(m, e).ip = e.ip
<1>1. File!Failure("error").st # "ok"
  BY DEF File!Failure
<1>2. CASE e.ip # "" /\ e.valid
  BY <1>2 DEF File!Translate
<1>3. CASE ~(e.ip # "" /\ e.valid)
  BY <1>1, <1>3 DEF File!Translate
<1> QED BY <1>2, <1>3

\* A record that the file backend finds is the translation of an entry that has
\* the mac, or the address, asked for.
LEMMA FileRecord ==
    /\ \A m \in Mac : \A r \in File!GetByMac(m) : r.st = "ok" =>
         /\ data # Malformed
         /\ \E k \in DOMAIN data : /\ k.spelling \in {"lower", "upper"} /\ k.mac = m
                                   /\ r = File!Translate(m, data[k])
    /\ \A a \in IP : \A r \in File!GetByIP(a) : r.st = "ok" =>
         /\ data # Malformed
         /\ \E k \in DOMAIN data : /\ data[k].printed /\ data[k].ip = a
                                   /\ r = File!Translate(k.mac, data[k])
<1>1. \A st : File!Failure(st).st = st
  BY DEF File!Failure
<1>2. ASSUME NEW m \in Mac, NEW r \in File!GetByMac(m), r.st = "ok"
      PROVE  /\ data # Malformed
             /\ \E k \in DOMAIN data : /\ k.spelling \in {"lower", "upper"} /\ k.mac = m
                                       /\ r = File!Translate(m, data[k])
  BY <1>1, <1>2 DEF File!GetByMac
<1>3. ASSUME NEW a \in IP, NEW r \in File!GetByIP(a), r.st = "ok"
      PROVE  /\ data # Malformed
             /\ \E k \in DOMAIN data : /\ data[k].printed /\ data[k].ip = a
                                       /\ r = File!Translate(k.mac, data[k])
  BY <1>1, <1>3 DEF File!GetByIP
<1> QED BY <1>2, <1>3

\* A valid entry that is alone in having its mac or its address is found.
LEMMA FileIsolated == Isolated
<1> SUFFICES ASSUME data # Malformed, NEW k \in DOMAIN data,
                    data[k].ip # "", data[k].valid
             PROVE  /\ k.spelling \in {"lower", "upper"}
                         /\ (\A l \in DOMAIN data : l.mac = k.mac => l = k)
                       => \E r \in File!GetByMac(k.mac) :
                            r.st = "ok" /\ File!GetByMac(k.mac) = {r}
                    /\ k.spelling # "none" /\ data[k].printed
                         /\ (\A l \in DOMAIN data : data[l].ip = data[k].ip => l = k)
                       => \E r \in File!GetByIP(data[k].ip) :
                            r.st = "ok" /\ File!GetByIP(data[k].ip) = {r}
  BY DEF Isolated, File!Isolated
<1> DEFINE r == File!Translate(k.mac, data[k])
<1>0. r.st = "ok"
  BY TranslateIs
<1> HIDE DEF r
<1>1. ASSUME k.spelling \in {"lower", "upper"},
             \A l \in DOMAIN data : l.mac = k.mac => l = k
      PROVE  File!GetByMac(k.mac) = {r}
  <2> DEFINE hits == {l \in DOMAIN data : l.spelling \in {"lower", "upper"} /\ l.mac = k.mac}
  <2>1. hits = {k}
    BY <1>1
  <2>2. {File!Translate(k.mac, data[l]) : l \in hits} = {r}
    BY <2>1 DEF r
  <2> QED BY <2>1, <2>2 DEF File!GetByMac
<1>2. ASSUME k.spelling # "none", data[k].printed,
             \A l \in DOMAIN data : data[l].ip = data[k].ip => l = k
      PROVE  File!GetByIP(data[k].ip) = {r}
  <2> DEFINE hits == {l \in DOMAIN data : data[l].printed /\ data[l].ip = data[k].ip}
             res(l) == IF l.spelling = "none" THEN File!Failure("error")
                       ELSE File!Translate(l.mac, data[l])
  <2>1. hits = {k}
    BY <1>2
  <2>2. res(k) = r
    BY <1>2 DEF r
  <2>3. {res(l) : l \in hits} = {r}
    <3> HIDE DEF res, hits
    <3> QED BY <2>1, <2>2
  <2> QED BY <2>1, <2>3 DEF File!GetByIP
<1> QED BY <1>0, <1>1, <1>2

\* By mac and by address the file backend finds the same record, if no two
\* entries share a mac or an address.
LEMMA FileLookupsAgree ==
    ASSUME File!TypeOK, File!OneEach, NEW m \in Mac, NEW r \in File!GetByMac(m), r.st = "ok"
    PROVE  /\ File!GetByMac(m) = {r}
           /\ \A q \in File!GetByIP(r.ip) : q.st = "ok" => q = r
<1>1. PICK k \in DOMAIN data : /\ k.spelling \in {"lower", "upper"} /\ k.mac = m
                               /\ r = File!Translate(m, data[k])
  BY FileRecord
<1>2. data # Malformed
  BY FileRecord
<1>3. /\ \A l \in DOMAIN data : l.mac = k.mac => l = k
      /\ \A l \in DOMAIN data : l # k => data[l].ip # data[k].ip \/ data[k].ip = ""
  BY <1>2 DEF File!OneEach
<1>4. r.ip = data[k].ip /\ data[k].ip # ""
  <2> DEFINE e == data[k]
  <2>1. r = File!Translate(m, e) /\ File!Translate(m, e).st = "ok"
    BY <1>1
  <2> HIDE DEF e
  <2>2. File!Translate(m, e).ip = e.ip /\ e.ip # ""
    <3>1. File!Translate(m, e).st = "ok" =>
            /\ e.ip # ""
            /\ File!Translate(m, e).mac = m /\ File!Translate(m, e).ip = e.ip
      BY ONLY TranslateIs, ZenonT(60)
    <3> QED BY <2>1, <3>1
  <2> QED BY <2>1, <2>2 DEF e
<1>5. File!GetByMac(m) = {r}
  <2> DEFINE hits == {l \in DOMAIN data : l.spelling \in {"lower", "upper"} /\ l.mac = m}
  <2>1. hits = {k}
    BY <1>1, <1>3
  <2>2. {File!Translate(m, data[l]) : l \in hits} = {r}
    BY <1>1, <2>1
  <2> QED BY <1>2, <2>1, <2>2 DEF File!GetByMac
<1>6. ASSUME NEW q \in File!GetByIP(r.ip), q.st = "ok" PROVE q = r
  <2>1. r.ip \in IP
    <3>1. data[k] \in Entry
      BY <1>2 DEF File!TypeOK, File!Contents, File!Files
    <3> QED BY <1>4, <3>1, EntryAssumption
  <2>2. PICK l \in DOMAIN data : data[l].ip = r.ip /\ q = File!Translate(l.mac, data[l])
    BY <1>6, <2>1, FileRecord
  <2>3. l = k
    BY <1>3, <1>4, <2>2
  <2> QED BY <1>1, <2>2, <2>3
<1> QED BY <1>5, <1>6

-----------------------------------------------------------------------------
(* Whichever backend was chosen. *)

\* Whichever backend a handler has, a record found for a mac has that mac and
\* one found for an address that address, in every state of the records.
THEOREM RecordsAreOwn == BackendsSpec => []OwnRecord
<1>1. BackendsTypeOK => OwnRecord
  <2> SUFFICES ASSUME BackendsTypeOK PROVE OwnRecord
    OBVIOUS
  <2>0. TypeOK /\ Failure("error").st # "ok"
    BY DEF BackendsTypeOK, Failure
  <2>1. ASSUME NEW m \in Mac, NEW r \in ReaderByMac(m), r.st = "ok" PROVE r.mac = m
    <3>1. CASE reader = "file"
      <4>1. r \in File!GetByMac(m)
        BY <2>1, <3>1 DEF ReaderByMac
      <4>2. PICK k \in DOMAIN data : r = File!Translate(m, data[k])
        BY <2>1, <4>1, FileRecord
      <4>3. File!Translate(m, data[k]).st = "ok" => File!Translate(m, data[k]).mac = m
        BY ONLY TranslateIs, ZenonT(60)
      <4> QED BY <2>1, <4>2, <4>3
    <3>2. CASE reader = "kube"
      <4>1. r = GetByMac(m)
        BY <2>1, <3>2 DEF ReaderByMac
      <4>2. PICK f : r = Transform(f) /\ f.mac = m
        BY <2>0, <2>1, <4>1, KubeRecord
      <4> QED BY <2>1, <4>2, TransformIs
    <3>3. CASE reader \notin {"file", "kube"}
      BY <2>0, <2>1, <3>3 DEF ReaderByMac
    <3> QED BY <3>1, <3>2, <3>3
  <2>2. ASSUME NEW a \in IP, NEW r \in ReaderByIP(a), r.st = "ok" PROVE r.ip = a
    <3>1. CASE reader = "file"
      <4>1. r \in File!GetByIP(a)
        BY <2>2, <3>1 DEF ReaderByIP
      <4>2. PICK mac, e : e.ip = a /\ r = File!Translate(mac, e)
        BY <2>2, <4>1, FileRecord
      <4>3. File!Translate(mac, e).st = "ok" => File!Translate(mac, e).ip = e.ip
        BY ONLY TranslateIs, ZenonT(60)
      <4> QED BY <2>2, <4>2, <4>3
    <3>2. CASE reader = "kube"
      <4>1. r = GetByIP(a)
        BY <2>2, <3>2 DEF ReaderByIP
      <4>2. PICK f : r = Transform(f) /\ f.ip = a
        BY <2>0, <2>2, <4>1, KubeRecord
      <4> QED BY <2>2, <4>2, TransformIs
    <3>3. CASE reader \notin {"file", "kube"}
      BY <2>0, <2>2, <3>3 DEF ReaderByIP
    <3> QED BY <3>1, <3>2, <3>3
  <2> QED BY <2>1, <2>2 DEF OwnRecord
<1> QED BY <1>1, BackendsTypeCorrect, PTL

\* Where no address is shared, the DHCP handler's lookup by mac and the script
\* handler's lookup by address lead to the same record.
THEOREM HandlersAgree == BackendsSpec => []LookupsAgree
<1>1. BackendsTypeOK => LookupsAgree
  <2> SUFFICES ASSUME BackendsTypeOK, NoSharedAddress, NEW m \in Mac,
                      NEW r \in ReaderByMac(m), r.st = "ok"
               PROVE  /\ ReaderByMac(m) = {r}
                      /\ \A q \in ReaderByIP(r.ip) : q.st = "ok" => q = r
    BY DEF LookupsAgree
  <2>1. CASE reader = "file"
    <3>1. /\ File!TypeOK /\ File!OneEach
          /\ ReaderByMac(m) = File!GetByMac(m) /\ ReaderByIP(r.ip) = File!GetByIP(r.ip)
      BY <2>1 DEF BackendsTypeOK, NoSharedAddress, ReaderByMac, ReaderByIP
    <3> QED BY <3>1, FileLookupsAgree
  <2>2. CASE reader = "kube"
    <3>1. /\ TypeOK
          /\ \A n \in Name : \A i, j \in 1..Len(cache[n]) : i # j =>
               cache[n][i].mac # cache[n][j].mac /\ cache[n][i].ip # cache[n][j].ip
          /\ ReaderByMac(m) = {GetByMac(m)} /\ ReaderByIP(r.ip) = {GetByIP(r.ip)}
      BY <2>2 DEF BackendsTypeOK, NoSharedAddress, ReaderByMac, ReaderByIP
    <3>2. r = GetByMac(m)
      BY <3>1
    <3> QED BY <3>1, <3>2, KubeLookupsAgree
  <2>3. CASE reader \notin {"file", "kube"}
    <3>1. Failure("error").st # "ok"
      BY DEF Failure
    <3> QED BY <2>3, <3>1 DEF ReaderByMac
  <2> QED BY <2>1, <2>2, <2>3
<1> QED BY <1>1, BackendsTypeCorrect, PTL

\* A wrong entry or key of the file keeps no valid entry from being found.
THEOREM WrongEntriesAreIsolated == BackendsSpec => []Isolated
<1>1. BackendsTypeOK => Isolated
  BY FileIsolated
<1> QED BY <1>1, BackendsTypeCorrect, PTL
=============================================================================
