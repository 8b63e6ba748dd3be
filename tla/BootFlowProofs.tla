--------------------------- MODULE BootFlowProofs ---------------------------
(***************************************************************************)
(* No boot loop, no script for a machine that was denied it and no         *)
(* script of another machine, for any machines, records and ways to        *)
(* netboot, in every DHCP mode and with packets and views as late as can   *)
(* be.                                                                     *)
(***************************************************************************)
EXTENDS BootFlow, TLAPS

\* What is kept of each machine is a function on the machines.
Shapes ==
    /\ replies = [m \in Machines |-> replies[m]]
    /\ file = [m \in Machines |-> file[m]]
    /\ ip = [m \in Machines |-> ip[m]]
    /\ script = [m \in Machines |-> script[m]]

\* The number of iPXE binaries a machine has loaded, by its stage, and that only
\* a stage that does DHCP has an exchange under way.
Staged(m) ==
    /\ stage[m] \in {"off", "rom", "vendor"} => loads[m] = 0
    /\ stage[m] \in {"tink", "get", "booted"} => loads[m] = 1
    /\ loads[m] \in {0, 1}
    /\ sent[m] # {} => stage[m] \in InDHCP

\* The mac in a script URL of Smee's for machine m.
ScriptMac(m) == IF PrependMac THEN m ELSE ""

\* What the replies of the present exchange tell a machine: firmware is never
\* sent to a script and Smee's iPXE never to a binary; a script is named only
\* if the DHCP handler's view has allowed it.
Told(m) ==
    \A r \in replies[m] :
        /\ r.type \in {"Offer", "Ack"}
        /\ stage[m] \in {"rom", "vendor"} => ~IsScript(r.boot.file)
        /\ stage[m] = "tink" => ~IsBinary(r.boot.file)
        /\ mode # "auto-proxy" /\ IsScript(r.boot.file) => "dhcp" \in allowed[m]
        /\ r.boot.file.what = "auto.ipxe" => r.boot.file.mac = ScriptMac(m)

\* A view that allows a machine now has been noted, and a machine that was sent
\* to a script had the DHCP handler's view allow it.
Noticed(m) ==
    /\ stage[m] # "off" => AllowedNow(m) \subseteq allowed[m]
    /\ mode # "auto-proxy" /\ stage[m] \in {"get", "booted"} => "dhcp" \in allowed[m]

\* A machine that fetches a script has a URL of one; one of Smee's has its mac.
Addressed(m) ==
    stage[m] = "get" =>
        /\ IsScript(file[m])
        /\ file[m].what = "auto.ipxe" => file[m].mac = ScriptMac(m)

\* With the mac in the URL, a machine's script is its own and was not denied.
Entitled(m) ==
    PrependMac =>
        /\ script[m].script \in {"hook", "chain", "inline"} => script[m].mac = m
        /\ mode # "auto-proxy" /\ stage[m] = "booted" =>
             allowed[m] = Views \/ (script[m].script = "external" /\ "dhcp" \in allowed[m])

MachineInv(m) == Staged(m) /\ Told(m) /\ Noticed(m) /\ Addressed(m) /\ Entitled(m)

\* The inductive invariant.
BootInv == TypeOK /\ Shapes /\ \A m \in Machines : MachineInv(m)

-----------------------------------------------------------------------------
(* What the two handlers answer. *)

\* The binary for a packet's architecture is one of Smee's, or none.
LEMMA BinaryIs ==
    ASSUME NEW pkt
    PROVE  IPXEBinaryFrom(pkt) \in {"undionly.kpxe", "ipxe.efi", "snp.efi", ""}
<1> DEFINE a == Arch(pkt)
<1> HIDE DEF a
<1>1. ArchToBootFile(a) \in {"undionly.kpxe", "ipxe.efi", "snp.efi", ""}
  BY DEF ArchToBootFile
<1> QED BY <1>1 DEF a, IPXEBinaryFrom

\* A packet that Bootfile takes to come from Smee's iPXE.
FromSmee(pkt, uc) ==
    UserClassFrom(pkt) = "Tinkerbell" \/ (uc # "" /\ UserClassFrom(pkt) = uc)

\* Smee's iPXE is given the script, if there is one; all others no script.
LEMMA BootfileIs ==
    ASSUME NEW pkt, NEW uc, NEW url
    PROVE  /\ FromSmee(pkt, uc) => Bootfile(pkt, uc, url) \in {url, NoScriptDefined}
           /\ ~FromSmee(pkt, uc) => ~IsScript(Bootfile(pkt, uc, url))
<1>1. CASE FromSmee(pkt, uc)
  BY <1>1 DEF FromSmee, Bootfile
<1>2. CASE ~FromSmee(pkt, uc)
  <2> DEFINE bin == IPXEBinaryFrom(pkt)
  <2>1. bin \in {"undionly.kpxe", "ipxe.efi", "snp.efi", ""}
    BY BinaryIs
  <2>2. \/ Bootfile(pkt, uc, url) = NoScriptDefined
        \/ \E kind, mac : Bootfile(pkt, uc, url) = URL(kind, mac, bin)
    BY <1>2 DEF FromSmee, Bootfile
  <2> HIDE DEF bin
  <2>3. ~IsScript(NoScriptDefined)
    BY DEF IsScript, NoScriptDefined, URL
  <2>4. ASSUME NEW kind, NEW mac PROVE ~IsScript(URL(kind, mac, bin))
    BY <2>1 DEF IsScript, URL
  <2> QED BY <1>2, <2>2, <2>3, <2>4
<1> QED BY <1>1, <1>2

\* A reply names a boot file by Bootfile, for a record that allows it unless the
\* mode does without records, or it names none.
LEMMA ReplyIs ==
    ASSUME NEW md \in Modes, NEW pkt, NEW res, NEW r, r = Reply(md, pkt, res), r # NoReply
    PROVE  /\ r.type \in {"Offer", "Ack"}
           /\ \/ r.boot.file \in {NetbootNotAllowed, NoURL}
              \/ /\ md # "auto-proxy" => Allows(res)
                 /\ \/ r.boot.file = Bootfile(pkt, "", IPXEScriptURL(pkt))
                    \/ r.boot.file = Bootfile(pkt, UserClass, IPXEScriptURL(pkt))
                    \/ res.hw.script # NoURL
                         /\ r.boot.file = Bootfile(pkt, UserClass, res.hw.script)
<1>1. CASE md = "reservation"
  <2>1. r = UpdateMsg(pkt, res.hw) /\ res.st = "ok"
    BY <1>1 DEF Reply, ReservationReply
  <2>2. r.type \in {"Offer", "Ack"}
    BY <2>1 DEF UpdateMsg, ReplyType
  <2>3. r.boot = NetworkBootOpts(pkt, res.hw) \/ r.boot = NoBootOpts
    BY <2>1 DEF UpdateMsg
  <2>4. CASE r.boot = NoBootOpts
    <3>1. NoBootOpts.file = NoURL
      BY DEF NoBootOpts
    <3> QED BY <2>2, <2>4, <3>1
  <2>5. CASE r.boot = NetworkBootOpts(pkt, res.hw)
    <3>1. CASE res.hw.allow /\ IPXEBinaryFrom(pkt) # ""
      <4>1. NetworkBootOpts(pkt, res.hw).file = Bootfile(pkt, UserClass,
              IF res.hw.script # NoURL THEN res.hw.script ELSE IPXEScriptURL(pkt))
        BY <3>1 DEF NetworkBootOpts
      <4>2. Allows(res)
        BY <2>1, <3>1 DEF Allows
      <4> QED BY <2>2, <2>5, <4>1, <4>2
    <3>2. CASE ~(res.hw.allow /\ IPXEBinaryFrom(pkt) # "")
      <4>1. NetworkBootOpts(pkt, res.hw).file = NetbootNotAllowed
        BY <3>2 DEF NetworkBootOpts
      <4> QED BY <2>2, <2>5, <4>1
    <3> QED BY <3>1, <3>2
  <2> QED BY <2>3, <2>4, <2>5
<1>2. CASE md # "reservation"
  <2>1. r = ProxyReply(md, pkt, res) /\ r # NoReply
    BY <1>2 DEF Reply
  <2>2. ~(md = "proxy" /\ (res.st # "ok" \/ ~res.hw.allow))
    BY <2>1 DEF ProxyReply
  <2>3. md # "auto-proxy" => Allows(res)
    BY <1>2, <2>2 DEF Modes, Allows
  <2>4. r.type = ReplyType(pkt.type) /\ r.boot.file = Bootfile(pkt, "", IPXEScriptURL(pkt))
    <3> DEFINE boot == [file |-> Bootfile(pkt, "", IPXEScriptURL(pkt)),
                        siaddr |-> NextServer(pkt), opt60 |-> ClientTypeFrom(pkt),
                        opt43 |-> AddRPIOpt43(pkt, {6})]
    <3>1. boot.file = Bootfile(pkt, "", IPXEScriptURL(pkt))
      OBVIOUS
    <3> DEFINE reply == [type |-> ReplyType(pkt.type), to |-> ReplyDestination(pkt),
                         yiaddr |-> "", boot |-> boot]
    <3>2. r = reply
      BY <2>1 DEF ProxyReply
    <3> HIDE DEF boot
    <3>3. reply.type = ReplyType(pkt.type) /\ reply.boot = boot
      OBVIOUS
    <3> HIDE DEF reply
    <3> QED BY <3>1, <3>2, <3>3
  <2> QED BY <2>3, <2>4 DEF ReplyType
<1> QED BY <1>1, <1>2

\* What machine m may be told in its present stage.
LEMMA MachineReply ==
    ASSUME TypeOK, NEW m \in Machines, NEW type, stage[m] \in InDHCP,
           NEW r, r = Reply(mode, Packet(m, type), dhcpView[m]), r # NoReply
    PROVE  /\ r.type \in {"Offer", "Ack"}
           /\ stage[m] \in {"rom", "vendor"} => ~IsScript(r.boot.file)
           /\ stage[m] = "tink" => ~IsBinary(r.boot.file)
           /\ mode # "auto-proxy" /\ IsScript(r.boot.file) => Allows(dhcpView[m])
           /\ r.boot.file.what = "auto.ipxe" => r.boot.file.mac = ScriptMac(m)
<1> DEFINE pkt == Packet(m, type)
           res == dhcpView[m]
           f == r.boot.file
<1>0. mode \in Modes /\ res \in Answers
  BY MachinesAssumption DEF TypeOK
<1>1. /\ stage[m] = "tink" => UserClassFrom(pkt) = "Tinkerbell"
      /\ stage[m] = "rom" => UserClassFrom(pkt) = ""
      /\ stage[m] = "vendor" => UserClassFrom(pkt) = "iPXE"
  <2>1. pkt.has = {60, 93, 94} \cup (IF stage[m] = "rom" THEN {} ELSE {77})
                               \cup (IF profile[m].guid THEN {97} ELSE {})
    BY DEF Packet
  <2>2. 77 \in pkt.has <=> stage[m] # "rom"
    BY <2>1
  <2>3. pkt.opt77 = CASE stage[m] = "tink" -> "Tinkerbell" [] stage[m] = "vendor" -> "iPXE"
                      [] OTHER -> ""
    BY DEF Packet
  <2> QED BY <2>2, <2>3 DEF UserClassFrom
<1>2. IPXEScriptURL(pkt) = URL("script", ScriptMac(m), "auto.ipxe")
  BY DEF IPXEScriptURL, Packet, ScriptMac
<1> HIDE DEF pkt
<1>3. ASSUME NEW uc \in {"", UserClass}
      PROVE  FromSmee(pkt, uc) <=> stage[m] = "tink"
  BY <1>1, UserClassAssumption DEF FromSmee, InDHCP
<1> HIDE DEF res
<1>4. /\ r.type \in {"Offer", "Ack"}
      /\ \/ f \in {NetbootNotAllowed, NoURL}
         \/ /\ mode # "auto-proxy" => Allows(res)
            /\ \E uc \in {"", UserClass} : \E url :
                 /\ url = IPXEScriptURL(pkt) \/ (url = res.hw.script /\ res.hw.script # NoURL)
                 /\ f = Bootfile(pkt, uc, url)
  <2>1. r = Reply(mode, pkt, res)
    BY DEF res, pkt
  <2>2. /\ r.type \in {"Offer", "Ack"}
        /\ \/ r.boot.file \in {NetbootNotAllowed, NoURL}
           \/ /\ mode # "auto-proxy" => Allows(res)
              /\ \/ r.boot.file = Bootfile(pkt, "", IPXEScriptURL(pkt))
                 \/ r.boot.file = Bootfile(pkt, UserClass, IPXEScriptURL(pkt))
                 \/ res.hw.script # NoURL
                      /\ r.boot.file = Bootfile(pkt, UserClass, res.hw.script)
    BY <1>0, <2>1, ReplyIs, ZenonT(60)
  <2> HIDE DEF f
  <2>3. f = r.boot.file
    BY DEF f
  <2> QED BY <2>2, <2>3
<1> HIDE DEF f
<1> DEFINE Good ==
      /\ stage[m] \in {"rom", "vendor"} => ~IsScript(f)
      /\ stage[m] = "tink" => ~IsBinary(f)
      /\ mode # "auto-proxy" /\ IsScript(f) => Allows(res)
      /\ f.what = "auto.ipxe" => f.mac = ScriptMac(m)
<1>5. ASSUME f \in {NetbootNotAllowed, NoURL, NoScriptDefined} PROVE Good
  <2>1. /\ NetbootNotAllowed.what = "/netboot-not-allowed" /\ NoURL.what = ""
        /\ NoScriptDefined.what = "/no-ipxe-script-defined"
    BY DEF NetbootNotAllowed, NoURL, NoScriptDefined, URL
  <2>2. f.what \in {"/netboot-not-allowed", "", "/no-ipxe-script-defined"}
    BY <1>5, <2>1
  <2> QED BY <2>2 DEF IsScript, IsBinary
<1>6. ASSUME mode # "auto-proxy" => Allows(res), NEW uc \in {"", UserClass}, NEW url,
             url = IPXEScriptURL(pkt) \/ (url = res.hw.script /\ res.hw.script # NoURL),
             f = Bootfile(pkt, uc, url)
      PROVE  Good
  <2>1. CASE stage[m] # "tink"
    <3>1. ~IsScript(f)
      BY <1>3, <1>6, <2>1, BootfileIs
    <3> QED BY <2>1, <3>1 DEF IsScript
  <2>2. CASE stage[m] = "tink"
    <3>1. f = url \/ f = NoScriptDefined
      BY <1>3, <1>6, <2>2, BootfileIs
    <3>2. CASE f = IPXEScriptURL(pkt)
      <4>1. f.what = "auto.ipxe" /\ f.mac = ScriptMac(m)
        <5>1. \A mac : URL("script", mac, "auto.ipxe").what = "auto.ipxe"
                       /\ URL("script", mac, "auto.ipxe").mac = mac
          BY DEF URL
        <5> QED BY <1>2, <3>2, <5>1
      <4> QED BY <1>6, <2>2, <4>1 DEF IsBinary
    <3>3. CASE f = res.hw.script /\ res.hw.script # NoURL
      <4>1. f.what = "custom.ipxe"
        BY <1>0, <3>3, AnswersAssumption
      <4> QED BY <1>6, <2>2, <4>1 DEF IsBinary
    <3>4. CASE f = NoScriptDefined
      BY <1>5, <3>4
    <3> HIDE DEF Good
    <3> QED BY <1>6, <3>1, <3>2, <3>3, <3>4
  <2> QED BY <2>1, <2>2
<1>7. Good
  <2> HIDE DEF Good
  <2> QED BY <1>4, <1>5, <1>6
<1> QED BY <1>4, <1>7 DEF f, res, pkt

\* The script handler answers with a script only for a record that allows it,
\* unless there is the static script, and a record's script is that record's.
LEMMA AnswerIs ==
    ASSUME NEW md, NEW res, NEW resp, resp = AnswerScript(md, res)
    PROVE  /\ md # "auto-proxy" /\ resp.status = 200 => Allows(res)
           /\ resp.script \in {"hook", "chain", "inline"} =>
                res.st = "ok" /\ resp.mac = res.hw.mac
<1>0. /\ \A code : Status(code).status = code /\ Status(code).script = "none"
      /\ \A kind, mac : Script(kind, mac).script = kind /\ Script(kind, mac).mac = mac
  BY DEF Status, Script
<1>1. CASE res.st # "ok"
  <2>1. \/ md = "auto-proxy" /\ resp = Script("static", "")
        \/ resp = Status(404)
    BY <1>1 DEF AnswerScript, StaticIPXEEnabled
  <2>2. CASE resp = Status(404)
    <3>1. resp.status = 404 /\ resp.script = "none"
      BY <1>0, <2>2
    <3> QED BY <3>1
  <2>3. CASE md = "auto-proxy" /\ resp = Script("static", "")
    <3>1. resp.script = "static"
      BY <1>0, <2>3
    <3> QED BY <2>3, <3>1
  <2> QED BY <2>1, <2>2, <2>3
<1>2. CASE res.st = "ok" /\ ~res.hw.allow
  BY <1>0, <1>2 DEF AnswerScript
<1>3. CASE res.st = "ok" /\ res.hw.allow
  <2>1. resp = ServeBootScript(res.hw)
    BY <1>3 DEF AnswerScript
  <2>2. \/ resp = Status(500)
        \/ \E kind : resp = Script(kind, res.hw.mac)
    BY <2>1 DEF ServeBootScript, CustomScript
  <2> QED BY <1>0, <1>3, <2>2 DEF Allows
<1> QED BY <1>1, <1>2, <1>3

\* With the mac in the URL, what machine m gets from the script handler.
LEMMA MachineScript ==
    ASSUME TypeOK, PrependMac, NEW m \in Machines, NEW addr, NEW byIP, NEW resp,
           resp \in HandleScript(mode, [base |-> "auto.ipxe", mac |-> m, ip |-> addr],
                                 ByMac(m), byIP)
    PROVE  /\ mode # "auto-proxy" /\ resp.status = 200 => Allows(scriptView[m])
           /\ resp.script \in {"hook", "chain", "inline"} => resp.mac = m
<1>1. m \in Macs /\ m # ""
  BY MachinesAssumption, MacsAssumption
<1>2. resp \in {AnswerScript(mode, res) : res \in ByMac(m)}
  BY <1>1 DEF HandleScript
<1>3. PICK res \in {scriptView[m], BackendError} : resp = AnswerScript(mode, res)
  BY <1>1, <1>2 DEF ByMac
<1>4. BackendError.st # "ok"
  BY DEF BackendError
<1>5. scriptView[m] \in AnswersFor(m)
  BY <1>1 DEF TypeOK
<1>6. scriptView[m].st = "ok" => scriptView[m].hw.mac = m
  BY <1>5 DEF AnswersFor
<1> QED BY <1>3, <1>4, <1>6, AnswerIs DEF Allows

-----------------------------------------------------------------------------
(* The invariant. *)

\* A machine that a step does not concern keeps its part of the invariant.
LEMMA Untouched ==
    ASSUME NEW n \in Machines, MachineInv(n), mode' = mode,
           dhcpView'[n] = dhcpView[n], scriptView'[n] = scriptView[n],
           stage'[n] = stage[n], sent'[n] = sent[n], replies'[n] = replies[n],
           file'[n] = file[n], loads'[n] = loads[n], script'[n] = script[n],
           allowed'[n] = allowed[n]
    PROVE  MachineInv(n)'
<1>1. AllowedNow(n)' = AllowedNow(n)
  BY DEF AllowedNow, Allows
<1> QED BY <1>1 DEF MachineInv, Staged, Told, Noticed, Addressed, Entitled, ScriptMac,
                    IsScript, IsBinary

\* Entering a stage concerns one machine and ends its exchange.
LEMMA EnterIs ==
    ASSUME TypeOK, Shapes, NEW m \in Machines, NEW s, Enter(m, s)
    PROVE  /\ stage'[m] = s /\ replies'[m] = {}
           /\ sent'[m] = IF s \in InDHCP THEN {"Discover"} ELSE {}
           /\ \A n \in Machines : n # m =>
                stage'[n] = stage[n] /\ sent'[n] = sent[n] /\ replies'[n] = replies[n]
           /\ replies' = [n \in Machines |-> replies'[n]]
           /\ stage' = [stage EXCEPT ![m] = s]
           /\ sent' \in [Machines -> SUBSET {"Discover", "Request"}]
<1>1. /\ stage' = [stage EXCEPT ![m] = s]
      /\ sent' = [sent EXCEPT ![m] = IF s \in InDHCP THEN {"Discover"} ELSE {}]
      /\ replies' = [replies EXCEPT ![m] = {}]
  BY DEF Enter
<1>2. /\ DOMAIN stage = Machines /\ sent \in [Machines -> SUBSET {"Discover", "Request"}]
  BY DEF TypeOK
<1>3. stage'[m] = s /\ \A n \in Machines : n # m => stage'[n] = stage[n]
  BY <1>1, <1>2
<1>4. /\ sent'[m] = IF s \in InDHCP THEN {"Discover"} ELSE {}
      /\ \A n \in Machines : n # m => sent'[n] = sent[n]
      /\ sent' \in [Machines -> SUBSET {"Discover", "Request"}]
  BY <1>1, <1>2
<1>5. /\ replies'[m] = {} /\ \A n \in Machines : n # m => replies'[n] = replies[n]
      /\ replies' = [n \in Machines |-> replies'[n]]
  BY <1>1 DEF Shapes
<1> QED BY <1>1, <1>3, <1>4, <1>5

\* Initially every machine is off.
LEMMA BootInit == Init => BootInv
<1> SUFFICES ASSUME Init PROVE BootInv
  OBVIOUS
<1>1. TypeOK
  <2>1. \A view \in {truth, dhcpView, scriptView} :
          view \in [Macs -> Answers] /\ \A m \in Macs : view[m] \in AnswersFor(m)
    BY DEF Init
  <2>2. profile \in [Machines -> Profiles]
    BY MachinesAssumption DEF Init
  <2>3. updates \in 0..MaxUpdates /\ offs \in 0..MaxOffs /\ loads \in [Machines -> Nat]
    <3>1. updates = 0 /\ offs = 0 /\ loads = [m \in Machines |-> 0]
      BY DEF Init
    <3> QED BY <3>1, BoundsAssumption
  <2>4. mode \in Modes
    BY DEF Init
  <2>5. /\ stage \in [Machines -> InDHCP \cup {"off", "get", "booted", "local"}]
        /\ sent \in [Machines -> SUBSET {"Discover", "Request"}]
        /\ \A m \in Machines : \A r \in replies[m] : r.type \in {"Offer", "Ack"}
        /\ allowed \in [Machines -> SUBSET Views]
    BY DEF Init
  <2> QED BY <2>1, <2>2, <2>3, <2>4, <2>5 DEF TypeOK
<1>2. Shapes
  BY DEF Init, Shapes
<1>3. ASSUME NEW m \in Machines PROVE MachineInv(m)
  <2>1. /\ stage[m] = "off" /\ loads[m] = 0 /\ sent[m] = {} /\ replies[m] = {}
        /\ script[m] = NoScript
    BY DEF Init
  <2>2. NoScript.script = "none"
    BY DEF NoScript
  <2> QED BY <2>1, <2>2 DEF MachineInv, Staged, Told, Noticed, Addressed, Entitled
<1> QED BY <1>1, <1>2, <1>3 DEF BootInv

\* Types, in parts that a step changes one at a time.
ViewsType ==
    \A view \in {truth, dhcpView, scriptView} :
        view \in [Macs -> Answers] /\ \A m \in Macs : view[m] \in AnswersFor(m)
CountsType ==
    /\ mode \in Modes /\ profile \in [Machines -> Profiles]
    /\ updates \in 0..MaxUpdates /\ offs \in 0..MaxOffs
    /\ loads \in [Machines -> Nat]
StageType ==
    /\ stage \in [Machines -> InDHCP \cup {"off", "get", "booted", "local"}]
    /\ sent \in [Machines -> SUBSET {"Discover", "Request"}]
    /\ allowed \in [Machines -> SUBSET Views]

LEMMA TypeParts ==
    TypeOK <=> /\ ViewsType /\ CountsType /\ StageType
               /\ \A m \in Machines : \A r \in replies[m] : r.type \in {"Offer", "Ack"}
BY DEF TypeOK, ViewsType, CountsType, StageType

\* The steps of the records and of the views.
LEMMA RecordSteps ==
    ASSUME BootInv, NEW m \in Macs,
           (\E a \in AnswersFor(m) : Update(m, a)) \/ SyncDhcp(m) \/ SyncScript(m)
    PROVE  BootInv'
<1> USE DEF machines
<1>0. TypeOK /\ Shapes /\ ViewsType /\ CountsType /\ StageType
  BY TypeParts DEF BootInv
<1>1. UNCHANGED <<mode, offs, profile, stage, sent, replies, file, ip, loads, script>>
  BY DEF Update, SyncDhcp, SyncScript
<1>2. /\ truth \in [Macs -> Answers] /\ dhcpView \in [Macs -> Answers]
      /\ scriptView \in [Macs -> Answers]
      /\ \A n \in Macs : /\ truth[n] \in AnswersFor(n) /\ dhcpView[n] \in AnswersFor(n)
                         /\ scriptView[n] \in AnswersFor(n)
  BY <1>0 DEF ViewsType
<1>3. allowed \in [Machines -> SUBSET Views] /\ "dhcp" \in Views /\ "script" \in Views
  BY <1>0 DEF StageType, Views
<1>4. CountsType' /\ ViewsType'
  <2>1. CASE \E a \in AnswersFor(m) : Update(m, a)
    <3>1. PICK a \in AnswersFor(m) : Update(m, a)
      BY <2>1
    <3>2. a \in Answers
      BY DEF AnswersFor
    <3>3. updates' \in 0..MaxUpdates
      BY <1>0, <3>1, BoundsAssumption DEF Update, CountsType
    <3>4. /\ truth' \in [Macs -> Answers] /\ \A n \in Macs : truth'[n] \in AnswersFor(n)
          /\ dhcpView' = dhcpView /\ scriptView' = scriptView
      BY <1>2, <3>1, <3>2 DEF Update
    <3> QED BY <1>0, <1>1, <1>2, <3>3, <3>4 DEF CountsType, ViewsType
  <2>2. CASE SyncDhcp(m)
    <3>1. /\ dhcpView' \in [Macs -> Answers]
          /\ \A n \in Macs : dhcpView'[n] \in AnswersFor(n)
          /\ truth' = truth /\ scriptView' = scriptView /\ updates' = updates
      BY <1>2, <2>2 DEF SyncDhcp
    <3> QED BY <1>0, <1>1, <1>2, <3>1 DEF CountsType, ViewsType
  <2>3. CASE SyncScript(m)
    <3>1. /\ scriptView' \in [Macs -> Answers]
          /\ \A n \in Macs : scriptView'[n] \in AnswersFor(n)
          /\ truth' = truth /\ dhcpView' = dhcpView /\ updates' = updates
      BY <1>2, <2>3 DEF SyncScript
    <3> QED BY <1>0, <1>1, <1>2, <3>1 DEF CountsType, ViewsType
  <2> QED BY <2>1, <2>2, <2>3
<1>5. /\ allowed' \in [Machines -> SUBSET Views]
      /\ \A n \in Machines :
           /\ allowed[n] \subseteq allowed'[n]
           /\ stage[n] # "off" => AllowedNow(n)' \subseteq allowed'[n] \cup AllowedNow(n)
  <2>1. CASE \E a \in AnswersFor(m) : Update(m, a)
    <3>1. allowed' = allowed /\ dhcpView' = dhcpView /\ scriptView' = scriptView
      BY <2>1 DEF Update
    <3> QED BY <1>3, <3>1 DEF AllowedNow, Allows
  <2>2. CASE SyncDhcp(m)
    <3>1. /\ dhcpView' = [dhcpView EXCEPT ![m] = truth[m]] /\ scriptView' = scriptView
          /\ allowed' = [n \in Machines |->
               IF n = m /\ stage[m] # "off" /\ Allows(truth[m])
               THEN allowed[n] \cup {"dhcp"} ELSE allowed[n]]
      BY <2>2 DEF SyncDhcp, Noted
    <3>2. \A n \in Machines : dhcpView'[n] = IF n = m THEN truth[m] ELSE dhcpView[n]
      BY <1>2, <3>1, MachinesAssumption
    <3> QED BY <1>3, <3>1, <3>2 DEF AllowedNow, Allows
  <2>3. CASE SyncScript(m)
    <3>1. /\ scriptView' = [scriptView EXCEPT ![m] = truth[m]] /\ dhcpView' = dhcpView
          /\ allowed' = [n \in Machines |->
               IF n = m /\ stage[m] # "off" /\ Allows(truth[m])
               THEN allowed[n] \cup {"script"} ELSE allowed[n]]
      BY <2>3 DEF SyncScript, Noted
    <3>2. \A n \in Machines : scriptView'[n] = IF n = m THEN truth[m] ELSE scriptView[n]
      BY <1>2, <3>1, MachinesAssumption
    <3> QED BY <1>3, <3>1, <3>2 DEF AllowedNow, Allows
  <2> QED BY <2>1, <2>2, <2>3
<1>6. StageType' /\ Shapes'
  BY <1>0, <1>1, <1>5 DEF StageType, Shapes
<1>7. TypeOK'
  BY <1>0, <1>1, <1>4, <1>6, TypeParts DEF TypeOK, ViewsType, CountsType, StageType
<1>8. ASSUME NEW n \in Machines PROVE MachineInv(n)'
  <2>1. MachineInv(n)
    BY DEF BootInv
  <2>2. allowed[n] = Views => allowed'[n] = Views
    BY <1>5
  <2>3. Staged(n)' /\ Addressed(n)'
    BY <1>1, <2>1 DEF MachineInv, Staged, Addressed, ScriptMac, IsScript
  <2>4. Told(n)' /\ Noticed(n)'
    BY <1>1, <1>5, <2>1 DEF MachineInv, Told, Noticed, ScriptMac, IsScript, IsBinary
  <2>5. Entitled(n)'
    BY <1>1, <1>5, <2>1, <2>2 DEF MachineInv, Entitled
  <2> QED BY <2>3, <2>4, <2>5 DEF MachineInv
<1> QED BY <1>6, <1>7, <1>8 DEF BootInv

\* The steps of a machine and of Smee on its behalf.
LEMMA MachineSteps ==
    ASSUME BootInv, NEW m \in Machines,
           \/ \E p \in Profiles : PowerOn(m, p)
           \/ PowerOff(m) \/ Progress(m) \/ ServeScript(m)
    PROVE  BootInv'
<1> USE DEF records
<1>0. TypeOK /\ Shapes /\ ViewsType /\ CountsType /\ StageType /\ MachineInv(m)
  BY TypeParts DEF BootInv
<1>1. /\ loads \in [Machines -> Nat] /\ allowed \in [Machines -> SUBSET Views]
      /\ profile \in [Machines -> Profiles]
      /\ stage \in [Machines -> InDHCP \cup {"off", "get", "booted", "local"}]
      /\ sent \in [Machines -> SUBSET {"Discover", "Request"}]
  BY <1>0 DEF CountsType, StageType
<1>2. ViewsType' /\ mode' = mode /\ dhcpView' = dhcpView /\ scriptView' = scriptView
      /\ truth' = truth /\ updates' = updates
  <2>1. UNCHANGED records
    BY DEF PowerOn, PowerOff, Progress, TakeOffer, TakeAck, ServeDhcp, ServeScript
  <2> QED BY <1>0, <2>1 DEF ViewsType
\* It is enough to look at machine m itself.
<1>3. ASSUME StageType', CountsType', Shapes', MachineInv(m)',
             \A n \in Machines : n # m =>
               /\ stage'[n] = stage[n] /\ sent'[n] = sent[n] /\ replies'[n] = replies[n]
               /\ file'[n] = file[n] /\ loads'[n] = loads[n] /\ script'[n] = script[n]
               /\ allowed'[n] = allowed[n]
      PROVE  BootInv'
  <2>1. \A n \in Machines : MachineInv(n)'
    BY <1>2, <1>3, Untouched DEF BootInv
  <2>2. \A n \in Machines : \A r \in replies'[n] : r.type \in {"Offer", "Ack"}
    BY <2>1 DEF MachineInv, Told
  <2>3. TypeOK'
    BY <1>2, <1>3, <2>2 DEF TypeOK, ViewsType, CountsType, StageType
  <2> QED BY <1>3, <2>1, <2>3 DEF BootInv
<1>4. ASSUME NEW p \in Profiles, PowerOn(m, p) PROVE BootInv'
  <2>1. /\ stage[m] = "off" /\ profile' = [profile EXCEPT ![m] = p] /\ Enter(m, p.first)
        /\ allowed' = [allowed EXCEPT ![m] = AllowedNow(m)]
        /\ UNCHANGED <<offs, file, ip, loads, script>>
    BY <1>4 DEF PowerOn
  <2>2. p.first \in {"rom", "vendor"} /\ p.first \in InDHCP
    BY ProfilesAssumption DEF InDHCP
  <2>3. AllowedNow(m) \subseteq Views
    BY DEF AllowedNow, Views
  <2>4. CountsType'
    BY <1>0, <1>1, <1>2, <2>1 DEF CountsType
  <2>5. StageType'
    <3>1. allowed' \in [Machines -> SUBSET Views]
      BY <1>1, <2>1, <2>3
    <3>2. stage' \in [Machines -> InDHCP \cup {"off", "get", "booted", "local"}]
      BY <1>1, <2>1, <2>2 DEF Enter
    <3> QED BY <1>0, <2>1, <3>1, <3>2, EnterIs DEF StageType
  <2>6. Shapes'
    BY <1>0, <2>1, EnterIs DEF Shapes
  <2>7. MachineInv(m)'
    <3>1. /\ stage'[m] \in {"rom", "vendor"} /\ stage'[m] \in InDHCP /\ replies'[m] = {}
      BY <1>0, <2>1, <2>2, EnterIs
    <3>2. loads'[m] = 0 /\ script'[m] = script[m]
      BY <1>0, <2>1 DEF MachineInv, Staged
    <3>3. AllowedNow(m)' \subseteq allowed'[m]
      BY <1>1, <1>2, <2>1 DEF AllowedNow, Allows
    <3> QED BY <1>0, <3>1, <3>2, <3>3
            DEF MachineInv, Staged, Told, Noticed, Addressed, Entitled
  <2> QED BY <1>0, <1>1, <1>3, <2>1, <2>4, <2>5, <2>6, <2>7, EnterIs
<1>5. CASE PowerOff(m)
  <2>1. /\ Enter(m, "off") /\ UNCHANGED profile
        /\ file' = [file EXCEPT ![m] = NoURL] /\ ip' = [ip EXCEPT ![m] = ""]
        /\ loads' = [loads EXCEPT ![m] = 0] /\ script' = [script EXCEPT ![m] = NoScript]
        /\ allowed' = [allowed EXCEPT ![m] = {}]
    BY <1>5 DEF PowerOff
  <2>2. offs' \in 0..MaxOffs
    <3>1. offs \in 0..MaxOffs /\ (offs' = offs \/ (offs < MaxOffs /\ offs' = offs + 1))
      BY <1>0, <1>5 DEF PowerOff, CountsType
    <3> QED BY <3>1, BoundsAssumption
  <2>3. CountsType'
    BY <1>0, <1>1, <1>2, <2>1, <2>2 DEF CountsType
  <2>4. StageType'
    <3>1. allowed' \in [Machines -> SUBSET Views]
      BY <1>1, <2>1
    <3>2. stage' \in [Machines -> InDHCP \cup {"off", "get", "booted", "local"}]
      BY <1>1, <2>1 DEF Enter
    <3> QED BY <1>0, <2>1, <3>1, <3>2, EnterIs DEF StageType
  <2>5. Shapes'
    BY <1>0, <2>1, EnterIs DEF Shapes
  <2>6. MachineInv(m)'
    <3>1. stage'[m] = "off" /\ replies'[m] = {} /\ sent'[m] = {}
      BY <1>0, <2>1, EnterIs DEF InDHCP
    <3>2. loads'[m] = 0 /\ script'[m] = NoScript /\ NoScript.script = "none"
      BY <1>0, <1>1, <2>1 DEF Shapes, NoScript
    <3> QED BY <3>1, <3>2 DEF MachineInv, Staged, Told, Noticed, Addressed, Entitled
  <2>7. \A n \in Machines : n # m =>
          /\ file'[n] = file[n] /\ loads'[n] = loads[n] /\ script'[n] = script[n]
          /\ allowed'[n] = allowed[n]
    BY <1>0, <1>1, <2>1 DEF Shapes
  <2>8. \A n \in Machines : n # m =>
          stage'[n] = stage[n] /\ sent'[n] = sent[n] /\ replies'[n] = replies[n]
    BY <1>0, <2>1, EnterIs
  <2> QED BY <1>3, <2>3, <2>4, <2>5, <2>6, <2>7, <2>8
<1>6. ASSUME NEW r \in replies[m], TakeOffer(m, r) PROVE BootInv'
  <2>1. /\ stage[m] \in InDHCP /\ sent' = [sent EXCEPT ![m] = {"Discover", "Request"}]
        /\ UNCHANGED <<offs, profile, stage, replies, file, ip, loads, script, allowed>>
    BY <1>6 DEF TakeOffer
  <2>2. CountsType' /\ Shapes'
    BY <1>0, <1>2, <2>1 DEF CountsType, Shapes
  <2>3. sent' \in [Machines -> SUBSET {"Discover", "Request"}]
    BY <1>1, <2>1
  <2>4. StageType'
    BY <1>0, <2>1, <2>3 DEF StageType
  <2>5. MachineInv(m)'
    <3>1. AllowedNow(m)' = AllowedNow(m)
      BY <1>2 DEF AllowedNow, Allows
    <3> QED BY <1>0, <1>2, <2>1, <3>1
            DEF MachineInv, Staged, Told, Noticed, Addressed, Entitled, ScriptMac, IsScript,
                IsBinary
  <2> QED BY <1>1, <1>3, <2>1, <2>2, <2>4, <2>5
<1>7. ASSUME NEW r \in replies[m], TakeAck(m, r) PROVE BootInv'
  <2> DEFINE f == r.boot.file
             s == IF IsBinary(f) THEN "tink" ELSE IF IsScript(f) THEN "get" ELSE "local"
  <2>1. /\ stage[m] \in InDHCP /\ file' = [file EXCEPT ![m] = f] /\ Enter(m, s)
        /\ loads' = [loads EXCEPT ![m] = IF IsBinary(f) THEN @ + 1 ELSE @]
        /\ UNCHANGED <<offs, profile, script, allowed>>
    BY <1>1, <1>7 DEF TakeAck
  <2>2. ip' = [n \in Machines |-> ip'[n]]
    BY <1>0, <1>7 DEF TakeAck, Shapes
  <2>3. /\ stage[m] \in {"rom", "vendor"} => ~IsScript(f)
        /\ stage[m] = "tink" => ~IsBinary(f)
        /\ mode # "auto-proxy" /\ IsScript(f) => "dhcp" \in allowed[m]
        /\ f.what = "auto.ipxe" => f.mac = ScriptMac(m)
    BY <1>0 DEF MachineInv, Told
  <2> HIDE DEF f
  <2>4. CountsType'
    <3>1. loads' \in [Machines -> Nat]
      BY <1>1, <2>1
    <3> QED BY <1>0, <1>2, <2>1, <3>1 DEF CountsType
  <2>5. StageType'
    <3>1. stage' \in [Machines -> InDHCP \cup {"off", "get", "booted", "local"}]
      <4>1. s \in InDHCP \cup {"off", "get", "booted", "local"}
        BY DEF InDHCP
      <4> HIDE DEF s
      <4> QED BY <1>1, <2>1, <4>1 DEF Enter
    <3> QED BY <1>0, <2>1, <3>1, EnterIs DEF StageType
  <2>6. Shapes'
    BY <1>0, <2>1, <2>2, EnterIs DEF Shapes
  <2>7. /\ stage'[m] = s /\ replies'[m] = {} /\ (sent'[m] # {} => s \in InDHCP)
        /\ file'[m] = f /\ loads'[m] = IF IsBinary(f) THEN loads[m] + 1 ELSE loads[m]
    BY <1>0, <1>1, <2>1, EnterIs DEF Shapes
  <2>8. MachineInv(m)'
    <3>1. Staged(m)'
      <4>1. stage[m] \in {"rom", "vendor", "tink"}
        BY <2>1 DEF InDHCP
      <4>2. CASE stage[m] = "tink"
        BY <1>0, <2>3, <2>7, <4>2 DEF MachineInv, Staged
      <4>3. CASE stage[m] \in {"rom", "vendor"}
        BY <1>0, <2>3, <2>7, <4>3 DEF MachineInv, Staged
      <4> QED BY <4>1, <4>2, <4>3
    <3>2. Noticed(m)'
      <4>1. AllowedNow(m)' = AllowedNow(m)
        BY <1>2 DEF AllowedNow, Allows
      <4>2. stage[m] # "off"
        BY <2>1 DEF InDHCP
      <4> QED BY <1>0, <1>2, <2>1, <2>3, <2>7, <4>1, <4>2 DEF MachineInv, Noticed
    <3>3. Addressed(m)'
      BY <2>3, <2>7 DEF Addressed, ScriptMac, IsScript
    <3>4. Told(m)' /\ Entitled(m)'
      BY <1>0, <2>1, <2>7 DEF MachineInv, Told, Entitled
    <3> QED BY <3>1, <3>2, <3>3, <3>4 DEF MachineInv
  <2>9. \A n \in Machines : n # m => file'[n] = file[n] /\ loads'[n] = loads[n]
    BY <1>0, <1>1, <2>1 DEF Shapes
  <2> QED BY <1>0, <1>3, <2>1, <2>4, <2>5, <2>6, <2>8, <2>9, EnterIs
<1>8. ASSUME NEW type \in {"Discover", "Request"}, ServeDhcp(m, type) PROVE BootInv'
  <2> DEFINE r == Reply(mode, Packet(m, type), dhcpView[m])
  <2>1. /\ type \in sent[m] /\ r # NoReply
        /\ replies' = [replies EXCEPT ![m] = @ \cup {r}]
        /\ UNCHANGED <<offs, profile, stage, sent, file, ip, loads, script, allowed>>
    BY <1>8 DEF ServeDhcp
  <2>2. stage[m] \in InDHCP
    BY <1>0, <2>1 DEF MachineInv, Staged
  <2>3. /\ r.type \in {"Offer", "Ack"}
        /\ stage[m] \in {"rom", "vendor"} => ~IsScript(r.boot.file)
        /\ stage[m] = "tink" => ~IsBinary(r.boot.file)
        /\ mode # "auto-proxy" /\ IsScript(r.boot.file) => Allows(dhcpView[m])
        /\ r.boot.file.what = "auto.ipxe" => r.boot.file.mac = ScriptMac(m)
    BY <1>0, <2>1, <2>2, MachineReply
  <2> HIDE DEF r
  <2>4. CountsType' /\ StageType' /\ Shapes'
    BY <1>0, <1>2, <2>1 DEF CountsType, StageType, Shapes
  <2>5. /\ replies'[m] = replies[m] \cup {r}
        /\ \A n \in Machines : n # m => replies'[n] = replies[n]
    BY <1>0, <2>1 DEF Shapes
  <2>6. MachineInv(m)'
    <3>1. AllowedNow(m)' = AllowedNow(m)
      BY <1>2 DEF AllowedNow, Allows
    <3>2. Allows(dhcpView[m]) => "dhcp" \in allowed[m]
      <4>1. stage[m] # "off"
        BY <2>2 DEF InDHCP
      <4> QED BY <1>0, <4>1 DEF MachineInv, Noticed, AllowedNow
    <3>3. Told(m)'
      BY <1>0, <1>2, <2>1, <2>3, <2>5, <3>2 DEF MachineInv, Told, ScriptMac, IsScript, IsBinary
    <3>4. Staged(m)' /\ Noticed(m)' /\ Addressed(m)' /\ Entitled(m)'
      BY <1>0, <1>2, <2>1, <3>1
         DEF MachineInv, Staged, Noticed, Addressed, Entitled, ScriptMac, IsScript
    <3> QED BY <3>3, <3>4 DEF MachineInv
  <2> QED BY <1>3, <2>1, <2>4, <2>5, <2>6
<1>9. CASE ServeScript(m)
  <2>1. PICK resp :
          /\ stage[m] = "get"
          /\ \/ /\ file[m].what = "auto.ipxe"
                /\ resp \in HandleScript(mode, [base |-> file[m].what, mac |-> file[m].mac,
                                                ip |-> ip[m]], ByMac(file[m].mac), ByIP(ip[m]))
             \/ file[m].what # "auto.ipxe" /\ resp = Script("external", m)
          /\ script' = [script EXCEPT ![m] = resp]
          /\ Enter(m, IF resp.status = 200 THEN "booted" ELSE "local")
          /\ UNCHANGED <<offs, profile, file, ip, loads, allowed>>
    BY <1>9 DEF ServeScript
  <2>2. CountsType'
    BY <1>0, <1>2, <2>1 DEF CountsType
  <2>3. StageType'
    <3>1. stage' \in [Machines -> InDHCP \cup {"off", "get", "booted", "local"}]
      BY <1>1, <2>1 DEF Enter
    <3> QED BY <1>0, <2>1, <3>1, EnterIs DEF StageType
  <2>4. Shapes'
    <3>1. replies' = [n \in Machines |-> replies'[n]]
      BY <1>0, <2>1, EnterIs
    <3>2. script' = [n \in Machines |-> script'[n]]
      BY <1>0, <2>1 DEF Shapes
    <3>3. file' = file /\ ip' = ip /\ Shapes
      BY <1>0, <2>1
    <3> QED BY <3>1, <3>2, <3>3 DEF Shapes
  <2>5. /\ stage'[m] \in {"booted", "local"} /\ (stage'[m] = "booted" => resp.status = 200)
        /\ replies'[m] = {} /\ sent'[m] = {} /\ script'[m] = resp
    BY <1>0, <2>1, EnterIs DEF Shapes, InDHCP
  <2>6. ASSUME PrependMac
        PROVE  /\ resp.script \in {"hook", "chain", "inline"} => resp.mac = m
               /\ mode # "auto-proxy" /\ resp.status = 200 =>
                    Allows(scriptView[m]) \/ resp.script = "external"
    <3>1. CASE file[m].what = "auto.ipxe"
      <4>1. file[m].mac = m
        BY <1>0, <2>1, <2>6, <3>1 DEF MachineInv, Addressed, ScriptMac
      <4>2. resp \in HandleScript(mode, [base |-> "auto.ipxe", mac |-> m, ip |-> ip[m]],
                                  ByMac(m), ByIP(ip[m]))
        BY <2>1, <3>1, <4>1
      <4> QED BY <1>0, <2>6, <4>2, MachineScript
    <3>2. CASE file[m].what # "auto.ipxe"
      <4>1. Script("external", m).script = "external"
        BY DEF Script
      <4> QED BY <2>1, <3>2, <4>1
    <3> QED BY <3>1, <3>2
  <2>7. MachineInv(m)'
    <3>1. AllowedNow(m)' = AllowedNow(m)
      BY <1>2 DEF AllowedNow, Allows
    <3>2. Staged(m)' /\ Told(m)' /\ Addressed(m)'
      BY <1>0, <2>1, <2>5 DEF MachineInv, Staged, Told, Addressed
    <3>3. Noticed(m)'
      BY <1>0, <1>2, <2>1, <2>5, <3>1 DEF MachineInv, Noticed
    <3>4. Entitled(m)'
      <4>1. Allows(scriptView[m]) => "script" \in allowed[m]
        BY <1>0, <2>1 DEF MachineInv, Noticed, AllowedNow
      <4>2. mode # "auto-proxy" => "dhcp" \in allowed[m]
        BY <1>0, <2>1 DEF MachineInv, Noticed
      <4>3. {"dhcp", "script"} \subseteq allowed[m] => allowed[m] = Views
        BY <1>1 DEF Views
      <4> QED BY <1>2, <2>1, <2>5, <2>6, <4>1, <4>2, <4>3 DEF Entitled
    <3> QED BY <3>2, <3>3, <3>4 DEF MachineInv
  <2>8. \A n \in Machines : n # m => script'[n] = script[n]
    BY <1>0, <2>1 DEF Shapes
  <2> QED BY <1>0, <1>3, <2>1, <2>2, <2>3, <2>4, <2>7, <2>8, EnterIs
<1> QED BY <1>4, <1>5, <1>6, <1>7, <1>8, <1>9 DEF Progress

\* The invariant holds in every behaviour.
THEOREM BootInvHolds == Spec => []BootInv
<1>1. BootInv /\ [Next]_vars => BootInv'
  <2> SUFFICES ASSUME BootInv, [Next]_vars PROVE BootInv'
    OBVIOUS
  <2>1. CASE UNCHANGED vars
    <3>1. UNCHANGED <<mode, truth, dhcpView, scriptView, updates, offs, profile, stage, sent,
                      replies, file, ip, loads, script, allowed>>
      BY <2>1 DEF vars, records, machines
    <3>2. TypeOK' /\ Shapes'
      BY <3>1 DEF BootInv, TypeOK, Shapes
    <3>3. \A m \in Machines : MachineInv(m)'
      BY <3>1, Untouched DEF BootInv
    <3> QED BY <3>2, <3>3 DEF BootInv
  <2> QED BY <2>1, RecordSteps, MachineSteps DEF Next
<1> QED BY BootInit, <1>1, PTL DEF Spec

\* The state of records, views and machines keeps its types.
THEOREM TypeCorrect == Spec => []TypeOK
<1>1. BootInv => TypeOK
  BY DEF BootInv
<1> QED BY <1>1, BootInvHolds, PTL

\* No machine is ever led into a boot loop, nor to a script before it runs Smee's
\* iPXE, whatever its record says and however often that changes on the way.
THEOREM NoBootLoop == Spec => []ChainloadsOnce
<1>1. BootInv => ChainloadsOnce
  BY DEF BootInv, MachineInv, Staged, ChainloadsOnce
<1> QED BY <1>1, BootInvHolds, PTL

\* With the mac in the script's URL, the script a machine is given from a record
\* is from its own record.
THEOREM ScriptIsOwn == Spec => []OwnScript
<1>1. BootInv => OwnScript
  BY DEF BootInv, MachineInv, Entitled, OwnScript
<1> QED BY <1>1, BootInvHolds, PTL

\* With the mac in the script's URL, a machine boots in modes reservation and
\* proxy only if both handlers' views have allowed it since it was switched on.
\* Without it the script handler asks by address, and DenialHolds is false where
\* two records share one.
THEOREM DenialIsKept == Spec => [](PrependMac => DenialHolds)
<1>1. BootInv => (PrependMac => DenialHolds)
  BY DEF BootInv, MachineInv, Entitled, DenialHolds
<1> QED BY <1>1, BootInvHolds, PTL
=============================================================================
