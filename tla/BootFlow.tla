------------------------------- MODULE BootFlow -------------------------------
(***************************************************************************)
(* Smee's DHCP and script handlers serving machines that netboot.          *)
(*                                                                         *)
(* A machine starts in its firmware (stage "rom", or "vendor" when that is *)
(* an iPXE), is led to load Smee's iPXE (stage "tink"), whose user class   *)
(* is Tinkerbell, and from there to a script.  Each stage does a DHCP      *)
(* exchange of its own over a network that loses, delays and repeats       *)
(* packets.  main gives the DHCP and the script handler a backend each, so *)
(* each has its own view of the hardware records, behind the truth by any  *)
(* amount.                                                                 *)
(*                                                                         *)
(* Machines, the network, the records and the servers of iPXE binaries are *)
(* external; the handlers are those of DhcpHandlers and ScriptHandler.     *)
(***************************************************************************)
EXTENDS ScriptHandler, Naturals, FiniteSets

CONSTANTS
    Macs,        \* macs with a record, or none
    Machines,    \* those of the machines that are switched on
    Profiles,    \* ways to netboot: first stage, opt60, opt93 and whether opt97
    Answers,     \* what the records may say of a machine
    OtherIP(_),  \* the address a machine has from another DHCP server
    MaxUpdates,  \* bound on the changes to the records
    MaxOffs      \* bound on how often machines are switched off on their way

ASSUME MachinesAssumption == Machines \subseteq Macs /\ Profiles # {}
ASSUME BoundsAssumption == MaxUpdates \in Nat /\ MaxOffs \in Nat
ASSUME MacsAssumption == "" \notin Macs
ASSUME ProfilesAssumption == \A p \in Profiles : p.first \in {"rom", "vendor"}
\* A record's script URL leads elsewhere; its what is then custom.ipxe.
ASSUME AnswersAssumption ==
    \A a \in Answers : a.hw.script = NoURL \/ a.hw.script.what = "custom.ipxe"
\* main leaves Netboot.UserClass empty; no vendor's iPXE may be taken for Smee's.
ASSUME UserClassAssumption == UserClass # "iPXE"

VARIABLES
    mode,        \* -dhcp-mode, for the life of the process
    truth,       \* the hardware records
    dhcpView,    \* what the DHCP handler's backend holds of them
    scriptView,  \* what the script handler's backend holds of them
    updates,     \* changes to the records so far
    offs,        \* times a machine was switched off on its way
    profile,     \* the way each machine tries to boot
    stage,       \* how far it has come
    sent,        \* types of the packets a machine sent in this exchange
    replies,     \* replies to them
    file,        \* the boot file a machine was last told to load
    ip,          \* its address
    loads,       \* iPXE binaries it loaded since it was powered on
    script,      \* the script it got
    allowed      \* views that have allowed it to netboot since it was powered on

records == <<mode, truth, dhcpView, scriptView, updates>>
machines == <<offs, profile, stage, sent, replies, file, ip, loads, script>>
vars == <<records, machines, allowed>>

AnswersFor(m) == {a \in Answers : a.st = "ok" => a.hw.mac = m}
Views == {"dhcp", "script"}
InDHCP == {"rom", "vendor", "tink"}
NoScript == [status |-> 0, script |-> "none", mac |-> ""]

TypeOK ==
    /\ \A view \in {truth, dhcpView, scriptView} :
         view \in [Macs -> Answers] /\ \A m \in Macs : view[m] \in AnswersFor(m)
    /\ mode \in Modes /\ profile \in [Machines -> Profiles]
    /\ updates \in 0..MaxUpdates /\ offs \in 0..MaxOffs
    /\ stage \in [Machines -> InDHCP \cup {"off", "get", "booted", "local"}]
    /\ sent \in [Machines -> SUBSET {"Discover", "Request"}]
    /\ \A m \in Machines : \A r \in replies[m] : r.type \in {"Offer", "Ack"}
    /\ loads \in [Machines -> Nat]
    /\ allowed \in [Machines -> SUBSET Views]

Allows(answer) == answer.st = "ok" /\ answer.hw.allow

\* The views that now allow machine m to netboot.
AllowedNow(m) ==
    (IF Allows(dhcpView[m]) THEN {"dhcp"} ELSE {})
    \cup (IF Allows(scriptView[m]) THEN {"script"} ELSE {})

Init ==
    /\ truth \in {f \in [Macs -> Answers] : \A m \in Macs : f[m] \in AnswersFor(m)}
    /\ dhcpView = truth /\ scriptView = truth /\ updates = 0 /\ offs = 0
    /\ mode \in Modes /\ profile = [m \in Machines |-> CHOOSE p \in Profiles : TRUE]
    /\ stage = [m \in Machines |-> "off"]
    /\ sent = [m \in Machines |-> {}] /\ replies = [m \in Machines |-> {}]
    /\ file = [m \in Machines |-> NoURL] /\ ip = [m \in Machines |-> ""]
    /\ loads = [m \in Machines |-> 0] /\ script = [m \in Machines |-> NoScript]
    /\ allowed = [m \in Machines |-> {}]

-----------------------------------------------------------------------------
(* The records and the two backends' views of them (external). *)

Update(m, a) ==
    /\ updates < MaxUpdates /\ truth[m] # a
    /\ truth' = [truth EXCEPT ![m] = a] /\ updates' = updates + 1
    /\ UNCHANGED <<mode, dhcpView, scriptView, machines, allowed>>

\* The view that now takes over the record of m may be one that allows it.
Noted(m, view) ==
    allowed' = [n \in Machines |->
        IF n = m /\ stage[m] # "off" /\ Allows(truth[m]) THEN allowed[n] \cup {view} ELSE allowed[n]]

SyncDhcp(m) ==
    /\ dhcpView[m] # truth[m]
    /\ dhcpView' = [dhcpView EXCEPT ![m] = truth[m]]
    /\ Noted(m, "dhcp")
    /\ UNCHANGED <<mode, truth, scriptView, updates, machines>>

SyncScript(m) ==
    /\ scriptView[m] # truth[m]
    /\ scriptView' = [scriptView EXCEPT ![m] = truth[m]]
    /\ Noted(m, "script")
    /\ UNCHANGED <<mode, truth, dhcpView, updates, machines>>

-----------------------------------------------------------------------------
(* Machines (external). *)

\* The packet machine m sends in its present stage.
Packet(m, type) ==
    [mac |-> m, op |-> "BootRequest", type |-> type,
     has |-> {60, 93, 94} \cup (IF stage[m] = "rom" THEN {} ELSE {77})
                          \cup (IF profile[m].guid THEN {97} ELSE {}),
     opt60 |-> profile[m].opt60,
     opt77 |-> CASE stage[m] = "tink" -> "Tinkerbell" [] stage[m] = "vendor" -> "iPXE" [] OTHER -> "",
     opt93 |-> profile[m].opt93, opt97 |-> IF profile[m].guid THEN "guid" ELSE "empty",
     giaddr |-> "", peer |-> "broadcast"]

\* Machine m enters stage s and, where that stage does DHCP, sends a Discover.
\* What is left of the last exchange has another transaction id.
Enter(m, s) ==
    /\ stage' = [stage EXCEPT ![m] = s]
    /\ sent' = [sent EXCEPT ![m] = IF s \in InDHCP THEN {"Discover"} ELSE {}]
    /\ replies' = [replies EXCEPT ![m] = {}]

PowerOn(m, p) ==
    /\ stage[m] = "off"
    /\ profile' = [profile EXCEPT ![m] = p]
    /\ Enter(m, p.first)
    /\ allowed' = [allowed EXCEPT ![m] = AllowedNow(m)]
    /\ UNCHANGED <<records, offs, file, ip, loads, script>>

\* A machine that ends on its local disk is restarted; elsewhere it may be
\* switched off, or give up, at any time.
PowerOff(m) ==
    /\ \/ stage[m] = "local" /\ UNCHANGED offs
       \/ stage[m] \notin {"off", "local"} /\ offs < MaxOffs /\ offs' = offs + 1
    /\ Enter(m, "off")
    /\ file' = [file EXCEPT ![m] = NoURL] /\ ip' = [ip EXCEPT ![m] = ""]
    /\ loads' = [loads EXCEPT ![m] = 0] /\ script' = [script EXCEPT ![m] = NoScript]
    /\ allowed' = [allowed EXCEPT ![m] = {}]
    /\ UNCHANGED <<records, profile>>

TakeOffer(m, r) ==
    /\ stage[m] \in InDHCP /\ sent[m] = {"Discover"}
    /\ r \in replies[m] /\ r.type = "Offer"
    /\ sent' = [sent EXCEPT ![m] = {"Discover", "Request"}]
    /\ UNCHANGED <<records, offs, profile, stage, replies, file, ip, loads, script, allowed>>

\* The machine does what the boot file of an Ack says.
TakeAck(m, r) ==
    /\ stage[m] \in InDHCP /\ "Request" \in sent[m]
    /\ r \in replies[m] /\ r.type = "Ack"
    /\ file' = [file EXCEPT ![m] = r.boot.file]
    /\ ip' = [ip EXCEPT ![m] = IF mode = "reservation" THEN r.yiaddr ELSE OtherIP(m)]
    /\ IF IsBinary(r.boot.file)
       THEN Enter(m, "tink") /\ loads' = [loads EXCEPT ![m] = @ + 1]
       ELSE Enter(m, IF IsScript(r.boot.file) THEN "get" ELSE "local") /\ UNCHANGED loads
    /\ UNCHANGED <<records, offs, profile, script, allowed>>

-----------------------------------------------------------------------------
(* Smee. *)

\* The DHCP handler receives a packet of m's exchange, for the first time or
\* once more, and replies.
ServeDhcp(m, type) ==
    /\ type \in sent[m]
    /\ LET r == Reply(mode, Packet(m, type), dhcpView[m]) IN
        /\ r # NoReply /\ r \notin replies[m]
        /\ replies' = [replies EXCEPT ![m] = @ \cup {r}]
    /\ UNCHANGED <<records, offs, profile, stage, sent, file, ip, loads, script, allowed>>

\* The backend of the script handler: GetByMac may fail; GetByIP does when two
\* records have the address (kube), or takes one of them (file).
ByMac(m) == IF m \in Macs THEN {scriptView[m], BackendError} ELSE {NotFound}
ByIP(addr) ==
    LET owners == {m \in Macs : scriptView[m].st = "ok" /\ scriptView[m].hw.ip = addr}
    IN  {BackendError}
        \cup (IF owners = {} THEN {NotFound} ELSE {scriptView[m] : m \in owners})

\* The machine gets the script its boot file names, from Smee or, when the
\* record has a URL of its own, from wherever that is.
ServeScript(m) ==
    /\ stage[m] = "get"
    /\ \E resp \in
          IF file[m].what = "auto.ipxe"
          THEN HandleScript(mode, [base |-> file[m].what, mac |-> file[m].mac, ip |-> ip[m]],
                            ByMac(file[m].mac), ByIP(ip[m]))
          ELSE {Script("external", m)} :
        /\ script' = [script EXCEPT ![m] = resp]
        /\ Enter(m, IF resp.status = 200 THEN "booted" ELSE "local")
    /\ UNCHANGED <<records, offs, profile, file, ip, loads, allowed>>

-----------------------------------------------------------------------------

Progress(m) ==
    \/ \E r \in replies[m] : TakeOffer(m, r) \/ TakeAck(m, r)
    \/ \E type \in {"Discover", "Request"} : ServeDhcp(m, type)

Next ==
    \/ \E m \in Macs :
        \/ \E a \in AnswersFor(m) : Update(m, a)
        \/ SyncDhcp(m) \/ SyncScript(m)
    \/ \E m \in Machines :
        \/ \E p \in Profiles : PowerOn(m, p)
        \/ PowerOff(m)
        \/ Progress(m) \/ ServeScript(m)

\* Views catch up; a machine that is off is switched on, and one that ends on
\* its local disk switched off, again and again; not every packet of a machine
\* that keeps trying is lost, and not every answer of the backend an error.
Fairness ==
    /\ \A m \in Macs : WF_vars(SyncDhcp(m)) /\ WF_vars(SyncScript(m))
    /\ \A m \in Machines :
        /\ WF_vars(\E p \in Profiles : PowerOn(m, p))
        /\ WF_vars(stage[m] = "local" /\ PowerOff(m))
        /\ SF_vars(\E r \in replies[m] : TakeOffer(m, r))
        /\ SF_vars(\E r \in replies[m] : TakeAck(m, r))
        /\ SF_vars(ServeDhcp(m, "Discover")) /\ SF_vars(ServeDhcp(m, "Request"))
        /\ SF_vars(ServeScript(m) /\ stage'[m] = "booted")

Spec == Init /\ [][Next]_vars /\ Fairness

-----------------------------------------------------------------------------
(* Properties. *)

\* No boot loop: since it was powered on a machine has loaded iPXE at most
\* once, and only a machine that runs Smee's iPXE is ever sent to a script.
ChainloadsOnce ==
    \A m \in Machines : loads[m] <= 1 /\ (stage[m] \in {"get", "booted"} => loads[m] = 1)

\* A machine that boots has been allowed to by the DHCP handler's view of its
\* record and by the script handler's, each at some time since it was powered
\* on: denying it in either is enough, whatever the other still says.  A script
\* URL of the record's own is handed out by the DHCP handler alone.
DenialHolds ==
    mode # "auto-proxy" => \A m \in Machines : stage[m] = "booted" =>
        allowed[m] = Views \/ (script[m].script = "external" /\ "dhcp" \in allowed[m])

\* With the mac in the script's URL no machine is given another's script, even
\* while addresses move between records and the views disagree about them.
OwnScript ==
    PrependMac => \A m \in Machines :
        script[m].script \in {"hook", "chain", "inline"} => script[m].mac = m

\* An enabled record that allows netboot; in mode auto-proxy, no record will do.
Bootable(a) ==
    \/ a.st = "ok" /\ ~a.hw.disabled /\ a.hw.allow
    \/ a.st = "notFound" /\ mode = "auto-proxy"

\* A machine that its record lets boot, for good, does boot in the end if it
\* keeps trying, however its packets are lost and the views lag; so does, in
\* mode auto-proxy, a machine that has no record.
EventuallyBoots ==
    \A m \in Machines : <>[]Bootable(truth[m]) => <>(stage[m] = "booted")
=============================================================================
