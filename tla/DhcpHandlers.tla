----------------------------- MODULE DhcpHandlers -----------------------------
(***************************************************************************)
(* The replies of the two DHCP handlers, as functions of the packet and of *)
(* what the backend answers:                                               *)
(*   internal/dhcp/handler/reservation (mode "reservation") and            *)
(*   internal/dhcp/handler/proxy (modes "proxy" and "auto-proxy").         *)
(* The mode (-dhcp-mode) is a parameter.                                   *)
(*                                                                         *)
(* A backend answer is [st |-> "ok", hw |-> record], or has the status     *)
(* "notFound" or "error".  A hardware record is what Smee reads from it:   *)
(* its mac and ip, disabled, allow (AllowNetboot), script, the record's    *)
(* own IPXEScriptURL (NoURL when there is none) and inline, whether it has *)
(* an IPXEScript of its own.  The network settings of a reply (netmask,    *)
(* DNS, lease time, ...) are all copied from the record and stand or fall  *)
(* with its ip.                                                            *)
(***************************************************************************)
EXTENDS DhcpInfo

CONSTANTS
    NetbootEnabled,  \* Netboot.Enabled
    UserClass,       \* Netboot.UserClass: a user class taken for Tinkerbell's
    PrependMac       \* -dhcp-http-ipxe-script-prepend-mac

ASSUME FlagAssumption == NetbootEnabled \in BOOLEAN /\ PrependMac \in BOOLEAN

Modes == {"reservation", "proxy", "auto-proxy"}

NoHW == [mac |-> "", ip |-> "", disabled |-> FALSE, allow |-> FALSE, script |-> NoURL,
         inline |-> FALSE]
Found(hw) == [st |-> "ok", hw |-> hw]
NotFound == [st |-> "notFound", hw |-> NoHW]
BackendError == [st |-> "error", hw |-> NoHW]

\* dhcpHandler's ipxeScript: the auto.ipxe URL, with the client's mac if so set.
IPXEScriptURL(pkt) == URL("script", IF PrependMac THEN pkt.mac ELSE "", "auto.ipxe")

NoReply == [type |-> "none"]

\* A relayed packet is answered to the relay's server port.
ReplyDestination(pkt) == IF pkt.giaddr # "" THEN pkt.giaddr ELSE pkt.peer

\* Mutant: the message type of the reply is not set.
ReplyTypeUnset(type) == "Unset"

ReplyType(type) == IF type = "Discover" THEN "Offer" ELSE "Ack"

-----------------------------------------------------------------------------
(* The reservation handler. *)

\* setNetworkBootOpts: boot file, next server, option 60 and option 43.
NetworkBootOpts(pkt, hw) ==
    LET script == IF hw.script # NoURL THEN hw.script ELSE IPXEScriptURL(pkt)
        opt60 == IF ClientTypeFrom(pkt) = "HTTPClient" THEN "HTTPClient" ELSE ""
    IN  IF hw.allow /\ IPXEBinaryFrom(pkt) # ""
        THEN [file |-> Bootfile(pkt, UserClass, script), siaddr |-> NextServer(pkt),
              opt60 |-> opt60, opt43 |-> AddRPIOpt43(pkt, {6, 69})]
        ELSE [file |-> NetbootNotAllowed, siaddr |-> "zero", opt60 |-> opt60, opt43 |-> {}]

NoBootOpts == [file |-> NoURL, siaddr |-> "self", opt60 |-> "", opt43 |-> {}]

\* setDHCPOpts: the address and, with it, the network settings of the record.
DHCPOpts(hw) == hw.ip

\* updateMsg: the reply to pkt from record hw.
UpdateMsg(pkt, hw) ==
    [type |-> ReplyType(pkt.type), to |-> ReplyDestination(pkt), yiaddr |-> DHCPOpts(hw),
     boot |-> IF NetbootEnabled /\ IsNetbootClient(pkt)
              THEN NetworkBootOpts(pkt, hw) ELSE NoBootOpts]

\* Mutant: Disabled is looked at for a Discover only.
ReservationReplyDiscoverOnly(pkt, res) ==
    IF \/ pkt.type \notin {"Discover", "Request"} \/ res.st # "ok"
       \/ pkt.type = "Discover" /\ res.hw.disabled
    THEN NoReply
    ELSE UpdateMsg(pkt, res.hw)

\* Handle: a Discover is offered, a Request acknowledged, whatever address it
\* asks for, when there is an enabled record for the mac; all else is ignored.
ReservationReply(pkt, res) ==
    IF \/ pkt.type \notin {"Discover", "Request"} \/ res.st # "ok" \/ res.hw.disabled
    THEN NoReply
    ELSE UpdateMsg(pkt, res.hw)

-----------------------------------------------------------------------------
(* The proxy handler. *)

\* The conditions under which Handle gets as far as asking the backend.
ProxyServes(pkt) ==
    /\ pkt.op = "BootRequest"
    /\ pkt.type \in {"Discover", "Request"}
    /\ NetbootEnabled
    /\ IsNetbootClient(pkt)
    /\ IPXEBinaryFrom(pkt) # ""

\* Mutant: only a record that denies netboot, not a missing one, is refused.
ProxyReplyIgnoringErrors(mode, pkt, res) ==
    IF \/ ~ProxyServes(pkt)
       \/ mode = "proxy" /\ res.st = "ok" /\ ~res.hw.allow
    THEN NoReply
    ELSE [type |-> ReplyType(pkt.type), to |-> ReplyDestination(pkt), yiaddr |-> "",
          boot |-> [file |-> Bootfile(pkt, "", IPXEScriptURL(pkt)), siaddr |-> NextServer(pkt),
                    opt60 |-> ClientTypeFrom(pkt), opt43 |-> AddRPIOpt43(pkt, {6})]]

\* Handle: in mode "proxy" a client is answered only if the backend has a
\* record for it that allows netboot; in "auto-proxy" the backend is not asked.
ProxyReply(mode, pkt, res) ==
    IF \/ ~ProxyServes(pkt)
       \/ mode = "proxy" /\ (res.st # "ok" \/ ~res.hw.allow)
    THEN NoReply
    ELSE [type |-> ReplyType(pkt.type), to |-> ReplyDestination(pkt), yiaddr |-> "",
          boot |-> [file |-> Bootfile(pkt, "", IPXEScriptURL(pkt)), siaddr |-> NextServer(pkt),
                    opt60 |-> ClientTypeFrom(pkt), opt43 |-> AddRPIOpt43(pkt, {6})]]

-----------------------------------------------------------------------------

\* The reply of the one handler that dhcpHandler builds for the mode.
Reply(mode, pkt, res) ==
    IF mode = "reservation" THEN ReservationReply(pkt, res) ELSE ProxyReply(mode, pkt, res)

\* Does the handler ask the backend about pkt at all?
AsksBackend(mode, pkt) ==
    CASE mode = "reservation" -> pkt.type \in {"Discover", "Request"}
      [] mode = "proxy" -> ProxyServes(pkt)
      [] OTHER -> FALSE
=============================================================================
