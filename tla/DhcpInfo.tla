------------------------------- MODULE DhcpInfo -------------------------------
(***************************************************************************)
(* internal/dhcp/dhcp.go: what Smee concludes from a client's packet.      *)
(*                                                                         *)
(* A packet is a record: the client's mac, the opcode op, the message type *)
(* type, the options it carries (has, a set of option numbers) and the     *)
(* values of those that matter:                                            *)
(*   opt60  what its class identifier starts with: "PXEClient",            *)
(*          "HTTPClient" or "other";                                       *)
(*   opt77  its user class; "" when the option is absent;                  *)
(*   opt93  the sequence of architectures it lists;                        *)
(*   opt97  "empty", "guid" (17 bytes, the first 0), "badStart" or         *)
(*          "badLength".                                                   *)
(* A URL or file name is a record of what it names: a kind, the mac in its *)
(* path and the file or script at its end.                                 *)
(***************************************************************************)
EXTENDS Sequences

CONSTANTS
    RaspberryPI,    \* the macs with a Raspberry Pi prefix
    HTTPHost        \* host of the HTTP binary server: "ip", "name" or "nil" (no URL)

UndiArchs == {"INTEL_X86PC", "NEC_PC98", "EFI_ITANIUM", "DEC_ALPHA", "ARC_X86",
              "INTEL_LEAN_CLIENT"}
IpxeArchs == {"EFI_IA32", "EFI_X86_64", "EFI_XSCALE", "EFI_BC", "EFI_X86_HTTP",
              "EFI_X86_64_HTTP"}
SnpArchs == {"EFI_ARM32", "EFI_ARM64", "EFI_ARM32_HTTP", "EFI_ARM64_HTTP", "RPI"}

\* An architecture the iana package has no name for, and Arch(255).
UnnamedArchs == {"UNNAMED"}
UnknownArch == "UNKNOWN"

\* ArchToBootFile; "" when the map has no entry.
ArchToBootFile(arch) ==
    CASE arch \in UndiArchs -> "undionly.kpxe"
      [] arch \in IpxeArchs -> "ipxe.efi"
      [] arch \in SnpArchs -> "snp.efi"
      [] OTHER -> ""

\* The first architecture of option 93 that has a name, unless the mac says
\* more than the option does.
Arch(pkt) ==
    LET Named(a) == a \notin UnnamedArchs
        named == SelectSeq(pkt.opt93, Named)
    IN  IF pkt.mac \in RaspberryPI THEN "RPI"
        ELSE IF named = <<>> THEN UnknownArch ELSE named[1]

IPXEBinaryFrom(pkt) == ArchToBootFile(Arch(pkt))

UserClassFrom(pkt) == IF 77 \in pkt.has THEN pkt.opt77 ELSE ""

\* Any class identifier that is not an HTTPClient's counts as a PXEClient's.
ClientTypeFrom(pkt) ==
    IF 60 \notin pkt.has THEN ""
    ELSE IF pkt.opt60 = "HTTPClient" THEN "HTTPClient" ELSE "PXEClient"

\* Mutant: a PXE ROM that sends no GUID is not served.
IsNetbootClientWithGuid(pkt) ==
    /\ pkt.type \in {"Discover", "Request"}
    /\ {60, 93, 94, 97} \subseteq pkt.has
    /\ pkt.opt60 \in {"PXEClient", "HTTPClient"} /\ pkt.opt97 = "guid"

\* A Discover or Request with options 60, 93 and 94; option 97 may be missing.
IsNetbootClient(pkt) ==
    /\ pkt.type \in {"Discover", "Request"}
    /\ {60, 93, 94} \subseteq pkt.has
    /\ pkt.opt60 \in {"PXEClient", "HTTPClient"}
    /\ 97 \in pkt.has => pkt.opt97 \in {"empty", "guid"}

\* URLs and file names.
URL(kind, mac, what) == [kind |-> kind, mac |-> mac, what |-> what]
NoURL == URL("nil", "", "")
NoScriptDefined == URL("name", "", "/no-ipxe-script-defined")
NetbootNotAllowed == URL("name", "", "/netboot-not-allowed")

\* Does the boot file name an iPXE binary, which chainloads iPXE once more?
IsBinary(file) == file.what \in {"undionly.kpxe", "ipxe.efi", "snp.efi"}

IsScript(file) == file.what \in {"auto.ipxe", "custom.ipxe"}

\* Mutant: the client type is looked at before the Tinkerbell user class.
BootfileClientTypeFirst(pkt, customUC, ipxeScript) ==
    LET uc == UserClassFrom(pkt)
        bin == IPXEBinaryFrom(pkt)
    IN  CASE ClientTypeFrom(pkt) = "HTTPClient" ->
               IF HTTPHost # "nil" THEN URL("http", pkt.mac, bin) ELSE NoScriptDefined
          [] uc = "Tinkerbell" \/ (customUC # "" /\ uc = customUC) ->
               IF ipxeScript # NoURL THEN ipxeScript ELSE NoScriptDefined
          [] uc = "iPXE" -> URL("tftp", pkt.mac, bin)
          [] OTHER ->
               IF bin # "" THEN URL("name", "", bin) ELSE NoScriptDefined

\* The boot file by user class, then client type: the first case that applies.
Bootfile(pkt, customUC, ipxeScript) ==
    LET uc == UserClassFrom(pkt)
        bin == IPXEBinaryFrom(pkt)
    IN  IF uc = "Tinkerbell" \/ (customUC # "" /\ uc = customUC)
        THEN IF ipxeScript # NoURL THEN ipxeScript ELSE NoScriptDefined
        ELSE IF ClientTypeFrom(pkt) = "HTTPClient"
        THEN IF HTTPHost # "nil" THEN URL("http", pkt.mac, bin) ELSE NoScriptDefined
        ELSE IF uc = "iPXE"
        THEN URL("tftp", pkt.mac, bin)
        ELSE IF bin # "" THEN URL("name", "", bin) ELSE NoScriptDefined

\* net.ParseIP of a host name, like the lack of a URL, is the nil address.
NextServer(pkt) ==
    IF ClientTypeFrom(pkt) = "HTTPClient"
    THEN IF HTTPHost = "ip" THEN "httpServer" ELSE "nil"
    ELSE "tftpServer"

\* The sub-options of option 43 for a Raspberry Pi, added to those in opts.
AddRPIOpt43(pkt, opts) ==
    IF pkt.mac \in RaspberryPI THEN opts \cup {9, 10} ELSE opts
=============================================================================
