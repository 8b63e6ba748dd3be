----------------------------- MODULE MCBootFlow -----------------------------
(* Machines and records for model checking BootFlow. *)
EXTENDS BootFlow

HW(m, ip0, allow, url) ==
    [mac |-> m, ip |-> ip0, disabled |-> FALSE, allow |-> allow, script |-> url,
     inline |-> FALSE]
CustomURL == URL("http", "", "custom.ipxe")

MCMacs == {"m1", "m2"}
MCMachines == {"m1"}

\* HTTP boot without a GUID, and PXE from an iPXE in the vendor's ROM.
MCProfiles ==
    { [first |-> "rom", opt60 |-> "HTTPClient", opt93 |-> <<"EFI_X86_64_HTTP">>, guid |-> FALSE],
      [first |-> "vendor", opt60 |-> "PXEClient", opt93 |-> <<"INTEL_X86PC">>, guid |-> TRUE] }

\* m1 may be denied, or have a script of its own; m2 may be given m1's address.
MCAnswers ==
    { NotFound, Found(HW("m1", "ip1", TRUE, NoURL)), Found(HW("m1", "ip1", FALSE, NoURL)),
      Found(HW("m1", "ip1", TRUE, CustomURL)), Found(HW("m2", "ip1", TRUE, NoURL)) }

MCOtherIP(m) == "ip1"
=============================================================================
