---------------------------- MODULE MCDhcpServer ----------------------------
(* Packets and records for model checking DhcpServer. *)
EXTENDS DhcpServer

\* A PXE ROM's packet, and the changes to it that the handlers tell apart.
Base(m, type) ==
    [mac |-> m, op |-> "BootRequest", type |-> type, has |-> {60, 93, 94},
     opt60 |-> "PXEClient", opt77 |-> "", opt93 |-> <<"UNNAMED", "EFI_X86_64">>,
     opt97 |-> "empty", giaddr |-> "", peer |-> "broadcast"]

MCMacs == {"m1", "m2"}
MCPkt ==
    { Base("m1", "Discover"),
      [Base("m1", "Request") EXCEPT !.has = @ \cup {77, 97}, !.opt77 = "Tinkerbell",
                                    !.opt60 = "HTTPClient", !.opt97 = "guid"],
      [Base("m2", "Request") EXCEPT !.giaddr = "relay", !.has = @ \cup {77}, !.opt77 = "iPXE"],
      [Base("m2", "Release") EXCEPT !.has = {}] }

HW(m, ip, disabled, allow) ==
    [mac |-> m, ip |-> ip, disabled |-> disabled, allow |-> allow, script |-> NoURL,
     inline |-> FALSE]
MCAnswers ==
    { NotFound, Found(HW("m1", "ip1", FALSE, TRUE)), Found(HW("m1", "ip2", TRUE, FALSE)),
      Found(HW("m2", "ip3", FALSE, FALSE)) }
=============================================================================
