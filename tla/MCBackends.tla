----------------------------- MODULE MCBackends -----------------------------
(* Records for model checking Backends. *)
EXTENDS Backends

MCMac == {"m1", "m2"}
MCIP == {"a1", "a2"}
MCDhcpMode == {"reservation", "proxy", "auto-proxy"}

F(dhcp, mac, ip, valid, netboot) ==
    [dhcp |-> dhcp, mac |-> mac, ip |-> ip, valid |-> valid, netboot |-> netboot,
     disabled |-> mac = "m2", allow |-> ip = "a1"]
MCIface ==
    { F(TRUE, "m1", "a1", TRUE, TRUE), F(TRUE, "m1", "a2", TRUE, TRUE),
      F(TRUE, "m2", "a1", TRUE, TRUE), F(TRUE, "m2", "a2", FALSE, TRUE),
      F(TRUE, "m2", "nil", TRUE, TRUE), F(TRUE, "", "", TRUE, TRUE), F(TRUE, "m1", "a1", TRUE, FALSE),
      F(FALSE, "m1", "a1", TRUE, TRUE) }

K(mac, spelling) == [mac |-> mac, spelling |-> spelling]
E(ip, printed, valid, disabled, allow) ==
    [ip |-> ip, printed |-> printed, valid |-> valid, disabled |-> disabled, allow |-> allow]
MCKey == {K("m1", "lower"), K("m1", "upper"), K("m1", "dash"), K("m2", "lower"), K("m2", "none")}
MCEntry ==
    { E("a1", TRUE, TRUE, FALSE, TRUE), E("a2", TRUE, TRUE, TRUE, FALSE),
      E("a1", FALSE, TRUE, FALSE, TRUE), E("a2", TRUE, FALSE, FALSE, TRUE),
      E("", FALSE, TRUE, FALSE, TRUE) }
=============================================================================
