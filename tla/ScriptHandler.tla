---------------------------- MODULE ScriptHandler ----------------------------
(***************************************************************************)
(* internal/ipxe/script/ipxe.go: what the HTTP server answers to a request *)
(* for an iPXE script, as a function of the request and of what the        *)
(* backend answers.  A request has the base of its path, the mac before it *)
(* ("" if that is not a mac) and the client's address ip ("" if it cannot  *)
(* be told).                                                               *)
(***************************************************************************)
EXTENDS DhcpHandlers

\* main sets StaticIPXEEnabled by the DHCP mode.
StaticIPXEEnabled(mode) == mode = "auto-proxy"

Status(code) == [status |-> code, script |-> "none", mac |-> ""]
Script(kind, mac) == [status |-> 200, script |-> kind, mac |-> mac]

\* customScript: the record's chain URL, which must be an http(s) one, goes
\* before the record's own script text.
CustomScript(hw) ==
    IF hw.script # NoURL
    THEN IF hw.script.kind \in {"http", "https"} THEN Script("chain", hw.mac) ELSE Status(500)
    ELSE Script("inline", hw.mac)

\* serveBootScript, asked for auto.ipxe.
ServeBootScript(hw) ==
    IF hw.script # NoURL \/ hw.inline THEN CustomScript(hw) ELSE Script("hook", hw.mac)

\* Mutant: AllowNetboot is left to the DHCP handler.
AnswerScriptUngated(mode, res) ==
    IF res.st # "ok" THEN IF StaticIPXEEnabled(mode) THEN Script("static", "") ELSE Status(404)
    ELSE ServeBootScript(res.hw)

\* HandlerFunc, once the backend has answered res: with the static script
\* enabled every error of the backend leads to it.
AnswerScript(mode, res) ==
    IF res.st # "ok" THEN IF StaticIPXEEnabled(mode) THEN Script("static", "") ELSE Status(404)
    ELSE IF ~res.hw.allow THEN Status(404)
    ELSE ServeBootScript(res.hw)

\* Mutant: the client's address is tried before the mac in the path.
HandleScriptIPFirst(mode, req, byMac, byIP) ==
    IF req.base # "auto.ipxe" \/ (req.mac = "" /\ req.ip = "") THEN {Status(404)}
    ELSE {AnswerScript(mode, res) :
            res \in IF req.mac # "" /\ NotFound \in byIP THEN byMac ELSE byIP}

\* HandlerFunc: the possible responses, where byMac and byIP are the possible
\* answers of GetByMac and GetByIP.  The mac in the path goes before the ip.
HandleScript(mode, req, byMac, byIP) ==
    IF req.base # "auto.ipxe" \/ (req.mac = "" /\ req.ip = "") THEN {Status(404)}
    ELSE {AnswerScript(mode, res) : res \in IF req.mac # "" THEN byMac ELSE byIP}
=============================================================================
