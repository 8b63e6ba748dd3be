---------------------------- MODULE MCHttpServer ----------------------------
(* Requests, records and an image for model checking HttpServer. *)
EXTENDS HttpServer

CONSTANT First  \* the first of the connections

MCAddr == {"c1", "c2", "p1", "p2"}
MCTrusted == {"p1", "p2"}
MCMac == {"m1", "m2"}
MCImage == <<"x", "y", "b", "x", "y">>
MCMagic == <<"x", "y">>

\* With the mac in front: as long as the magic string, or longer.
MCRec == {<<"v">>, <<"v", "w">>}

IsoRequest(path, mac, lo, hi) ==
    [route |-> "iso", client |-> "c1", sent |-> <<>>, via |-> <<>>,
     path |-> path, mac |-> mac, lo |-> lo, hi |-> hi]
ScriptRequest(client, sent, via) ==
    [route |-> "script", client |-> client, sent |-> sent, via |-> via,
     path |-> "ok", mac |-> "m1", lo |-> 1, hi |-> 1]

\* On the first connection: the image from its start; URLs that are refused; and
\* scripts, for a client that is no proxy, behind up to two, with headers that
\* name another client, a proxy, or no address, and for one that is itself in a
\* trusted subnet.  On the second: a part of the image that starts within a
\* magic string.
MCRequest ==
    [c \in Conn |->
        IF c = First
        THEN { IsoRequest("ok", "m1", 1, 5), IsoRequest("ext", "m1", 1, 5),
               IsoRequest("mac", "m1", 1, 5), IsoRequest("upgrade", "m1", 1, 5),
               ScriptRequest("c1", <<"p2">>, <<>>), ScriptRequest("c1", <<"p1", "">>, <<"p1">>),
               ScriptRequest("c1", <<>>, <<"p1">>), ScriptRequest("c1", <<"c2", "p2">>, <<"p1", "p2">>),
               ScriptRequest("p1", <<"">>, <<"p2">>) }
        ELSE {IsoRequest("ok", "m2", 2, 5)}]
=============================================================================
