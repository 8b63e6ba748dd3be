--------------------------- MODULE MCSyslogMessage ---------------------------
(* Datagrams for model checking SyslogMessage. *)
EXTENDS SyslogMessage

\* Legacy messages with and without time, tag, pid and prefixes; the text may
\* start like a tag, be empty, be JSON or only start like it.
MCLegacy ==
    [format : {"legacy"}, pri : {7, 14, 191, 303}, stamp : BOOLEAN, app : {<<"a">>},
     procid : {<<>>, <<"4">>}, prefix : BOOLEAN, text : {<<>>, <<"a", "[", "4", "]">>}]
    \cup [format : {"legacy"}, pri : {3}, stamp : {FALSE}, app : {<<>>, <<"a">>},
          procid : {<<>>}, prefix : {FALSE}, text : {<<"{", "}">>, <<"{", "a">>, <<"-", " ", "1">>}]

\* RFC 5424 messages with fields missing; the last text does not fit in buf.
MCRFC5424 ==
    [format : {"rfc5424"}, pri : {0, 191, 300}, hostname : {<<>>, <<"a">>}, app : {<<"a">>},
     procid : {<<>>, <<"4">>}, msgid : {<<>>},
     text : {<<>>, <<"a", " ", "a">>, <<"a", " ", "a", " ", "a", " ", "a">>}]

MCFormatted == MCLegacy \cup MCRFC5424

\* Datagrams that end within the priority or have none, an unfinished tag, a
\* header that is too short or has no time, structured data, and a text that
\* is no JSON although it starts like it.
MCOthers ==
    { <<>>, <<"<", "1">>, <<"<", "1", "4">>, <<"<", "1", "4", "1">>, <<"<", ">", "a">>, <<"<", "a", ">">>,
      <<"a", "a", "a">>, <<"<", "7", ">">>, <<"<", "1", "2", "3", "4", ">">>,
      <<"<", "7", ">", "a", "[", "4">>, <<"<", "7", ">", "a">>, <<"<", "7", ">", "CR", "a">>,
      <<"<", "7", ">", "1", " ", "a">>, <<"<", "7", ">", "1", " ", "a", " ", "-", " ", "-", " ", "-", " ", "-", " ", "-", " ">>,
      <<"<", "7", ">", "1", " ", "t", " ", "-", " ", "-", " ", "-", " ", "-", " ", "[", "a", "]">>,
      <<"<", "3", ">", "a", ":", " ", "{", "a">> }
=============================================================================
