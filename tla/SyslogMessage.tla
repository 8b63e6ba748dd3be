---------------------------- MODULE SyslogMessage ----------------------------
(***************************************************************************)
(* internal/syslog/message.go and the logging half of receiver.go: what    *)
(* becomes of the datagrams that are read, one after the other, into the   *)
(* buffer of one pooled message.  That a message is used by one goroutine  *)
(* at a time is SingleOwner of SyslogReceiver.                             *)
(*                                                                         *)
(* A byte is one of the characters that the parser tells apart, "a"        *)
(* standing for any letter, "," for any byte that means nothing to it,     *)
(* "CR" for \r and "nul" for the zero byte.  Some texts are one symbol: a  *)
(* severity's name; "T", a time in the legacy layout (only ever followed   *)
(* by a space); "t", one in the layout of RFC 5424; "D", the message's own *)
(* time as trimTimePrefix prints it.  Fields are slices: sequences of      *)
(* bytes, or Nil.  The time itself is not logged and is left out.          *)
(***************************************************************************)
EXTENDS Naturals, Sequences, FiniteSets, SequencesExt

CONSTANTS
    BufLen,      \* bytes in a message's buf
    Nil,         \* the nil slice
    Formatted,   \* messages that senders print in one of the two formats
    Others,      \* datagrams of no particular format
    MaxReads     \* bound on the datagrams read

ASSUME BufLenAssumption == BufLen \in Nat /\ BufLen >= 5
ASSUME MaxReadsAssumption == MaxReads \in Nat

DigitValue == [c \in {"0", "1", "2", "3", "4", "5", "6", "7", "8", "9"} |->
                 CASE c = "0" -> 0 [] c = "1" -> 1 [] c = "2" -> 2 [] c = "3" -> 3 [] c = "4" -> 4
                   [] c = "5" -> 5 [] c = "6" -> 6 [] c = "7" -> 7 [] c = "8" -> 8 [] c = "9" -> 9]
Digit == DOMAIN DigitValue
SeverityName == <<"EMERG", "ALERT", "CRIT", "ERR", "WARNING", "NOTICE", "INFO", "DEBUG">>
TagByte == Digit \cup {"a", "-", "_", "/", "."} \cup ToSet(SeverityName)
Byte == TagByte \cup {"<", ">", "[", "]", ":", " ", "{", "}", ",", "CR", "nul", "T", "t", "D"}

Facility(m) == m.priority \div 8
Severity(m) == m.priority % 8

From(s, i) == SubSeq(s, i, Len(s))
TrimPrefix(s, prefix) == IF IsPrefix(prefix, s) THEN From(s, Len(prefix) + 1) ELSE s

VARIABLES
    buf,       \* the message's buf, with what earlier datagrams left in it
    size,      \* its size
    m,         \* its parsed fields
    stage,     \* where it is: "pool", "read", "logged", or "panic"
    datagram,  \* the datagram read last
    entry,     \* the log entry written last
    reads      \* datagrams read so far

vars == <<buf, size, m, stage, datagram, entry, reads>>

-----------------------------------------------------------------------------
(* The parser.  A function that takes and gives back the fields, with ok   *)
(* for its result; panic for a slice expression out of range.              *)

Blank == [ok |-> FALSE, panic |-> FALSE, priority |-> 0,
          hostname |-> Nil, app |-> Nil, procid |-> Nil, msgid |-> Nil, msg |-> Nil]

\* Mutant: the priority is not kept in a byte.
ParsePriorityWide(b, n, f) ==
    LET stops == {i \in 2..5 : b[i] \notin Digit}
        end == Min(stops)
    IN  IF n < 3 \/ b[1] # "<" \/ stops = {} THEN [f EXCEPT !.ok = FALSE]
        ELSE IF b[end] # ">" THEN [f EXCEPT !.ok = FALSE]
        ELSE [f EXCEPT !.ok = TRUE, !.panic = end > n, !.msg = SubSeq(b, end + 1, n),
                       !.priority = FoldLeft(LAMBDA p, c : p * 10 + DigitValue[c],
                                             0, SubSeq(b, 2, end - 1))]

\* Mutant: the priority sticks at 255.
ParsePrioritySaturating(b, n, f) ==
    LET wide == ParsePriorityWide(b, n, f)
    IN  [wide EXCEPT !.priority = IF @ > 255 THEN 255 ELSE @]

\* Mutant: one byte less is looked at.
ParsePriorityShort(b, n, f) ==
    IF b[5] = ">" THEN [f EXCEPT !.ok = FALSE]
    ELSE LET wide == ParsePriorityWide(b, n, f) IN [wide EXCEPT !.priority = @ % 256]

\* The priority is accumulated in a byte: pri[i] is its value after i digits.
Priority(digits) ==
    LET pri[i \in 0..Len(digits)] ==
          IF i = 0 THEN 0 ELSE (pri[i - 1] * 10 + DigitValue[digits[i]]) % 256
    IN  pri[Len(digits)]

\* Up to four bytes after the '<' are looked at, whether or not the datagram is
\* that long; the slice that follows the '>' must lie within it.
ParsePriority(b, n, f) ==
    LET stops == {i \in 2..5 : b[i] \notin Digit}
        end == Min(stops)
    IN  IF n < 3 \/ b[1] # "<" \/ stops = {} THEN [f EXCEPT !.ok = FALSE]
        ELSE IF b[end] # ">" THEN [f EXCEPT !.ok = FALSE]
        ELSE [f EXCEPT !.ok = TRUE, !.panic = end > n, !.msg = SubSeq(b, end + 1, n),
                       !.priority = Priority(SubSeq(b, 2, end - 1))]

ParseVersion(f) ==
    IF IsPrefix(<<"1", " ">>, f.msg) THEN [f EXCEPT !.ok = TRUE, !.msg = From(@, 3)]
    ELSE [f EXCEPT !.ok = FALSE]

IgnoreNil(s) == IF s = <<"-">> THEN Nil ELSE s

\* bytes.SplitN goes from one space to the next: where the first one is (behind
\* the end, if there is none), what is before it and what after it.
Space(s) == Min({i \in 1..Len(s) : s[i] = " "} \cup {Len(s) + 1})
Before(s) == SubSeq(s, 1, Space(s) - 1)
After(s) == From(s, Space(s) + 1)

ParseTimestamp(s) == s \in {<<"-">>, <<"t">>}

\* There are six parts if the rest after the fourth has a space.
ParseHeader(f) ==
    LET r1 == After(f.msg)
        r2 == After(r1)
        r3 == After(r2)
        r4 == After(r3)
    IN  IF Space(r4) > Len(r4) \/ ~ParseTimestamp(Before(f.msg)) THEN [f EXCEPT !.ok = FALSE]
        ELSE [f EXCEPT !.ok = TRUE,
                       !.hostname = IgnoreNil(Before(r1)), !.app = IgnoreNil(Before(r2)),
                       !.procid = IgnoreNil(Before(r3)), !.msgid = IgnoreNil(Before(r4)),
                       !.msg = After(r4)]

\* Only absent structured data ("-") is understood.
ParseStructuredData(f) ==
    IF IsPrefix(<<"-", " ">>, f.msg) THEN [f EXCEPT !.ok = TRUE, !.msg = From(@, 3)]
    ELSE [f EXCEPT !.ok = FALSE]

\* The tag ends at the first byte that is not a tag's.  procid is assigned on
\* all paths but the one of a tag without '['.
ParseLegacyTag(f) ==
    LET b == f.msg
        stops == {i \in 1..Len(b) : b[i] \notin TagByte}
        end == Min(stops)
        closing == {i \in (end + 1)..Len(b) : b[i] = "]"}
        pid == IF b[end] # "[" THEN f.procid
               ELSE IF closing = {} THEN Nil ELSE SubSeq(b, end + 1, Min(closing) - 1)
        rest == IF b[end] = "[" /\ closing # {} THEN From(b, Min(closing) + 1) ELSE From(b, end)
    IN  IF stops = {} THEN [f EXCEPT !.app = Nil, !.procid = Nil]
        ELSE [f EXCEPT !.app = SubSeq(b, 1, end - 1), !.procid = pid,
                       !.msg = TrimPrefix(rest, <<":", " ">>)]

TrimSeverityPrefix(f) == [f EXCEPT !.msg = TrimPrefix(@, <<SeverityName[Severity(f) + 1], ":", " ">>)]
TrimTimePrefix(f) == [f EXCEPT !.msg = TrimPrefix(@, <<"D">>)]
TrimCarriageReturns(f) == [f EXCEPT !.msg = TrimPrefix(@, <<"CR">>)]

ParseLegacyHeader(f) ==
    LET stamped == [f EXCEPT !.ok = TRUE, !.hostname = Nil, !.msg = TrimPrefix(@, <<"T", " ">>)]
    IN  TrimCarriageReturns(TrimTimePrefix(TrimSeverityPrefix(ParseLegacyTag(stamped))))

\* message.parse.
Parse(b, n, f) ==
    LET pri == ParsePriority(b, n, f)
        version == ParseVersion(pri)
        header == ParseHeader(version)
    IN  IF ~pri.ok \/ pri.panic THEN pri
        ELSE IF ~version.ok THEN ParseLegacyHeader(pri)
        ELSE IF ~header.ok THEN header
        ELSE ParseStructuredData(header)

-----------------------------------------------------------------------------
(* The log entry. *)

\* A text that is to be JSON is logged as the object it unmarshals to, or not.
Unmarshals(s) == s = <<"{", "}">>
LoggedText(s) == IF s # <<>> /\ s[1] = "{" /\ ~Unmarshals(s) THEN <<>> ELSE s
NilToEmpty(s) == IF s = Nil THEN <<>> ELSE s

\* receiver.go's parse: an empty field has no key.
Structured(f) ==
    [how |-> "structured", verbose |-> Severity(f) = 7,
     facility |-> Facility(f), severity |-> Severity(f), hostname |-> NilToEmpty(f.hostname),
     app |-> NilToEmpty(f.app), procid |-> NilToEmpty(f.procid), msgid |-> NilToEmpty(f.msgid),
     text |-> LoggedText(NilToEmpty(f.msg))]

\* message.String: the datagram as it came when not even a priority was found.
AsString(b, n, f) ==
    IF f.msg = Nil THEN [how |-> "raw", verbose |-> TRUE, text |-> SubSeq(b, 1, n)]
    ELSE [Structured(f) EXCEPT !.how = "string", !.verbose = TRUE, !.text = f.msg]

NoEntry == [how |-> "none", verbose |-> FALSE]

EntryOf(b, n, f) ==
    IF f.panic THEN NoEntry ELSE IF f.ok THEN Structured(f) ELSE AsString(b, n, f)

-----------------------------------------------------------------------------
(* The machine. *)

TypeOK ==
    /\ DOMAIN buf = 1..BufLen /\ size \in 0..BufLen /\ reads \in 0..MaxReads
    /\ m.priority \in 0..255
    /\ \A f \in {"hostname", "app", "procid", "msgid", "msg"} : m[f] = Nil \/ Len(m[f]) <= BufLen
    /\ stage \in {"pool", "read", "logged", "panic"}

ZeroBuf == [i \in 1..BufLen |-> "nul"]

Init ==
    /\ buf = ZeroBuf /\ size = 0 /\ m = Blank
    /\ stage = "pool" /\ datagram = <<>> /\ entry = NoEntry /\ reads = 0

\* run: ReadFromUDP overwrites as much of buf as the datagram needs, and cuts
\* one that is longer.
Filled(b, d) == [i \in 1..BufLen |-> IF i <= Len(d) THEN d[i] ELSE b[i]]
Kept(d) == IF Len(d) > BufLen THEN BufLen ELSE Len(d)

Read(d) ==
    /\ stage = "pool" /\ reads < MaxReads
    /\ buf' = Filled(buf, d) /\ size' = Kept(d)
    /\ stage' = "read" /\ datagram' = d /\ reads' = reads + 1
    /\ UNCHANGED <<m, entry>>

\* runParser: parse, then log what was understood, or all of it at V(1).
Log ==
    /\ stage = "read"
    /\ m' = Parse(buf, size, m)
    /\ entry' = EntryOf(buf, size, m')
    /\ stage' = IF m'.panic THEN "panic" ELSE "logged"
    /\ UNCHANGED <<buf, size, datagram, reads>>

\* Mutant: reset forgets procid.
ResetKeepingProcid ==
    /\ stage = "logged"
    /\ m' = [Blank EXCEPT !.procid = m.procid] /\ stage' = "pool"
    /\ UNCHANGED <<buf, size, datagram, entry, reads>>

\* reset and Put: buf and size stay as they are.
Reset ==
    /\ stage = "logged"
    /\ m' = Blank /\ stage' = "pool"
    /\ UNCHANGED <<buf, size, datagram, entry, reads>>

-----------------------------------------------------------------------------
(* What senders print. *)

\* The decimal digits of a number below 1000.
DigitOf == [n \in 0..9 |-> CHOOSE c \in Digit : DigitValue[c] = n]
Decimal(n) ==
    IF n < 10 THEN <<DigitOf[n]>>
    ELSE IF n < 100 THEN <<DigitOf[n \div 10], DigitOf[n % 10]>>
    ELSE <<DigitOf[n \div 100], DigitOf[(n \div 10) % 10], DigitOf[n % 10]>>

Pri(n, rest) == <<"<">> \o (Decimal(n) \o (<<">">> \o rest))

\* A field of the header of RFC 5424, and the header without structured data.
Word(s, rest) == (IF s = <<>> THEN <<"-">> ELSE s) \o (<<" ">> \o rest)
PrintRFC5424(x) ==
    <<"1", " ">> \o Word(<<"t">>, Word(x.hostname, Word(x.app, Word(x.procid, Word(x.msgid,
        <<"-", " ">> \o x.text)))))

\* The legacy format: optional time, tag with an optional pid, and a text that
\* may repeat severity and time in front.
SeverityPrefix(x) == <<SeverityName[(x.pri % 8) + 1], ":", " ">>
Text(x) == (IF x.prefix THEN SeverityPrefix(x) \o <<"D">> ELSE <<>>) \o x.text
Pid(x) == IF x.procid = <<>> THEN <<>> ELSE <<"[">> \o (x.procid \o <<"]">>)
PrintLegacy(x) ==
    (IF x.stamp THEN <<"T", " ">> ELSE <<>>) \o (x.app \o (Pid(x) \o (<<":", " ">> \o Text(x))))

PrintMessage(x) == Pri(x.pri, IF x.format = "rfc5424" THEN PrintRFC5424(x) ELSE PrintLegacy(x))

Datagrams == {PrintMessage(x) : x \in Formatted} \cup Others

\* What a sender is free to print: a number of up to three digits; fields without
\* the bytes that end them, and no "-" where that means none; in the legacy
\* format, a text that does not start with what the parser trims from one.  The
\* header fits in buf.
RFC5424Fields(x) == {x.hostname, x.app, x.procid, x.msgid}
IsRFC5424(x) ==
    /\ x.format = "rfc5424"
    /\ \A s \in RFC5424Fields(x) : s \in Seq(Byte \ {" "}) /\ s # <<"-">>
Trimmed(x) == {SeverityPrefix(x), <<"D">>, <<"CR">>}
IsLegacy(x) ==
    /\ x.format = "legacy" /\ x.stamp \in BOOLEAN /\ x.prefix \in BOOLEAN
    /\ x.app \in Seq(TagByte) /\ x.procid \in Seq(Byte \ {"]"})
    /\ \A p \in Trimmed(x) : ~IsPrefix(p, x.text)
Printable(x) ==
    /\ x.pri \in 0..999 /\ x.text \in Seq(Byte)
    /\ Len(PrintMessage(x)) - Len(x.text) <= BufLen
    /\ IsRFC5424(x) \/ IsLegacy(x)
ASSUME FormattedAssumption == \A x \in Formatted : Printable(x)
ASSUME OthersAssumption == Others \subseteq Seq(Byte)
ASSUME NilAssumption == Nil \notin Seq(Byte)

Next == (\E d \in Datagrams : Read(d)) \/ Log \/ Reset
Spec == Init /\ [][Next]_vars

-----------------------------------------------------------------------------
(* Properties. *)

\* The datagram itself decides whether it starts with a priority: it is too
\* short to, or has a byte within the four after the '<' that is no digit.
Decided(d) ==
    \/ Len(d) < 3 \/ d[1] # "<" \/ Len(d) >= 5
    \/ \E i \in 2..Len(d) : d[i] \notin Digit

\* What a message that was never used before would log for datagram d.
FreshEntry(d) ==
    LET b == Filled(ZeroBuf, d) IN EntryOf(b, Kept(d), Parse(b, Kept(d), Blank))

\* Messages are recycled with their old bytes in buf: what is logged for a
\* datagram is all the same what an unused message would log for it, whatever
\* was read before.  A datagram that ends within its priority is the exception:
\* parsePriority goes on in the old bytes, and on finding a '>' there slices
\* behind the end of the datagram, which panics.
DatagramAlone ==
    /\ stage = "logged" => entry = FreshEntry(datagram)
    /\ stage = "panic" => ~Decided(datagram)

\* What the structured entry of a message should say.  The end of the text is
\* missing if the message does not fit in buf.
Expected(x) ==
    [how |-> "structured", verbose |-> x.pri % 8 = 7,
     facility |-> x.pri \div 8, severity |-> x.pri % 8,
     hostname |-> IF x.format = "rfc5424" THEN x.hostname ELSE <<>>,
     app |-> x.app, procid |-> x.procid,
     msgid |-> IF x.format = "rfc5424" THEN x.msgid ELSE <<>>,
     text |-> LoggedText(SubSeq(x.text, 1, Len(x.text) - (Len(PrintMessage(x)) - Kept(PrintMessage(x)))))]

\* A message printed in either format, with a priority that exists (at most
\* 191), is logged with the fields it was printed from, whatever fields
\* the message object had before.
WellFormedUnderstood ==
    stage = "logged" => \A x \in Formatted :
        x.pri <= 191 /\ datagram = PrintMessage(x) => entry = Expected(x)

\* The priority is kept in a byte and wraps: the severity, which decides the log
\* level, survives this for every number of three digits.
SeverityKept ==
    stage = "logged" => \A x \in Formatted :
        datagram = PrintMessage(x) => entry.severity = x.pri % 8 /\ entry.verbose = (x.pri % 8 = 7)
=============================================================================
