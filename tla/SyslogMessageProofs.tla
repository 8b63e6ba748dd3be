------------------------ MODULE SyslogMessageProofs ------------------------
(***************************************************************************)
(* SyslogMessage's invariants, for all datagrams, messages and lengths of  *)
(* the buffer.                                                             *)
(*                                                                         *)
(* DatagramAlone.  The parser looks at the buffer in parsePriority alone,  *)
(* and String slices it.  Slices end with the datagram.  parsePriority     *)
(* stops within the datagram when that is Decided; when it is not, a fresh *)
(* buffer has a zero byte behind it, which is neither a digit nor '>', and *)
(* an old one either gives the same answer or makes the parser panic.      *)
(*                                                                         *)
(* TypeOK.  Each function of the parser makes slices of slices.            *)
(*                                                                         *)
(* WellFormedUnderstood and SeverityKept.  With the above, it is enough to *)
(* follow a printed message through a fresh parser: what is printed in     *)
(* front is found there and cut off, field by field.  A message that was   *)
(* cut when it was read is one with a shorter text.                        *)
(***************************************************************************)
EXTENDS SyslogMessage, SequenceTheorems, WellFoundedInduction, TLAPS

\* The bytes at which parsePriority may stop.
Stops(b) == {i \in 2..5 : b[i] \notin Digit}

\* A least element.
Least(S, x) == x \in S /\ \A y \in S : x <= y

\* The message in the pool is blank, and so it is still when a datagram has
\* been read, which then lies in the first size bytes of buf.
MessageInv ==
    /\ stage \in {"pool", "read"} => m = Blank
    /\ stage = "read" =>
         /\ datagram \in Datagrams /\ size = Kept(datagram)
         /\ \A i \in 1..size : buf[i] = datagram[i]
    /\ DatagramAlone

-----------------------------------------------------------------------------
(* Strings of bytes, and their slices. *)

Str == Seq(Byte)

\* Buffers that agree on a range have the same slice there.
LEMMA SameSlice ==
    ASSUME NEW b, NEW c, NEW i \in Int, NEW j \in Int, \A k \in i..j : b[k] = c[k]
    PROVE  SubSeq(b, i, j) = SubSeq(c, i, j)
<1> DEFINE S == {b[k] : k \in i..j}
<1>1. \A k \in i..j : b[k] \in S /\ c[k] \in S
  OBVIOUS
<1> HIDE DEF S
<1>2. /\ SubSeq(b, i, j) \in Seq(S) /\ Len(SubSeq(b, i, j)) = IF i <= j THEN j - i + 1 ELSE 0
      /\ \A k \in 1..(j - i + 1) : SubSeq(b, i, j)[k] = b[i + k - 1]
  BY <1>1, SubSeqProperties
<1>3. /\ SubSeq(c, i, j) \in Seq(S) /\ Len(SubSeq(c, i, j)) = IF i <= j THEN j - i + 1 ELSE 0
      /\ \A k \in 1..(j - i + 1) : SubSeq(c, i, j)[k] = c[i + k - 1]
  BY <1>1, SubSeqProperties
<1>4. \A k \in 1..Len(SubSeq(b, i, j)) : SubSeq(b, i, j)[k] = SubSeq(c, i, j)[k]
  <2> SUFFICES ASSUME NEW k \in 1..Len(SubSeq(b, i, j)) PROVE SubSeq(b, i, j)[k] = SubSeq(c, i, j)[k]
    OBVIOUS
  <2>1. k \in 1..(j - i + 1) /\ i + k - 1 \in i..j
    BY <1>2
  <2> QED BY <1>2, <1>3, <2>1
<1>5. Len(SubSeq(b, i, j)) = Len(SubSeq(c, i, j))
  BY <1>2, <1>3
<1> HIDE DEF S
<1> QED BY <1>2, <1>3, <1>4, <1>5, SeqEqual

\* A concatenation, byte by byte.
LEMMA CatIs ==
    ASSUME NEW s \in Str, NEW t \in Str
    PROVE  /\ s \o t \in Str /\ Len(s) \in Nat /\ Len(t) \in Nat /\ Len(s \o t) = Len(s) + Len(t)
           /\ \A i \in 1..Len(s) : (s \o t)[i] = s[i]
           /\ \A i \in 1..Len(t) : (s \o t)[Len(s) + i] = t[i]
<1>1. /\ s \o t \in Str /\ Len(s \o t) = Len(s) + Len(t)
      /\ \A i \in 1..(Len(s) + Len(t)) : (s \o t)[i] = IF i <= Len(s) THEN s[i] ELSE t[i - Len(s)]
  BY ConcatProperties DEF Str
<1>2. Len(s) \in Nat /\ Len(t) \in Nat
  BY LenProperties DEF Str
<1> DEFINE k == Len(s)
           l == Len(t)
           u == s \o t
<1>3. k \in Nat /\ l \in Nat /\ \A i \in 1..(k + l) : u[i] = IF i <= k THEN s[i] ELSE t[i - k]
  BY <1>1, <1>2
<1> HIDE DEF k, l, u
<1>4. \A i \in 1..k : u[i] = s[i]
  BY <1>3
<1>5. \A i \in 1..l : u[k + i] = t[i]
  <2> SUFFICES ASSUME NEW i \in 1..l PROVE u[k + i] = t[i]
    OBVIOUS
  <2>1. k + i \in 1..(k + l) /\ ~(k + i <= k) /\ (k + i) - k = i
    BY <1>3
  <2> QED BY <1>3, <2>1
<1> QED BY <1>1, <1>2, <1>4, <1>5 DEF k, l, u

\* The length of a slice.
LEMMA SliceLen ==
    ASSUME NEW s, NEW i \in Int, NEW j \in Int
    PROVE  /\ Len(SubSeq(s, i, j)) = IF i <= j THEN j - i + 1 ELSE 0
           /\ \A k \in 1..(j - i + 1) : SubSeq(s, i, j)[k] = s[i + k - 1]
<1> DEFINE S == {s[k] : k \in i..j}
<1>1. \A k \in i..j : s[k] \in S
  OBVIOUS
<1> HIDE DEF S
<1> QED BY <1>1, SubSeqProperties

\* A slice of a string.
LEMMA SliceIs ==
    ASSUME NEW s \in Str, NEW i \in Nat \ {0}, NEW j \in Int, j <= Len(s)
    PROVE  SubSeq(s, i, j) \in Str
<1>1. Len(s) \in Nat /\ \A k \in 1..Len(s) : s[k] \in Byte
  BY LenProperties, ElementOfSeq DEF Str
<1> DEFINE l == Len(s)
<1>2. l \in Nat /\ j <= l
  BY <1>1
<1> HIDE DEF l
<1>3. \A k \in i..j : k \in 1..l
  BY <1>2
<1>4. \A k \in i..j : s[k] \in Byte
  BY <1>1, <1>3 DEF l
<1> QED BY <1>4, SubSeqProperties DEF Str

\* Strings with the same bytes are the same.
LEMMA SameString ==
    ASSUME NEW s \in Str, NEW t \in Str, Len(s) = Len(t), \A i \in 1..Len(s) : s[i] = t[i]
    PROVE  s = t
BY SeqEqual DEF Str

\* Slices of a concatenation at the seam.
LEMMA DropIs ==
    ASSUME NEW s \in Str, NEW t \in Str
    PROVE  From(s \o t, Len(s) + 1) = t
<1> DEFINE k == Len(s)
           l == Len(t)
           u == s \o t
           r == SubSeq(u, k + 1, k + l)
<1>1. u \in Str /\ k \in Nat /\ l \in Nat /\ Len(u) = k + l /\ \A i \in 1..l : u[k + i] = t[i]
  BY CatIs
<1>2. From(u, k + 1) = r
  BY <1>1 DEF From
<1> HIDE DEF k, l, u
<1>3. /\ Len(r) = IF k + 1 <= k + l THEN (k + l) - (k + 1) + 1 ELSE 0
      /\ \A i \in 1..((k + l) - (k + 1) + 1) : r[i] = u[(k + 1) + i - 1]
  BY <1>1, SliceLen
<1>4. r \in Str
  BY <1>1, SliceIs
<1> HIDE DEF r
<1>5. Len(r) = l
  BY <1>1, <1>3
<1>6. ASSUME NEW i \in 1..l PROVE r[i] = t[i]
  <2>1. i \in 1..((k + l) - (k + 1) + 1) /\ (k + 1) + i - 1 = k + i
    BY <1>1
  <2> QED BY <1>1, <1>3, <2>1
<1>7. r = t
  BY <1>4, <1>5, <1>6, SameString DEF l
<1> QED BY <1>2, <1>7 DEF u, k

\* A concatenation that is cut behind the seam.
LEMMA TakeCat ==
    ASSUME NEW s \in Str, NEW t \in Str, NEW n \in Nat, n <= Len(t)
    PROVE  SubSeq(s \o t, 1, Len(s) + n) = s \o SubSeq(t, 1, n)
<1> DEFINE k == Len(s)
           l == Len(t)
           u == s \o t
           c == SubSeq(t, 1, n)
           r == SubSeq(u, 1, k + n)
           v == s \o c
<1>1. /\ u \in Str /\ k \in Nat /\ l \in Nat /\ Len(u) = k + l /\ \A i \in 1..l : u[k + i] = t[i]
      /\ \A i \in 1..k : u[i] = s[i]
  BY CatIs
<1>2. c \in Str
  BY SliceIs
<1>3. Len(c) = n /\ \A i \in 1..n : c[i] = t[i]
  <2>1. /\ Len(c) = IF 1 <= n THEN n - 1 + 1 ELSE 0
        /\ \A i \in 1..(n - 1 + 1) : c[i] = t[1 + i - 1]
    BY SliceLen
  <2> HIDE DEF c
  <2>2. ASSUME NEW i \in 1..n PROVE i \in 1..(n - 1 + 1) /\ 1 + i - 1 = i
    OBVIOUS
  <2>3. \A i \in 1..n : c[i] = t[i]
    BY <2>1, <2>2
  <2> QED BY <2>1, <2>3
<1> HIDE DEF c
<1>4. /\ v \in Str /\ Len(v) = k + n
      /\ \A i \in 1..k : v[i] = s[i]
      /\ \A i \in 1..n : v[k + i] = c[i]
  BY <1>2, <1>3, CatIs
<1>n. n <= l
  OBVIOUS
<1> HIDE DEF k, l, u, v
<1>5. r \in Str
  BY <1>1, <1>n, SliceIs
<1>6. Len(r) = k + n /\ \A i \in 1..(k + n) : r[i] = u[i]
  <2>1. /\ Len(r) = IF 1 <= k + n THEN (k + n) - 1 + 1 ELSE 0
        /\ \A i \in 1..((k + n) - 1 + 1) : r[i] = u[1 + i - 1]
    BY <1>1, SliceLen
  <2> HIDE DEF r
  <2>2. ASSUME NEW i \in 1..(k + n) PROVE i \in 1..((k + n) - 1 + 1) /\ 1 + i - 1 = i
    BY <1>1
  <2>3. \A i \in 1..(k + n) : r[i] = u[i]
    BY <2>1, <2>2
  <2> QED BY <1>1, <2>1, <2>3
<1> HIDE DEF r
<1>7. ASSUME NEW i \in 1..(k + n) PROVE r[i] = v[i]
  <2>1. CASE i <= k
    BY <1>1, <1>4, <1>6, <2>1
  <2>2. CASE i > k
    <3>1. i - k \in 1..n /\ i - k \in 1..l /\ i = k + (i - k)
      BY <1>1, <1>n, <2>2
    <3>2. u[i] = t[i - k] /\ v[i] = c[i - k] /\ c[i - k] = t[i - k]
      BY <1>1, <1>3, <1>4, <3>1
    <3> QED BY <1>6, <3>2
  <2> QED BY <1>1, <2>1, <2>2
<1>8. r = v
  BY <1>4, <1>5, <1>6, <1>7, SameString
<1> QED BY <1>8 DEF r, v, u, c, k

\* One that is cut at the seam.
LEMMA TakeIs ==
    ASSUME NEW s \in Str, NEW t \in Str
    PROVE  SubSeq(s \o t, 1, Len(s)) = s
<1>1. Len(s) \in Nat /\ Len(t) \in Nat /\ \A i \in 1..Len(s) : (s \o t)[i] = s[i]
  BY CatIs
<1>2. SubSeq(s \o t, 1, Len(s)) = SubSeq(s, 1, Len(s))
  BY <1>1, SameSlice
<1>3. SubSeq(s, 1, Len(s)) = s
  BY SubSeqFull DEF Str
<1> QED BY <1>2, <1>3

\* What bytes.TrimPrefix makes of a string with the prefix, and of one without.
LEMMA PrefixIs ==
    ASSUME NEW s \in Str, NEW t \in Str
    PROVE  IsPrefix(s, s \o t) /\ TrimPrefix(s \o t, s) = t
<1>1. Len(s) \in Nat /\ Len(t) \in Nat /\ Len(s \o t) = Len(s) + Len(t)
  BY CatIs
<1>2. SubSeq(s \o t, 1, Len(s)) = s /\ SubSeq(s, 1, Len(s)) = s
  BY TakeIs, SubSeqFull DEF Str
<1>3. Len(s) <= Len(s \o t)
  BY <1>1
<1>4. IsPrefix(s, s \o t)
  BY <1>2, <1>3 DEF IsPrefix
<1> QED BY <1>4, DropIs DEF TrimPrefix

\* A string that differs from the prefix in a byte does not start with it.
LEMMA NoPrefix ==
    ASSUME NEW p \in Str, NEW s \in Str, NEW i \in 1..Len(p), i > Len(s) \/ s[i] # p[i]
    PROVE  ~IsPrefix(p, s) /\ TrimPrefix(s, p) = s
<1> SUFFICES ASSUME IsPrefix(p, s) PROVE FALSE
  BY DEF TrimPrefix
<1>1. Len(p) \in Nat /\ Len(s) \in Nat
  BY LenProperties DEF Str
<1>2. Len(p) <= Len(s) /\ SubSeq(p, 1, Len(p)) = SubSeq(s, 1, Len(p))
  BY DEF IsPrefix
<1> DEFINE k == Len(p)
<1>3. k \in Nat /\ i \in 1..k
  BY <1>1
<1> HIDE DEF k
<1>4. i \in 1..(k - 1 + 1) /\ 1 + i - 1 = i
  BY <1>3
<1>5. SubSeq(p, 1, k)[i] = p[i] /\ SubSeq(s, 1, k)[i] = s[i]
  <2>1. /\ \A j \in 1..(k - 1 + 1) : SubSeq(p, 1, k)[j] = p[1 + j - 1]
        /\ \A j \in 1..(k - 1 + 1) : SubSeq(s, 1, k)[j] = s[1 + j - 1]
    BY <1>3, SliceLen
  <2> QED BY <1>4, <2>1
<1>6. p[i] = s[i]
  BY <1>2, <1>5 DEF k
<1>7. ~(i > Len(s))
  BY <1>1, <1>2
<1> QED BY <1>6, <1>7

\* Strings of one, two and three bytes.
LEMMA OneByte ==
    ASSUME NEW a \in Byte
    PROVE  <<a>> \in Str /\ Len(<<a>>) = 1 /\ <<a>>[1] = a
BY DEF Str

\* Two bytes.
LEMMA TwoBytes ==
    ASSUME NEW a \in Byte, NEW b \in Byte
    PROVE  <<a, b>> \in Str /\ Len(<<a, b>>) = 2 /\ <<a, b>>[1] = a /\ <<a, b>>[2] = b
BY DEF Str

\* Three bytes.
LEMMA ThreeBytes ==
    ASSUME NEW a \in Byte, NEW b \in Byte, NEW c \in Byte
    PROVE  /\ <<a, b, c>> \in Str /\ Len(<<a, b, c>>) = 3
           /\ <<a, b, c>>[1] = a /\ <<a, b, c>>[2] = b /\ <<a, b, c>>[3] = c
BY DEF Str

\* The bytes that have a meaning, and the severities' names.
LEMMA Bytes ==
    /\ {"<", ">", "[", "]", ":", " ", "{", "}", "CR", "T", "t", "D", "1", "-"} \subseteq Byte
    /\ {"<", ">", "[", "]", ":", " ", "T", "D", "CR"} \cap TagByte = {}
    /\ Digit \subseteq TagByte /\ TagByte \subseteq Byte
    /\ \A i \in 1..8 : SeverityName[i] \in TagByte
<1>1. Digit = {"0", "1", "2", "3", "4", "5", "6", "7", "8", "9"}
  BY DEF Digit, DigitValue
<1>2. /\ DOMAIN SeverityName = 1..8 
      /\ ToSet(SeverityName) = {"EMERG", "ALERT", "CRIT", "ERR", "WARNING", "NOTICE", "INFO", "DEBUG"}
      /\ \A i \in 1..8 : SeverityName[i] \in ToSet(SeverityName)
  <2>1. DOMAIN SeverityName = 1..8
    BY DEF SeverityName
  <2>2. ToSet(SeverityName) = {SeverityName[i] : i \in 1..8}
    BY <2>1 DEF ToSet
  <2>3. /\ SeverityName[1] = "EMERG" /\ SeverityName[2] = "ALERT" /\ SeverityName[3] = "CRIT" 
        /\ SeverityName[4] = "ERR" /\ SeverityName[5] = "WARNING" /\ SeverityName[6] = "NOTICE"
        /\ SeverityName[7] = "INFO" /\ SeverityName[8] = "DEBUG"
    BY DEF SeverityName
  <2>4. 1..8 = {1, 2, 3, 4, 5, 6, 7, 8}
    OBVIOUS
  <2> HIDE DEF SeverityName
  <2>5. \A i \in 1..8 : SeverityName[i] \in ToSet(SeverityName)
    BY <2>2
  <2>6. ToSet(SeverityName) = {"EMERG", "ALERT", "CRIT", "ERR", "WARNING", "NOTICE", "INFO", "DEBUG"}
    BY <2>2, <2>3, <2>4
  <2> QED BY <2>1, <2>5, <2>6
<1> QED BY <1>1, <1>2 DEF TagByte, Byte

-----------------------------------------------------------------------------
(* The number. *)

\* The accumulator for up to three digits.
LEMMA PriorityIs ==
    ASSUME NEW digits, Len(digits) \in 0..3
    PROVE  /\ Len(digits) = 0 => Priority(digits) = 0
           /\ Len(digits) = 1 => Priority(digits) = (0 * 10 + DigitValue[digits[1]]) % 256
           /\ Len(digits) = 2 => Priority(digits) =
                (((0 * 10 + DigitValue[digits[1]]) % 256) * 10 + DigitValue[digits[2]]) % 256
           /\ Len(digits) = 3 => Priority(digits) =
                (((((0 * 10 + DigitValue[digits[1]]) % 256) * 10 + DigitValue[digits[2]]) % 256) * 10
                  + DigitValue[digits[3]]) % 256
<1> DEFINE n == Len(digits)
           p1 == (0 * 10 + DigitValue[digits[1]]) % 256
           p2 == (p1 * 10 + DigitValue[digits[2]]) % 256
           p3 == (p2 * 10 + DigitValue[digits[3]]) % 256
           IsPri(pri) == pri = [i \in 0..n |->
                IF i = 0 THEN 0 ELSE (pri[i - 1] * 10 + DigitValue[digits[i]]) % 256]
           pri == CHOOSE q : IsPri(q)
<1>1. Priority(digits) = pri[n]
  BY DEF Priority
<1>2. \E q : IsPri(q)
  <2> DEFINE w == [i \in 0..n |-> CASE i = 0 -> 0 [] i = 1 -> p1 [] i = 2 -> p2 [] i = 3 -> p3]
  <2>1. IsPri(w)
    OBVIOUS
  <2> QED BY <2>1
<1>3. IsPri(pri)
  BY <1>2
<1> HIDE DEF pri
<1>4. n >= 0 => pri[0] = 0
  BY <1>3
<1>5. n >= 1 => pri[1] = p1
  BY <1>3, <1>4
<1>6. n >= 2 => pri[2] = p2
  BY <1>3, <1>5
<1>7. n >= 3 => pri[3] = p3
  BY <1>3, <1>6
<1> HIDE DEF n, p1, p2, p3, IsPri
<1>8. /\ n = 0 => Priority(digits) = 0
      /\ n = 1 => Priority(digits) = p1
      /\ n = 2 => Priority(digits) = p2
      /\ n = 3 => Priority(digits) = p3
  BY <1>1, <1>4, <1>5, <1>6, <1>7
<1> QED BY <1>8 DEF n, p1, p2, p3

\* The values of digits.
LEMMA DigitIs ==
    /\ \A c \in Digit : DigitValue[c] \in 0..9
    /\ \A n \in 0..9 : DigitOf[n] \in Digit /\ DigitValue[DigitOf[n]] = n
<1>1. Digit = {"0", "1", "2", "3", "4", "5", "6", "7", "8", "9"}
  BY DEF Digit, DigitValue
<1>2. /\ DigitValue["0"] = 0 /\ DigitValue["1"] = 1 /\ DigitValue["2"] = 2 /\ DigitValue["3"] = 3
      /\ DigitValue["4"] = 4 /\ DigitValue["5"] = 5 /\ DigitValue["6"] = 6 /\ DigitValue["7"] = 7
      /\ DigitValue["8"] = 8 /\ DigitValue["9"] = 9
  BY DEF DigitValue
<1>3. \A c \in Digit : DigitValue[c] \in 0..9
  BY <1>1, <1>2
<1>4. \A n \in 0..9 : \E c \in Digit : DigitValue[c] = n
  <2>1. \A n \in 0..9 : n \in {0, 1, 2, 3, 4, 5, 6, 7, 8, 9}
    OBVIOUS
  <2> QED BY <1>1, <1>2, <2>1
<1>5. ASSUME NEW n \in 0..9 PROVE DigitOf[n] \in Digit /\ DigitValue[DigitOf[n]] = n
  <2>1. DigitOf[n] = CHOOSE c \in Digit : DigitValue[c] = n
    BY DEF DigitOf
  <2> QED BY <1>4, <2>1
<1> QED BY <1>3, <1>5

\* The accumulator is a byte, whatever the digits are.
LEMMA PriorityType ==
    ASSUME NEW digits, Len(digits) \in 0..3, \A i \in 1..Len(digits) : digits[i] \in Digit
    PROVE  Priority(digits) \in 0..255
<1> DEFINE n == Len(digits)
           v1 == DigitValue[digits[1]]
           v2 == DigitValue[digits[2]]
           v3 == DigitValue[digits[3]]
<1>1. \A i \in 1..n : DigitValue[digits[i]] \in 0..9
  BY DigitIs
<1>2. n \in 0..3
  OBVIOUS
<1>3. /\ n = 0 => Priority(digits) = 0
      /\ n = 1 => Priority(digits) = (0 * 10 + v1) % 256
      /\ n = 2 => Priority(digits) = (((0 * 10 + v1) % 256) * 10 + v2) % 256
      /\ n = 3 => Priority(digits) = (((((0 * 10 + v1) % 256) * 10 + v2) % 256) * 10 + v3) % 256
  BY PriorityIs
<1>4. (n >= 1 => v1 \in 0..9) /\ (n >= 2 => v2 \in 0..9) /\ (n >= 3 => v3 \in 0..9)
  <2> HIDE DEF n
  <2> QED BY <1>1, <1>2
<1> HIDE DEF n, v1, v2, v3
<1> DEFINE q1 == (0 * 10 + v1) % 256
           q2 == (q1 * 10 + v2) % 256
           q3 == (q2 * 10 + v3) % 256
<1>5. ASSUME n >= 1 PROVE q1 \in 0..255
  <2>1. v1 \in 0..9
    BY <1>4, <1>5
  <2> QED BY <2>1
<1> HIDE DEF q1
<1>6. ASSUME n >= 2 PROVE q2 \in 0..255
  <2>1. v2 \in 0..9 /\ n >= 1
    BY <1>2, <1>4, <1>6
  <2>2. q1 \in 0..255
    BY <1>5, <2>1
  <2> QED BY <2>1, <2>2
<1> HIDE DEF q2
<1>7. ASSUME n >= 3 PROVE q3 \in 0..255
  <2>1. v3 \in 0..9 /\ n >= 2
    BY <1>2, <1>4, <1>7
  <2>2. q2 \in 0..255
    BY <1>6, <2>1
  <2> QED BY <2>1, <2>2
<1>8. /\ n = 1 => Priority(digits) = q1
      /\ n = 2 => Priority(digits) = q2
      /\ n = 3 => Priority(digits) = q3
  BY <1>3 DEF q1, q2
<1> HIDE DEF q3
<1>9. CASE n = 0
  BY <1>3, <1>9
<1>10. CASE n = 1
  <2>1. n >= 1
    BY <1>10
  <2> QED BY <1>5, <1>8, <1>10, <2>1
<1>11. CASE n = 2
  <2>1. n >= 2
    BY <1>11
  <2> QED BY <1>6, <1>8, <1>11, <2>1
<1>12. CASE n = 3
  <2>1. n >= 3
    BY <1>12
  <2> QED BY <1>7, <1>8, <1>12, <2>1
<1>13. n = 0 \/ n = 1 \/ n = 2 \/ n = 3
  BY <1>2
<1> QED BY <1>9, <1>10, <1>11, <1>12, <1>13

\* A number that is printed is read again, modulo the size of a byte.
LEMMA DecimalIs ==
    ASSUME NEW n \in 0..999
    PROVE  /\ Decimal(n) \in Seq(Digit) /\ Len(Decimal(n)) \in 1..3
           /\ Priority(Decimal(n)) = n % 256
<1>1. CASE n < 10
  <2> DEFINE a == DigitOf[n]
  <2>1. a \in Digit /\ DigitValue[a] = n /\ Decimal(n) = <<a>>
    BY <1>1, DigitIs DEF Decimal
  <2> HIDE DEF a
  <2>2. <<a>> \in Seq(Digit) /\ Len(<<a>>) = 1 /\ <<a>>[1] = a
    BY <2>1
  <2>3. Priority(<<a>>) = (0 * 10 + n) % 256
    BY <2>1, <2>2, PriorityIs
  <2>4. (0 * 10 + n) % 256 = n % 256
    OBVIOUS
  <2> QED BY <2>1, <2>2, <2>3, <2>4
<1>2. CASE n >= 10 /\ n < 100
  <2> DEFINE x == n \div 10
             y == n % 10
             a == DigitOf[x]
             b == DigitOf[y]
  <2>1. x \in 0..9 /\ y \in 0..9 /\ n = x * 10 + y
    BY <1>2
  <2>2. Decimal(n) = <<a, b>>
    BY <1>2 DEF Decimal
  <2> HIDE DEF x, y
  <2>3. a \in Digit /\ DigitValue[a] = x /\ b \in Digit /\ DigitValue[b] = y
    BY <2>1, DigitIs
  <2> HIDE DEF a, b
  <2>4. <<a, b>> \in Seq(Digit) /\ Len(<<a, b>>) = 2 /\ <<a, b>>[1] = a /\ <<a, b>>[2] = b
    BY <2>3
  <2>5. Priority(<<a, b>>) = (((0 * 10 + x) % 256) * 10 + y) % 256
    BY <2>3, <2>4, PriorityIs
  <2>6. (((0 * 10 + x) % 256) * 10 + y) % 256 = n % 256
    BY <2>1
  <2> QED BY <2>2, <2>4, <2>5, <2>6
<1>3. CASE n >= 100
  <2> DEFINE x == n \div 100
             y == (n \div 10) % 10
             z == n % 10
             a == DigitOf[x]
             b == DigitOf[y]
             c == DigitOf[z]
  <2>1. x \in 0..9 /\ y \in 0..9 /\ z \in 0..9 /\ n = x * 100 + y * 10 + z
    BY <1>3
  <2>2. Decimal(n) = <<a, b, c>>
    BY <1>3 DEF Decimal
  <2> HIDE DEF x, y, z
  <2>3. /\ a \in Digit /\ DigitValue[a] = x /\ b \in Digit /\ DigitValue[b] = y
        /\ c \in Digit /\ DigitValue[c] = z
    BY <2>1, DigitIs
  <2> HIDE DEF a, b, c
  <2>4. /\ <<a, b, c>> \in Seq(Digit) /\ Len(<<a, b, c>>) = 3
        /\ <<a, b, c>>[1] = a /\ <<a, b, c>>[2] = b /\ <<a, b, c>>[3] = c
    BY <2>3
  <2>5. Priority(<<a, b, c>>) = (((((0 * 10 + x) % 256) * 10 + y) % 256) * 10 + z) % 256
    BY <2>3, <2>4, PriorityIs
  <2>6. (((((0 * 10 + x) % 256) * 10 + y) % 256) * 10 + z) % 256 = n % 256
    <3>1. (0 * 10 + x) % 256 = x
      BY <2>1
    <3>2. (x * 10 + y) % 256 = x * 10 + y
      BY <2>1
    <3>3. (x * 10 + y) * 10 + z = n
      BY <2>1
    <3> QED BY <3>1, <3>2, <3>3
  <2> QED BY <2>2, <2>4, <2>5, <2>6
<1> QED BY <1>1, <1>2, <1>3

-----------------------------------------------------------------------------
(* parsePriority. *)

\* There is one least element, and it is Min.
LEMMA MinIs ==
    ASSUME NEW S \in SUBSET Nat, NEW x, Least(S, x)
    PROVE  Min(S) = x
<1>1. \E z \in S : \A y \in S : z <= y
  BY DEF Least
<1>2. Min(S) \in S /\ \A y \in S : Min(S) <= y
  BY <1>1, Zenon DEF Min
<1>3. x \in S /\ \A y \in S : x <= y
  BY DEF Least
<1>4. Min(S) <= x /\ x <= Min(S) /\ x \in Nat /\ Min(S) \in Nat
  BY <1>2, <1>3
<1> QED BY <1>4

\* A set of numbers that is not empty has a least element.
LEMMA LeastIs ==
    ASSUME NEW S \in SUBSET Nat, S # {}
    PROVE  Least(S, Min(S))
<1> DEFINE R == {ss \in Nat \X Nat : ss[1] < ss[2]}
<1>1. IsWellFoundedOn(R, Nat)
  BY NatLessThanWellFounded DEF OpToRel
<1> HIDE DEF R
<1>2. PICK x \in S : \A y \in S : <<y, x>> \notin R
  BY <1>1, WFMin
<1>3. \A y \in S : ~(y < x)
  BY <1>2 DEF R
<1>4. Least(S, x)
  BY <1>2, <1>3 DEF Least
<1> QED BY <1>4, MinIs

\* Among four bytes there is a first one.
LEMMA LeastStop ==
    ASSUME NEW b, Stops(b) # {}
    PROVE  \E x \in 2..5 : Least(Stops(b), x)
BY DEF Stops, Least

\* The outcomes of parsePriority.
NotFound(r, f) == r = [f EXCEPT !.ok = FALSE]
Found(r, f, panic) ==
    \E pri, msg : r = [f EXCEPT !.ok = TRUE, !.panic = panic, !.msg = msg, !.priority = pri]

\* parsePriority finds none.
LEMMA NoPriority ==
    ASSUME NEW b, NEW n, NEW f, n < 3 \/ b[1] # "<" \/ Stops(b) = {}
    PROVE  NotFound(ParsePriority(b, n, f), f)
BY DEF ParsePriority, Stops, NotFound

\* What parsePriority gives when it stops at end.
Stopped(b, n, f, end) ==
    IF b[end] # ">" THEN [f EXCEPT !.ok = FALSE]
    ELSE [f EXCEPT !.ok = TRUE, !.panic = end > n, !.msg = SubSeq(b, end + 1, n),
                   !.priority = Priority(SubSeq(b, 2, end - 1))]

\* Stopped is one of the outcomes: what decides is whether the byte is a '>'.
LEMMA StoppedIs ==
    ASSUME NEW b, NEW n, NEW f, NEW end
    PROVE  /\ b[end] # ">" => NotFound(Stopped(b, n, f, end), f)
           /\ b[end] = ">" => Found(Stopped(b, n, f, end), f, end > n)
<1>1. CASE b[end] # ">"
  BY <1>1 DEF Stopped, NotFound
<1>2. CASE b[end] = ">"
  <2> DEFINE msg == SubSeq(b, end + 1, n)
             pri == Priority(SubSeq(b, 2, end - 1))
  <2>1. Stopped(b, n, f, end) =
          [f EXCEPT !.ok = TRUE, !.panic = end > n, !.msg = msg, !.priority = pri]
    BY <1>2 DEF Stopped
  <2> HIDE DEF msg, pri
  <2> QED BY <1>2, <2>1, Zenon DEF Found
<1> QED BY <1>1, <1>2

\* parsePriority stops at the first byte that is no digit.
LEMMA PriorityStops ==
    ASSUME NEW b, NEW n \in Nat, NEW f, n >= 3, b[1] = "<", NEW end, Least(Stops(b), end)
    PROVE  ParsePriority(b, n, f) = Stopped(b, n, f, end)
<1>1. Stops(b) \in SUBSET Nat /\ Stops(b) # {}
  BY DEF Stops, Least
<1>2. Min(Stops(b)) = end
  BY <1>1, MinIs
<1>3. ParsePriority(b, n, f) =
        IF n < 3 \/ b[1] # "<" \/ Stops(b) = {} THEN [f EXCEPT !.ok = FALSE]
        ELSE Stopped(b, n, f, Min(Stops(b)))
  BY DEF ParsePriority, Stops, Stopped
<1> QED BY <1>1, <1>2, <1>3

\* parsePriority depends on the datagram alone where that has a byte to stop at,
\* and then does not slice behind it.
LEMMA PriorityAlone ==
    ASSUME NEW b, NEW c, NEW n \in Nat, \A i \in 1..n : b[i] = c[i], NEW f,
           n < 3 \/ b[1] # "<" \/ n >= 5 \/ \E i \in 2..5 : i <= n /\ b[i] \notin Digit
    PROVE  /\ ParsePriority(b, n, f) = ParsePriority(c, n, f)
           /\ NotFound(ParsePriority(b, n, f), f) \/ Found(ParsePriority(b, n, f), f, FALSE)
<1>1. CASE n < 3
  <2>1. NotFound(ParsePriority(b, n, f), f) /\ NotFound(ParsePriority(c, n, f), f)
    BY <1>1, NoPriority
  <2> QED BY <2>1 DEF NotFound
<1>2. CASE n >= 3 /\ b[1] # "<"
  <2>1. c[1] # "<"
    BY <1>2
  <2>2. NotFound(ParsePriority(b, n, f), f) /\ NotFound(ParsePriority(c, n, f), f)
    BY <1>2, <2>1, NoPriority
  <2> QED BY <2>2 DEF NotFound
<1>3. CASE n >= 3 /\ b[1] = "<" /\ \A i \in 2..5 : i <= n => b[i] \in Digit
  <2>1. n >= 5
    BY <1>3
  <2>2. Stops(b) = {} /\ Stops(c) = {}
    BY <1>3, <2>1 DEF Stops
  <2>3. NotFound(ParsePriority(b, n, f), f) /\ NotFound(ParsePriority(c, n, f), f)
    BY <2>2, NoPriority
  <2> QED BY <2>3 DEF NotFound
<1>4. CASE n >= 3 /\ b[1] = "<" /\ \E i \in 2..5 : i <= n /\ b[i] \notin Digit
  <2>1. PICK i \in Stops(b) : i <= n
    BY <1>4 DEF Stops
  <2>2. PICK end \in 2..5 : Least(Stops(b), end)
    BY <2>1, LeastStop
  <2>3. end <= n
    BY <2>1, <2>2 DEF Least, Stops
  <2>4. \A k \in 2..end : b[k] = c[k]
    BY <2>3
  <2>5. Least(Stops(c), end)
    <3>1. end \in Stops(c)
      BY <2>2, <2>4 DEF Least, Stops
    <3>2. ASSUME NEW y \in Stops(c), y < end PROVE FALSE
      BY <2>2, <2>4, <3>2 DEF Least, Stops
    <3>3. Stops(c) \subseteq Nat
      BY DEF Stops
    <3> QED BY <3>1, <3>2, <3>3 DEF Least
  <2>6. c[1] = "<"
    BY <1>4
  <2>7. /\ ParsePriority(b, n, f) = Stopped(b, n, f, end)
        /\ ParsePriority(c, n, f) = Stopped(c, n, f, end)
    BY <1>4, <2>2, <2>5, <2>6, PriorityStops
  <2>8. /\ SubSeq(b, end + 1, n) = SubSeq(c, end + 1, n)
        /\ SubSeq(b, 2, end - 1) = SubSeq(c, 2, end - 1)
    <3>1. /\ end + 1 \in Int /\ end - 1 \in Int /\ n \in Int
          /\ \A k \in (end + 1)..n : b[k] = c[k]
          /\ \A k \in 2..(end - 1) : b[k] = c[k]
      BY <2>3, <2>4
    <3> QED BY <3>1, SameSlice
  <2>9. b[end] = c[end] /\ (end > n) = FALSE
    BY <2>3, <2>4
  <2>10. Stopped(b, n, f, end) = Stopped(c, n, f, end)
    BY <2>8, <2>9 DEF Stopped
  <2>11. NotFound(Stopped(b, n, f, end), f) \/ Found(Stopped(b, n, f, end), f, FALSE)
    BY <2>9, StoppedIs
  <2> QED BY <2>7, <2>10, <2>11
<1>5. n < 3 \/ n >= 3
  OBVIOUS
<1> QED BY <1>1, <1>2, <1>3, <1>4, <1>5, Zenon

\* A datagram that ends within its priority: a fresh message finds no priority,
\* a used one finds none either or panics.
LEMMA PriorityUndecided ==
    ASSUME NEW b, NEW n \in 3..4, NEW f, b[1] = "<", \A i \in 2..n : b[i] \in Digit
    PROVE  /\ b[n + 1] = "nul" => NotFound(ParsePriority(b, n, f), f)
           /\ NotFound(ParsePriority(b, n, f), f) \/ Found(ParsePriority(b, n, f), f, TRUE)
<1>1. CASE Stops(b) = {}
  BY <1>1, NoPriority
<1>2. CASE Stops(b) # {}
  <2>1. PICK end \in 2..5 : Least(Stops(b), end)
    BY <1>2, LeastStop
  <2>2. end > n /\ (end > n) = TRUE
    BY <2>1 DEF Least, Stops
  <2>3. ParsePriority(b, n, f) = Stopped(b, n, f, end)
    BY <2>1, PriorityStops
  <2>4. /\ NotFound(Stopped(b, n, f, end), f) \/ Found(Stopped(b, n, f, end), f, TRUE)
        /\ b[end] # ">" => NotFound(Stopped(b, n, f, end), f)
    BY <2>2, StoppedIs
  <2>5. b[n + 1] = "nul" => b[end] # ">"
    <3> SUFFICES ASSUME b[n + 1] = "nul" PROVE b[end] # ">"
      OBVIOUS
    <3>1. "nul" \notin Digit
      BY DEF Digit, DigitValue
    <3>2. n + 1 \in Stops(b)
      BY <3>1 DEF Stops
    <3>3. end = n + 1
      BY <2>1, <2>2, <3>2 DEF Least
    <3> QED BY <3>3
  <2> QED BY <2>3, <2>4, <2>5
<1> QED BY <1>1, <1>2

-----------------------------------------------------------------------------
(* The rest of the parser neither looks at the buffer nor panics, and makes *)
(* slices of what it has.                                                  *)

Field == {"ok", "panic", "priority", "hostname", "app", "procid", "msgid", "msg"}

\* A slice of the buffer, and a field that may be nil.
Sized(s) == Len(s) \in Nat /\ Len(s) <= BufLen
NilOrSized(s) == s = Nil \/ Sized(s)

\* The fields once a priority was found.
Good(f) ==
    /\ f.priority \in 0..255 /\ Sized(f.msg)
    /\ NilOrSized(f.hostname) /\ NilOrSized(f.app) /\ NilOrSized(f.procid) /\ NilOrSized(f.msgid)

\* A function of the parser changes other fields than panic, and keeps them good.
Keeps(g, f) == DOMAIN g = Field /\ g.panic = f.panic /\ (Good(f) => Good(g))

\* A slice of a slice.
LEMMA SizedSlice ==
    ASSUME NEW s, Sized(s), NEW i \in Nat \ {0}, NEW j \in Int, j <= Len(s)
    PROVE  Sized(SubSeq(s, i, j))
<1> DEFINE l == Len(s)
           k == Len(SubSeq(s, i, j))
<1>1. l \in Nat /\ l <= BufLen /\ j <= l
  BY DEF Sized
<1>2. k = IF i <= j THEN j - i + 1 ELSE 0
  BY SliceLen
<1> HIDE DEF l, k
<1>3. k \in Nat /\ k <= BufLen
  BY <1>1, <1>2, BufLenAssumption
<1> QED BY <1>3 DEF k, Sized

\* The rest of a slice.
LEMMA SizedFrom ==
    ASSUME NEW s, Sized(s), NEW i \in Nat \ {0}
    PROVE  Sized(From(s, i))
<1>1. Len(s) \in Int /\ Len(s) <= Len(s)
  BY DEF Sized
<1> QED BY <1>1, SizedSlice DEF From

\* A slice without a prefix.
LEMMA SizedTrim ==
    ASSUME NEW s, Sized(s), NEW p, Len(p) \in Nat
    PROVE  Sized(TrimPrefix(s, p))
<1>1. Len(p) + 1 \in Nat \ {0}
  OBVIOUS
<1> QED BY <1>1, SizedFrom DEF TrimPrefix

\* The parts before and after the first space.
LEMMA SizedParts ==
    ASSUME NEW s, Sized(s)
    PROVE  /\ Space(s) \in 1..(Len(s) + 1)
           /\ Sized(Before(s)) /\ Sized(After(s))
<1> DEFINE l == Len(s)
           S == {i \in 1..l : s[i] = " "} \cup {l + 1}
<1>1. l \in Nat
  BY DEF Sized
<1>2. Space(s) = Min(S)
  BY DEF Space
<1>3. S \in SUBSET Nat /\ S # {} /\ \A i \in S : i \in 1..(l + 1)
  <2> HIDE DEF l
  <2>1. l + 1 \in Nat /\ l + 1 \in 1..(l + 1)
    BY <1>1
  <2>2. \A i \in 1..l : i \in Nat /\ i \in 1..(l + 1)
    BY <1>1
  <2>3. \A i \in S : i \in Nat /\ i \in 1..(l + 1)
    BY <2>1, <2>2
  <2>4. l + 1 \in S
    OBVIOUS
  <2> QED BY <2>3, <2>4
<1>4. Min(S) \in S
  <2> HIDE DEF S
  <2> QED BY <1>3, LeastIs DEF Least
<1>5. Space(s) \in 1..(l + 1)
  BY <1>2, <1>3, <1>4
<1>6. Space(s) - 1 \in Int /\ Space(s) - 1 <= l /\ Space(s) + 1 \in Nat \ {0}
  <2> HIDE DEF l
  <2> QED BY <1>1, <1>5
<1>7. Sized(Before(s)) /\ Sized(After(s))
  BY <1>6, SizedSlice, SizedFrom DEF Before, After
<1> QED BY <1>5, <1>7

\* Each of the parser's functions keeps the fields in order.
LEMMA VersionKeeps ==
    ASSUME NEW f, DOMAIN f = Field
    PROVE  Keeps(ParseVersion(f), f)
<1>1. Sized(f.msg) => Sized(From(f.msg, 3))
  BY SizedFrom
<1> QED BY <1>1 DEF Keeps, Good, Field, ParseVersion

\* parseHeader: its parts are slices of the text.
LEMMA HeaderKeeps ==
    ASSUME NEW f, DOMAIN f = Field
    PROVE  Keeps(ParseHeader(f), f)
<1> DEFINE r1 == After(f.msg)
           r2 == After(r1)
           r3 == After(r2)
           r4 == After(r3)
           found == [f EXCEPT !.ok = TRUE,
                       !.hostname = IgnoreNil(Before(r1)), !.app = IgnoreNil(Before(r2)),
                       !.procid = IgnoreNil(Before(r3)), !.msgid = IgnoreNil(Before(r4)),
                       !.msg = After(r4)]
<1>1. ParseHeader(f) = found \/ ParseHeader(f) = [f EXCEPT !.ok = FALSE]
  BY DEF ParseHeader
<1>2. Keeps([f EXCEPT !.ok = FALSE], f)
  BY DEF Keeps, Good, Field
<1>3. ASSUME Sized(f.msg)
      PROVE  /\ Sized(Before(r1)) /\ Sized(Before(r2)) /\ Sized(Before(r3)) /\ Sized(Before(r4))
             /\ Sized(After(r4))
  <2>1. Sized(r1)
    BY <1>3, SizedParts
  <2> HIDE DEF r1
  <2>2. Sized(r2) /\ Sized(Before(r1))
    BY <2>1, SizedParts
  <2> HIDE DEF r2
  <2>3. Sized(r3) /\ Sized(Before(r2))
    BY <2>2, SizedParts
  <2> HIDE DEF r3
  <2>4. Sized(r4) /\ Sized(Before(r3))
    BY <2>3, SizedParts
  <2> HIDE DEF r4
  <2> QED BY <2>2, <2>3, <2>4, SizedParts
<1>4. \A s : Sized(s) => NilOrSized(IgnoreNil(s))
  BY DEF NilOrSized, IgnoreNil
<1> HIDE DEF r1, r2, r3, r4
<1>5. Keeps(found, f)
  <2>1. /\ DOMAIN found = Field /\ found.panic = f.panic /\ found.priority = f.priority
        /\ found.hostname = IgnoreNil(Before(r1)) /\ found.app = IgnoreNil(Before(r2))
        /\ found.procid = IgnoreNil(Before(r3)) /\ found.msgid = IgnoreNil(Before(r4))
        /\ found.msg = After(r4)
    BY DEF Field
  <2> HIDE DEF found
  <2> QED BY <1>3, <1>4, <2>1 DEF Keeps, Good
<1> QED BY <1>1, <1>2, <1>5

\* parseStructuredData.
LEMMA StructuredDataKeeps ==
    ASSUME NEW f, DOMAIN f = Field
    PROVE  Keeps(ParseStructuredData(f), f)
<1>1. Sized(f.msg) => Sized(From(f.msg, 3))
  BY SizedFrom
<1> QED BY <1>1 DEF Keeps, Good, Field, ParseStructuredData

\* The functions that trim the text.
LEMMA TrimsKeep ==
    ASSUME NEW f, DOMAIN f = Field
    PROVE  /\ Keeps(TrimSeverityPrefix(f), f) /\ Keeps(TrimTimePrefix(f), f)
           /\ Keeps(TrimCarriageReturns(f), f)
<1>1. ASSUME NEW a, NEW b, NEW c, Sized(f.msg)
      PROVE  Sized(TrimPrefix(f.msg, <<a>>)) /\ Sized(TrimPrefix(f.msg, <<a, b, c>>))
  <2>1. Len(<<a>>) \in Nat /\ Len(<<a, b, c>>) \in Nat
    OBVIOUS
  <2> QED BY <1>1, <2>1, SizedTrim
<1>2. ASSUME NEW s, Sized(f.msg) => Sized(s) PROVE Keeps([f EXCEPT !.msg = s], f)
  BY <1>2 DEF Keeps, Good, Field
<1>3. Keeps(TrimSeverityPrefix(f), f)
  BY <1>1, <1>2 DEF TrimSeverityPrefix
<1>4. Keeps(TrimTimePrefix(f), f) /\ Keeps(TrimCarriageReturns(f), f)
  BY <1>1, <1>2 DEF TrimTimePrefix, TrimCarriageReturns
<1> QED BY <1>3, <1>4

\* parseLegacyTag: tag, pid and the rest are slices of the text.
LEMMA TagKeeps ==
    ASSUME NEW f, DOMAIN f = Field
    PROVE  Keeps(ParseLegacyTag(f), f)
<1> DEFINE b == f.msg
           stops == {i \in 1..Len(b) : b[i] \notin TagByte}
           end == Min(stops)
           closing == {i \in (end + 1)..Len(b) : b[i] = "]"}
           pid == IF b[end] # "[" THEN f.procid
                  ELSE IF closing = {} THEN Nil ELSE SubSeq(b, end + 1, Min(closing) - 1)
           rest == IF b[end] = "[" /\ closing # {} THEN From(b, Min(closing) + 1) ELSE From(b, end)
           none == [f EXCEPT !.app = Nil, !.procid = Nil]
           found == [f EXCEPT !.app = SubSeq(b, 1, end - 1), !.procid = pid,
                              !.msg = TrimPrefix(rest, <<":", " ">>)]
<1>1. ParseLegacyTag(f) = IF stops = {} THEN none ELSE found
  BY DEF ParseLegacyTag
<1>2. Keeps(none, f)
  BY DEF Keeps, Good, Field, NilOrSized
<1>3. /\ DOMAIN found = Field /\ found.panic = f.panic /\ found.priority = f.priority
      /\ found.hostname = f.hostname /\ found.app = SubSeq(b, 1, end - 1) /\ found.procid = pid
      /\ found.msgid = f.msgid /\ found.msg = TrimPrefix(rest, <<":", " ">>)
  BY DEF Field
<1>4. ASSUME stops # {}, Sized(b), NilOrSized(f.procid)
      PROVE  Sized(SubSeq(b, 1, end - 1)) /\ NilOrSized(pid) /\ Sized(TrimPrefix(rest, <<":", " ">>))
  <2> DEFINE l == Len(b)
  <2>1. l \in Nat
    BY <1>4 DEF Sized
  <2>2. end \in 1..l
    <3>1. stops \in SUBSET Nat /\ \A i \in stops : i \in 1..l
      BY <2>1
    <3>2. end \in stops
      <4> HIDE DEF stops
      <4> QED BY <1>4, <3>1, LeastIs DEF Least
    <3> QED BY <3>1, <3>2
  <2> HIDE DEF stops, end
  <2>3. closing # {} => Min(closing) \in (end + 1)..l
    <3>1. closing \in SUBSET Nat /\ \A i \in closing : i \in (end + 1)..l
      BY <2>1, <2>2
    <3> HIDE DEF closing
    <3>2. closing # {} => Min(closing) \in closing
      BY <3>1, LeastIs DEF Least
    <3> QED BY <3>1, <3>2
  <2> DEFINE close == Min(closing)
  <2> HIDE DEF closing
  <2>4. Sized(SubSeq(b, 1, end - 1)) /\ Sized(From(b, end))
    <3>1. end - 1 \in Int /\ end - 1 <= l /\ end \in Nat \ {0}
      <4> HIDE DEF l
      <4> QED BY <2>1, <2>2
    <3> QED BY <1>4, <3>1, SizedSlice, SizedFrom
  <2>5. ASSUME closing # {} PROVE Sized(SubSeq(b, end + 1, close - 1)) /\ Sized(From(b, close + 1))
    <3>1. close \in (end + 1)..l
      BY <2>3, <2>5
    <3> HIDE DEF close
    <3>2. /\ end + 1 \in Nat \ {0} /\ close - 1 \in Int /\ close - 1 <= l
          /\ close + 1 \in Nat \ {0}
      <4> HIDE DEF l
      <4> QED BY <2>1, <2>2, <3>1
    <3> QED BY <1>4, <3>2, SizedSlice, SizedFrom
  <2>6. NilOrSized(pid)
    BY <1>4, <2>5 DEF NilOrSized
  <2>7. Sized(rest)
    BY <2>4, <2>5
  <2>8. Len(<<":", " ">>) \in Nat
    OBVIOUS
  <2> HIDE DEF rest
  <2> QED BY <2>4, <2>6, <2>7, <2>8, SizedTrim
<1> HIDE DEF pid, rest, stops, end, found, none
<1>5. stops # {} => Keeps(found, f)
  BY <1>3, <1>4 DEF Keeps, Good, NilOrSized
<1> QED BY <1>1, <1>2, <1>5

\* All of them.
LEMMA PartsKeep ==
    ASSUME NEW f, DOMAIN f = Field
    PROVE  /\ Keeps(ParseVersion(f), f) /\ Keeps(ParseHeader(f), f)
           /\ Keeps(ParseStructuredData(f), f) /\ Keeps(ParseLegacyTag(f), f)
           /\ Keeps(TrimSeverityPrefix(f), f) /\ Keeps(TrimTimePrefix(f), f)
           /\ Keeps(TrimCarriageReturns(f), f)
BY VersionKeeps, HeaderKeeps, StructuredDataKeeps, TagKeeps, TrimsKeep

\* parseLegacyHeader, one after the other.
LEMMA LegacyKeeps ==
    ASSUME NEW f, DOMAIN f = Field
    PROVE  Keeps(ParseLegacyHeader(f), f)
<1> DEFINE stamped == [f EXCEPT !.ok = TRUE, !.hostname = Nil, !.msg = TrimPrefix(@, <<"T", " ">>)]
           tagged == ParseLegacyTag(stamped)
           severe == TrimSeverityPrefix(tagged)
           timed == TrimTimePrefix(severe)
<1>1. Keeps(stamped, f)
  <2>1. Len(<<"T", " ">>) \in Nat
    OBVIOUS
  <2>2. Sized(f.msg) => Sized(TrimPrefix(f.msg, <<"T", " ">>))
    BY <2>1, SizedTrim
  <2> QED BY <2>2 DEF Keeps, Good, Field, NilOrSized
<1>2. ParseLegacyHeader(f) = TrimCarriageReturns(timed)
  BY DEF ParseLegacyHeader
<1> HIDE DEF stamped
<1>3. Keeps(tagged, stamped)
  BY <1>1, PartsKeep DEF Keeps
<1> HIDE DEF tagged
<1>4. Keeps(severe, tagged)
  BY <1>3, PartsKeep DEF Keeps
<1> HIDE DEF severe
<1>5. Keeps(timed, severe)
  BY <1>4, PartsKeep DEF Keeps
<1> HIDE DEF timed
<1>6. Keeps(TrimCarriageReturns(timed), timed)
  BY <1>5, PartsKeep DEF Keeps
<1> QED BY <1>1, <1>2, <1>3, <1>4, <1>5, <1>6 DEF Keeps

\* What parse makes of what parsePriority found.
Rest(pri) ==
    LET version == ParseVersion(pri)
        header == ParseHeader(version)
    IN  IF ~pri.ok \/ pri.panic THEN pri
        ELSE IF ~version.ok THEN ParseLegacyHeader(pri)
        ELSE IF ~header.ok THEN header
        ELSE ParseStructuredData(header)

\* parse is parsePriority and the rest.
LEMMA ParseIs ==
    ASSUME NEW b, NEW n, NEW f
    PROVE  Parse(b, n, f) = Rest(ParsePriority(b, n, f))
BY DEF Parse, Rest

\* The rest of parse does not set panic and keeps the fields in order.
LEMMA RestKeeps ==
    ASSUME NEW pri, DOMAIN pri = Field
    PROVE  Keeps(Rest(pri), pri)
<1> DEFINE version == ParseVersion(pri)
           header == ParseHeader(version)
<1>1. Keeps(version, pri)
  BY PartsKeep
<1>2. Rest(pri) = IF ~pri.ok \/ pri.panic THEN pri
                  ELSE IF ~version.ok THEN ParseLegacyHeader(pri)
                  ELSE IF ~header.ok THEN header
                  ELSE ParseStructuredData(header)
  BY DEF Rest
<1> HIDE DEF version
<1>3. Keeps(header, version)
  BY <1>1, PartsKeep DEF Keeps
<1> HIDE DEF header
<1>4. Keeps(ParseStructuredData(header), header)
  BY <1>3, PartsKeep DEF Keeps
<1>5. Keeps(ParseLegacyHeader(pri), pri)
  BY LegacyKeeps
<1> QED BY <1>1, <1>2, <1>3, <1>4, <1>5 DEF Keeps

\* A priority that is found leaves a slice and a byte.
LEMMA PriorityGood ==
    ASSUME NEW b, NEW n \in Nat, n <= BufLen
    PROVE  \/ NotFound(ParsePriority(b, n, Blank), Blank)
           \/ DOMAIN ParsePriority(b, n, Blank) = Field /\ Good(ParsePriority(b, n, Blank))
<1> DEFINE r == ParsePriority(b, n, Blank)
<1>1. CASE n < 3 \/ b[1] # "<" \/ Stops(b) = {}
  BY <1>1, NoPriority
<1>2. CASE n >= 3 /\ b[1] = "<" /\ Stops(b) # {}
  <2>1. PICK end \in 2..5 : Least(Stops(b), end)
    BY <1>2, LeastStop
  <2>2. r = Stopped(b, n, Blank, end)
    BY <1>2, <2>1, PriorityStops
  <2>3. CASE b[end] # ">"
    BY <2>2, <2>3, StoppedIs
  <2>4. CASE b[end] = ">"
    <3> DEFINE msg == SubSeq(b, end + 1, n)
               digits == SubSeq(b, 2, end - 1)
               pri == Priority(digits)
    <3>1. r = [Blank EXCEPT !.ok = TRUE, !.panic = end > n, !.msg = msg, !.priority = pri]
      BY <2>2, <2>4 DEF Stopped
    <3>2. Sized(msg)
      <4> DEFINE l == Len(msg)
      <4>1. l = IF end + 1 <= n THEN n - (end + 1) + 1 ELSE 0
        BY SliceLen
      <4> HIDE DEF l
      <4>2. l \in Nat /\ l <= BufLen
        BY <4>1, BufLenAssumption
      <4> QED BY <4>2 DEF l, Sized
    <3>3. \A i \in 2..(end - 1) : b[i] \in Digit
      BY <2>1 DEF Least, Stops
    <3>4. pri \in 0..255
      <4> DEFINE l == Len(digits)
      <4>1. /\ l = IF 2 <= end - 1 THEN (end - 1) - 2 + 1 ELSE 0
            /\ \A k \in 1..((end - 1) - 2 + 1) : digits[k] = b[2 + k - 1]
        <5>1. end - 1 \in Int /\ 2 \in Int
          OBVIOUS
        <5> QED BY <5>1, SliceLen
      <4> HIDE DEF l, digits
      <4>2. l \in 0..3
        BY <4>1
      <4>3. ASSUME NEW k \in 1..l PROVE digits[k] \in Digit
        <5>1. k \in 1..((end - 1) - 2 + 1) /\ 2 + k - 1 \in 2..(end - 1)
          BY <4>1
        <5> QED BY <3>3, <4>1, <5>1
      <4> QED BY <4>2, <4>3, PriorityType DEF l
    <3> HIDE DEF msg, pri
    <3> QED BY <3>1, <3>2, <3>4, ZenonT(60) DEF Blank, Field, Good, NilOrSized
  <2> QED BY <2>3, <2>4
<1>3. n < 3 \/ n >= 3
  OBVIOUS
<1> QED BY <1>1, <1>2, <1>3, Zenon

\* The fields of a message in every stage.
Typed(f) ==
    /\ f.priority \in 0..255 /\ NilOrSized(f.msg)
    /\ NilOrSized(f.hostname) /\ NilOrSized(f.app) /\ NilOrSized(f.procid) /\ NilOrSized(f.msgid)

\* parse leaves a byte and slices within the buffer.
LEMMA ParseTyped ==
    ASSUME NEW b, NEW n \in Nat, n <= BufLen
    PROVE  Typed(Parse(b, n, Blank))
<1> DEFINE r == ParsePriority(b, n, Blank)
<1>1. Parse(b, n, Blank) = Rest(r)
  BY ParseIs
<1>2. CASE NotFound(r, Blank)
  <2>1. ~r.ok /\ Typed(r)
    BY <1>2 DEF NotFound, Blank, Typed, NilOrSized
  <2>2. Rest(r) = r
    BY <2>1 DEF Rest
  <2> QED BY <1>1, <2>1, <2>2
<1>3. CASE DOMAIN r = Field /\ Good(r)
  <2>1. Good(Rest(r))
    BY <1>3, RestKeeps DEF Keeps
  <2> QED BY <1>1, <2>1 DEF Good, Typed, NilOrSized
<1> QED BY <1>2, <1>3, PriorityGood

-----------------------------------------------------------------------------
(* Printed messages. *)

\* The formats, as functions of the text.
RFC5424With(x, t) ==
    <<"1", " ">> \o Word(<<"t">>, Word(x.hostname, Word(x.app, Word(x.procid, Word(x.msgid,
        <<"-", " ">> \o t)))))
TextWith(x, t) == (IF x.prefix THEN SeverityPrefix(x) \o <<"D">> ELSE <<>>) \o t
LegacyWith(x, t) ==
    (IF x.stamp THEN <<"T", " ">> ELSE <<>>)
      \o (x.app \o (Pid(x) \o (<<":", " ">> \o TextWith(x, t))))
BodyWith(x, t) == IF x.format = "rfc5424" THEN RFC5424With(x, t) ELSE LegacyWith(x, t)

\* What is assumed of a message.
LEMMA FormattedIs ==
    ASSUME NEW x \in Formatted
    PROVE  /\ x.pri \in 0..999 /\ x.text \in Str
           /\ Len(PrintMessage(x)) - Len(x.text) <= BufLen
           /\ IsRFC5424(x) \/ IsLegacy(x)
           /\ PrintMessage(x) = Pri(x.pri, BodyWith(x, x.text))
<1>1. PrintMessage(x) = Pri(x.pri, BodyWith(x, x.text))
  BY DEF PrintMessage, BodyWith, PrintRFC5424, RFC5424With, PrintLegacy, LegacyWith, Text, TextWith
<1>2. Printable(x)
  BY FormattedAssumption
<1>3. /\ x.pri \in 0..999 /\ x.text \in Str /\ Len(PrintMessage(x)) - Len(x.text) <= BufLen
      /\ IsRFC5424(x) \/ IsLegacy(x)
  BY <1>2 DEF Printable, Str
<1> QED BY <1>1, <1>3

\* The empty string is neutral.
LEMMA CatEmpty ==
    /\ <<>> \in Str /\ Len(<<>>) = 0
    /\ \A s \in Str : <<>> \o s = s /\ s \o <<>> = s
BY ConcatEmptySeq, EmptySeq DEF Str

\* Concatenation is associative.
LEMMA CatCat ==
    ASSUME NEW s \in Str, NEW t \in Str, NEW u \in Str
    PROVE  s \o (t \o u) = (s \o t) \o u
BY ConcatAssociative, SMTT(30) DEF Str

\* f is h with t behind it.  What ends a part of a message ends the whole.
Tails(f, h, t) == h \in Str /\ f = h \o t

\* Something in front.
LEMMA TailOf ==
    ASSUME NEW s \in Str, NEW t \in Str, NEW f, NEW h, Tails(f, h, t)
    PROVE  Tails(s \o f, s \o h, t)
<1>1. h \in Str /\ f = h \o t
  BY DEF Tails
<1>2. s \o h \in Str
  BY <1>1, CatIs
<1>3. s \o (h \o t) = (s \o h) \o t
  BY <1>1, CatCat
<1> QED BY <1>1, <1>2, <1>3, Zenon DEF Tails

\* A field of the header in front.
LEMMA TailOfWord ==
    ASSUME NEW s \in Str, NEW t \in Str, NEW f, NEW h, Tails(f, h, t)
    PROVE  Tails(Word(s, f), Word(s, h), t)
<1> DEFINE w == IF s = <<>> THEN <<"-">> ELSE s
           sp == <<" ">>
<1>1. w \in Str /\ sp \in Str
  BY Bytes, OneByte
<1>2. Word(s, f) = w \o (sp \o f) /\ Word(s, h) = w \o (sp \o h)
  BY DEF Word
<1> HIDE DEF w, sp
<1>3. Tails(sp \o f, sp \o h, t)
  BY <1>1, TailOf, Zenon
<1>4. Tails(w \o (sp \o f), w \o (sp \o h), t)
  BY <1>1, <1>3, TailOf, Zenon
<1> QED BY <1>2, <1>4, Zenon

\* The priority in front.
LEMMA TailOfPri ==
    ASSUME NEW n \in 0..999, NEW t \in Str, NEW f, NEW h, Tails(f, h, t)
    PROVE  Tails(Pri(n, f), Pri(n, h), t)
<1> DEFINE d == Decimal(n)
           lt == <<"<">>
           gt == <<">">>
<1>1. d \in Str
  BY DecimalIs, Bytes, SeqMonotonic, ZenonT(60) DEF Str
<1>2. lt \in Str /\ gt \in Str
  BY Bytes, OneByte, ZenonT(60)
<1>3. Pri(n, f) = lt \o (d \o (gt \o f)) /\ Pri(n, h) = lt \o (d \o (gt \o h))
  BY DEF Pri
<1> HIDE DEF d, lt, gt
<1>4. Tails(gt \o f, gt \o h, t)
  BY <1>2, TailOf, Zenon
<1>5. Tails(d \o (gt \o f), d \o (gt \o h), t)
  BY <1>1, <1>4, TailOf, Zenon
<1>6. Tails(lt \o (d \o (gt \o f)), lt \o (d \o (gt \o h)), t)
  BY <1>2, <1>5, TailOf, ZenonT(60)
<1> QED BY <1>3, <1>6, Zenon

\* The fields of the two formats are strings.
LEMMA SubStr ==
    ASSUME NEW S \in SUBSET Byte, NEW s \in Seq(S)
    PROVE  s \in Str
BY SeqMonotonic DEF Str

\* The parts of a message of RFC 5424.
LEMMA RFC5424Parts ==
    ASSUME NEW x, IsRFC5424(x)
    PROVE  /\ x.hostname \in Str /\ x.app \in Str /\ x.procid \in Str /\ x.msgid \in Str
           /\ <<"t">> \in Str /\ <<"1", " ">> \in Str /\ <<"-", " ">> \in Str
<1>1. Byte \ {" "} \in SUBSET Byte
  OBVIOUS
<1>2. /\ x.hostname \in Seq(Byte \ {" "}) /\ x.app \in Seq(Byte \ {" "})
      /\ x.procid \in Seq(Byte \ {" "}) /\ x.msgid \in Seq(Byte \ {" "})
  BY DEF IsRFC5424, RFC5424Fields
<1>3. x.hostname \in Str /\ x.app \in Str /\ x.procid \in Str /\ x.msgid \in Str
  BY <1>1, <1>2, SubStr
<1>4. <<"t">> \in Str /\ <<"1", " ">> \in Str /\ <<"-", " ">> \in Str
  <2>1. "t" \in Byte /\ "1" \in Byte /\ "-" \in Byte /\ " " \in Byte
    BY Bytes
  <2> QED BY <2>1, OneByte, TwoBytes, Zenon
<1> QED BY <1>3, <1>4

\* The parts of a legacy message.
LEMMA LegacyParts ==
    ASSUME NEW x, IsLegacy(x)
    PROVE  /\ x.app \in Str /\ x.procid \in Str /\ Pid(x) \in Str
           /\ <<"T", " ">> \in Str /\ <<":", " ">> \in Str /\ <<"D">> \in Str /\ <<"CR">> \in Str
           /\ <<"[">> \in Str /\ <<"]">> \in Str
<1>1. /\ <<"T", " ">> \in Str /\ <<":", " ">> \in Str /\ <<"D">> \in Str /\ <<"CR">> \in Str
      /\ <<"[">> \in Str /\ <<"]">> \in Str
  <2>1. /\ "T" \in Byte /\ ":" \in Byte /\ "D" \in Byte /\ "CR" \in Byte /\ "[" \in Byte
        /\ "]" \in Byte /\ " " \in Byte
    BY Bytes
  <2> QED BY <2>1, OneByte, TwoBytes, Zenon
<1>2. x.app \in Str /\ x.procid \in Str
  <2>1. Byte \ {"]"} \in SUBSET Byte /\ TagByte \in SUBSET Byte
    BY Bytes
  <2> QED BY <2>1, SubStr DEF IsLegacy
<1>3. Pid(x) \in Str
  <2> DEFINE open == <<"[">>
             close == <<"]">>
  <2>1. Pid(x) = IF x.procid = <<>> THEN <<>> ELSE open \o (x.procid \o close)
    BY DEF Pid
  <2>2. open \in Str /\ close \in Str
    BY <1>1
  <2> HIDE DEF open, close
  <2>3. x.procid \o close \in Str
    BY <1>2, <2>2, CatIs
  <2>4. open \o (x.procid \o close) \in Str
    BY <2>2, <2>3, CatIs
  <2> QED BY <2>1, <2>4, CatEmpty
<1> QED BY <1>1, <1>2, <1>3

\* The severity in front of a legacy text.
LEMMA SeverityPrefixIs ==
    ASSUME NEW x, x.pri \in 0..999
    PROVE  SeverityPrefix(x) \in Str /\ SeverityPrefix(x) \o <<"D">> \in Str
<1>1. (x.pri % 8) + 1 \in 1..8
  OBVIOUS
<1> DEFINE name == SeverityName[(x.pri % 8) + 1]
<1>2. name \in Byte /\ ":" \in Byte /\ " " \in Byte
  BY <1>1, Bytes
<1>3. SeverityPrefix(x) = <<name, ":", " ">>
  BY DEF SeverityPrefix
<1> HIDE DEF name
<1>4. <<name, ":", " ">> \in Str
  BY <1>2, ThreeBytes
<1>5. SeverityPrefix(x) \in Str
  BY <1>3, <1>4
<1>6. <<"D">> \in Str
  BY Bytes, OneByte
<1> QED BY <1>5, <1>6, CatIs, Zenon

\* The text is at the end.
LEMMA TailOfRFC5424 ==
    ASSUME NEW x, IsRFC5424(x), NEW t \in Str
    PROVE  Tails(RFC5424With(x, t), RFC5424With(x, <<>>), t)
<1> DEFINE time == <<"t">>
           one == <<"1", " ">>
           dash == <<"-", " ">>
           r2(u) == Word(x.msgid, dash \o u)
           r3(u) == Word(x.procid, r2(u))
           r4(u) == Word(x.app, r3(u))
           r5(u) == Word(x.hostname, r4(u))
           r6(u) == Word(time, r5(u))
           e == <<>>
<1>1. /\ x.hostname \in Str /\ x.app \in Str /\ x.procid \in Str /\ x.msgid \in Str
      /\ time \in Str /\ one \in Str /\ dash \in Str
  BY RFC5424Parts
<1>2. RFC5424With(x, t) = one \o r6(t) /\ RFC5424With(x, e) = one \o r6(e)
  BY DEF RFC5424With
<1>3. Tails(t, e, t)
  BY CatEmpty, Zenon DEF Tails
<1> HIDE DEF time, one, dash, e
<1>4. Tails(dash \o t, dash \o e, t)
  BY <1>1, <1>3, TailOf, Zenon
<1>5. Tails(r2(t), r2(e), t)
  BY <1>1, <1>4, TailOfWord, Zenon
<1> HIDE DEF r2
<1>6. Tails(r3(t), r3(e), t)
  BY <1>1, <1>5, TailOfWord, Zenon
<1> HIDE DEF r3
<1>7. Tails(r4(t), r4(e), t)
  BY <1>1, <1>6, TailOfWord, Zenon
<1> HIDE DEF r4
<1>8. Tails(r5(t), r5(e), t)
  BY <1>1, <1>7, TailOfWord, Zenon
<1> HIDE DEF r5
<1>9. Tails(r6(t), r6(e), t)
  BY <1>1, <1>8, TailOfWord, Zenon
<1> HIDE DEF r6
<1>10. Tails(one \o r6(t), one \o r6(e), t)
  BY <1>1, <1>9, TailOf, Zenon
<1> QED BY <1>2, <1>10, Zenon DEF e

\* So it is in a legacy message.
LEMMA TailOfLegacy ==
    ASSUME NEW x, x.pri \in 0..999, IsLegacy(x), NEW t \in Str
    PROVE  Tails(LegacyWith(x, t), LegacyWith(x, <<>>), t)
<1> DEFINE p == IF x.prefix THEN SeverityPrefix(x) \o <<"D">> ELSE <<>>
           stamp == IF x.stamp THEN <<"T", " ">> ELSE <<>>
           colon == <<":", " ">>
           r2(u) == colon \o (p \o u)
           r3(u) == Pid(x) \o r2(u)
           r4(u) == x.app \o r3(u)
           e == <<>>
<1>1. /\ p \in Str /\ stamp \in Str /\ x.app \in Str /\ Pid(x) \in Str /\ colon \in Str
  BY LegacyParts, SeverityPrefixIs, CatEmpty, Zenon
<1>2. LegacyWith(x, t) = stamp \o r4(t) /\ LegacyWith(x, e) = stamp \o r4(e)
  BY DEF LegacyWith, TextWith
<1>3. Tails(t, e, t)
  BY CatEmpty, Zenon DEF Tails
<1> HIDE DEF p, stamp, colon, e
<1>4. Tails(p \o t, p \o e, t)
  BY <1>1, <1>3, TailOf, ZenonT(60)
<1>5. Tails(r2(t), r2(e), t)
  BY <1>1, <1>4, TailOf, Zenon
<1> HIDE DEF r2
<1>6. Tails(r3(t), r3(e), t)
  BY <1>1, <1>5, TailOf, Zenon
<1> HIDE DEF r3
<1>7. Tails(r4(t), r4(e), t)
  BY <1>1, <1>6, TailOf, Zenon
<1> HIDE DEF r4
<1>8. Tails(stamp \o r4(t), stamp \o r4(e), t)
  BY <1>1, <1>7, TailOf, Zenon
<1> QED BY <1>2, <1>8, ZenonT(60) DEF e

\* A printed message is a head, which does not depend on the text, and the text.
HeadOf(x) == Pri(x.pri, BodyWith(x, <<>>))

\* Every message is its head with the text behind it.
LEMMA PrintedIs ==
    ASSUME NEW x \in Formatted, NEW t \in Str
    PROVE  /\ BodyWith(x, t) \in Str /\ Pri(x.pri, BodyWith(x, t)) \in Str
           /\ HeadOf(x) \in Str /\ Pri(x.pri, BodyWith(x, t)) = HeadOf(x) \o t
<1> DEFINE b == BodyWith(x, t)
           h == BodyWith(x, <<>>)
<1>1. Tails(b, h, t)
  <2>1. CASE IsRFC5424(x)
    <3>1. b = RFC5424With(x, t) /\ h = RFC5424With(x, <<>>)
      BY <2>1 DEF BodyWith, IsRFC5424
    <3> QED BY <2>1, <3>1, TailOfRFC5424, Zenon
  <2>2. CASE IsLegacy(x)
    <3>1. b = LegacyWith(x, t) /\ h = LegacyWith(x, <<>>)
      BY <2>2 DEF BodyWith, IsLegacy
    <3>2. x.pri \in 0..999
      BY FormattedIs
    <3> QED BY <2>2, <3>1, <3>2, TailOfLegacy, Zenon
  <2> QED BY <2>1, <2>2, FormattedIs
<1> HIDE DEF b, h
<1>2. x.pri \in 0..999
  BY FormattedIs
<1>3. Tails(Pri(x.pri, b), Pri(x.pri, h), t)
  BY <1>1, <1>2, TailOfPri, ZenonT(60)
<1>4. b \in Str /\ Pri(x.pri, b) \in Str
  <2>1. ASSUME NEW f, NEW g, Tails(f, g, t) PROVE f \in Str
    <3>1. g \o t \in Str
      BY <2>1, CatIs DEF Tails
    <3> QED BY <2>1, <3>1, Zenon DEF Tails
  <2> QED BY <1>1, <1>3, <2>1, Zenon
<1>5. HeadOf(x) = Pri(x.pri, h)
  BY DEF HeadOf, h
<1> QED BY <1>3, <1>4, <1>5, Zenon DEF Tails, b

\* All datagrams are strings of bytes.
LEMMA DatagramsAreStrings == Datagrams \subseteq Str
<1>1. \A x \in Formatted : PrintMessage(x) \in Str
  BY FormattedIs, PrintedIs
<1> QED BY <1>1, OthersAssumption DEF Datagrams, Str

-----------------------------------------------------------------------------
(* The entry. *)

\* A log entry depends on the datagram's bytes and the fields.
LEMMA EntryAlone ==
    ASSUME NEW b, NEW c, NEW n \in Nat, \A i \in 1..n : b[i] = c[i], NEW f
    PROVE  EntryOf(b, n, f) = EntryOf(c, n, f)
<1>1. SubSeq(b, 1, n) = SubSeq(c, 1, n)
  BY SameSlice
<1> QED BY <1>1 DEF EntryOf, AsString

\* A datagram fills as much of a buffer as there is of both.
LEMMA KeptIs ==
    ASSUME NEW d \in Datagrams
    PROVE  /\ Len(d) \in Nat /\ Kept(d) \in Nat /\ Kept(d) <= BufLen
           /\ Len(d) < 5 => Kept(d) = Len(d)
           /\ Len(d) \in 3..4 => Kept(d) = Len(d) /\ Kept(d) + 1 \in 1..BufLen
           /\ Len(d) >= 5 => Kept(d) >= 5
           /\ \A i \in 1..Kept(d) : i <= BufLen /\ i <= Len(d)
<1>1. Len(d) \in Nat
  BY DatagramsAreStrings, LenProperties DEF Str
<1>2. Kept(d) = IF Len(d) > BufLen THEN BufLen ELSE Len(d)
  BY DEF Kept
<1> DEFINE len == Len(d)
           kept == Kept(d)
<1>3. len \in Nat /\ kept = IF len > BufLen THEN BufLen ELSE len
  BY <1>1, <1>2
<1> HIDE DEF len, kept
<1>4. /\ kept \in Nat /\ kept <= BufLen /\ (len < 5 => kept = len) /\ (len >= 5 => kept >= 5)
      /\ len \in 3..4 => kept = len /\ kept + 1 \in 1..BufLen
      /\ \A i \in 1..kept : i <= BufLen /\ i <= len
  BY <1>3, BufLenAssumption
<1> QED BY <1>3, <1>4 DEF len, kept

\* A buffer into which a datagram is read holds it, and what it held before
\* behind it.
LEMMA FilledIs ==
    ASSUME NEW b, NEW d \in Datagrams
    PROVE  /\ \A i \in 1..Kept(d) : Filled(b, d)[i] = d[i]
           /\ \A i \in 1..BufLen : i > Len(d) => Filled(b, d)[i] = b[i]
BY KeptIs, BufLenAssumption DEF Filled

\* The lengths between the two bounds.
LEMMA ThreeOrFour ==
    ASSUME NEW k \in Nat, ~(k < 3), ~(k >= 5)
    PROVE  k \in 3..4
OBVIOUS

\* What is logged for a datagram in buffer b, and when the parser panics.
LEMMA LogAlone ==
    ASSUME NEW d \in Datagrams, NEW b, \A i \in 1..Kept(d) : b[i] = d[i], NEW p,
           p = Parse(b, Kept(d), Blank)
    PROVE  /\ ~p.panic => EntryOf(b, Kept(d), p) = FreshEntry(d)
           /\ p.panic => ~Decided(d)
<1> DEFINE n == Kept(d)
           z == Filled(ZeroBuf, d)
           pri == ParsePriority(b, n, Blank)
           zpri == ParsePriority(z, n, Blank)
<1>1. FreshEntry(d) = EntryOf(z, n, Parse(z, n, Blank))
  BY DEF FreshEntry
<1>2. /\ p = Rest(pri) /\ Parse(z, n, Blank) = Rest(zpri)
  BY ParseIs
<1>3. \A i \in 1..n : b[i] = z[i]
  BY FilledIs
<1>4. \A i \in 1..BufLen : i > Len(d) => z[i] = "nul"
  BY FilledIs DEF ZeroBuf
<1>5. DOMAIN Blank = Field /\ Blank.panic = FALSE
  BY DEF Blank, Field
<1> HIDE DEF z
<1>6. \A g : EntryOf(b, n, g) = EntryOf(z, n, g)
  BY <1>3, KeptIs, EntryAlone
<1>7. CASE Decided(d)
  <2>1. n < 3 \/ b[1] # "<" \/ n >= 5 \/ \E i \in 2..5 : i <= n /\ b[i] \notin Digit
    <3>1. CASE Len(d) < 3 \/ Len(d) >= 5
      BY <3>1, KeptIs
    <3>2. CASE ~(Len(d) < 3 \/ Len(d) >= 5) /\ d[1] # "<"
      BY <3>2, KeptIs
    <3>3. CASE ~(Len(d) < 3 \/ Len(d) >= 5) /\ \E i \in 2..Len(d) : d[i] \notin Digit
      BY <3>3, KeptIs
    <3> QED BY <1>7, <3>1, <3>2, <3>3 DEF Decided
  <2>2. pri = zpri /\ (NotFound(pri, Blank) \/ Found(pri, Blank, FALSE))
    <3>1. n \in Nat
      BY KeptIs
    <3> HIDE DEF n
    <3> QED BY ONLY <1>3, <2>1, <3>1, PriorityAlone, ZenonT(60)
  <2> HIDE DEF pri, zpri
  <2>3. DOMAIN pri = Field /\ pri.panic = FALSE
    BY <1>5, <2>2 DEF NotFound, Found, Field
  <2>4. p.panic = FALSE
    BY <1>2, <2>3, RestKeeps DEF Keeps
  <2> QED BY <1>1, <1>2, <1>6, <2>2, <2>4
<1>8. CASE ~Decided(d)
  <2>1. /\ Len(d) \in 3..4 /\ d[1] = "<" /\ \A i \in 2..Len(d) : d[i] \in Digit
    <3>1. Len(d) \in Nat /\ ~(Len(d) < 3) /\ ~(Len(d) >= 5) /\ d[1] = "<"
      BY <1>8, KeptIs DEF Decided
    <3>2. \A i \in 2..Len(d) : d[i] \in Digit
      BY <1>8, Zenon DEF Decided
    <3>3. Len(d) \in 3..4
      BY <3>1, ThreeOrFour
    <3> QED BY <3>1, <3>2, <3>3
  <2>2. n = Len(d) /\ n \in 3..4 /\ n + 1 \in 1..BufLen
    BY <2>1, KeptIs
  <2>3. /\ b[1] = "<" /\ \A i \in 2..n : b[i] \in Digit
        /\ z[1] = "<" /\ \A i \in 2..n : z[i] \in Digit
        /\ z[n + 1] = "nul"
    BY <1>3, <1>4, <2>1, <2>2
  <2>4. NotFound(zpri, Blank) /\ (NotFound(pri, Blank) \/ Found(pri, Blank, TRUE))
    BY <2>2, <2>3, PriorityUndecided
  <2> HIDE DEF pri, zpri
  <2>5. CASE NotFound(pri, Blank)
    BY <1>1, <1>2, <1>6, <1>8, <2>4, <2>5 DEF NotFound
  <2>6. CASE Found(pri, Blank, TRUE)
    <3>1. DOMAIN pri = Field /\ pri.panic = TRUE
      BY <1>5, <2>6 DEF Found, Field
    <3>2. p.panic = TRUE
      BY <1>2, <3>1, RestKeeps DEF Keeps
    <3> QED BY <1>8, <3>2
  <2> QED BY <2>4, <2>5, <2>6
<1> QED BY <1>7, <1>8

-----------------------------------------------------------------------------
(* The machine. *)

\* MessageInv is an invariant of the message's way through pool, run and parser.
THEOREM MessageInvHolds == Spec => []MessageInv
<1>1. Init => MessageInv
  BY DEF Init, MessageInv, DatagramAlone
<1>2. MessageInv /\ [Next]_vars => MessageInv'
  <2> SUFFICES ASSUME MessageInv, [Next]_vars PROVE MessageInv'
    OBVIOUS
  <2>1. ASSUME NEW d \in Datagrams, Read(d) PROVE MessageInv'
    <3>1. /\ stage' = "read" /\ m' = Blank /\ datagram' = d /\ size' = Kept(d)
          /\ buf' = Filled(buf, d)
      BY <2>1 DEF Read, MessageInv
    <3>2. \A i \in 1..size' : buf'[i] = d[i]
      BY <3>1, FilledIs
    <3> QED BY <3>1, <3>2 DEF MessageInv, DatagramAlone
  <2>2. CASE Log
    <3>1. /\ datagram \in Datagrams /\ size = Kept(datagram) /\ m' = Parse(buf, size, Blank)
          /\ \A i \in 1..size : buf[i] = datagram[i]
          /\ entry' = EntryOf(buf, size, m') /\ datagram' = datagram
          /\ stage' = IF m'.panic THEN "panic" ELSE "logged"
      BY <2>2 DEF Log, MessageInv
    <3>2. /\ ~m'.panic => entry' = FreshEntry(datagram)
          /\ m'.panic => ~Decided(datagram)
      BY <3>1, LogAlone
    <3> QED BY <3>1, <3>2 DEF MessageInv, DatagramAlone
  <2>3. CASE Reset
    BY <2>3 DEF Reset, MessageInv, DatagramAlone
  <2>4. CASE UNCHANGED vars
    BY <2>4 DEF vars, MessageInv, DatagramAlone
  <2> QED BY <2>1, <2>2, <2>3, <2>4 DEF Next
<1> QED BY <1>1, <1>2, PTL DEF Spec

\* What is logged for a datagram is what a message that was never used before
\* would log, whatever datagrams were read into the message before it and
\* however long they and the buffer are; the parser panics for none that
\* decides by itself whether it starts with a priority.
THEOREM EntryIsTheDatagrams == Spec => []DatagramAlone
<1>1. MessageInv => DatagramAlone
  BY DEF MessageInv
<1> QED BY <1>1, MessageInvHolds, PTL

\* The buffer keeps its length, and so do the pointers into it: the size and the
\* fields that the parser cuts from it lie within the buffer, whatever the
\* datagrams are; the priority is a byte.
THEOREM TypeCorrect == Spec => []TypeOK
<1>1. Init => TypeOK
  <2> SUFFICES ASSUME Init PROVE TypeOK
    OBVIOUS
  <2>1. Typed(Blank)
    BY DEF Blank, Typed, NilOrSized
  <2> QED BY <2>1, BufLenAssumption, MaxReadsAssumption DEF Init, TypeOK, ZeroBuf, Blank
<1>2. ASSUME MessageInv, TypeOK, [Next]_vars PROVE TypeOK'
  <2> DEFINE Names == {"hostname", "app", "procid", "msgid", "msg"}
  <2>1. ASSUME NEW f, Typed(f)
        PROVE  f.priority \in 0..255 /\ \A k \in Names : f[k] = Nil \/ Len(f[k]) <= BufLen
    BY <2>1 DEF Typed, NilOrSized, Sized
  <2>2. ASSUME NEW d \in Datagrams, Read(d) PROVE TypeOK'
    <3>1. DOMAIN buf' = 1..BufLen
      BY <2>2 DEF Read, Filled
    <3>2. size' \in 0..BufLen
      BY <2>2, KeptIs, BufLenAssumption DEF Read
    <3>3. reads' \in 0..MaxReads
      BY <1>2, <2>2, MaxReadsAssumption DEF Read, TypeOK
    <3> QED BY <1>2, <2>2, <3>1, <3>2, <3>3 DEF Read, TypeOK
  <2>3. CASE Log
    <3>1. m' = Parse(buf, size, Blank) /\ size \in Nat /\ size <= BufLen
      BY <1>2, <2>3, BufLenAssumption DEF Log, MessageInv, TypeOK
    <3>2. Typed(m')
      BY <3>1, ParseTyped
    <3>3. m'.priority \in 0..255 /\ \A k \in Names : m'[k] = Nil \/ Len(m'[k]) <= BufLen
      BY <2>1, <3>2
    <3>4. stage' \in {"pool", "read", "logged", "panic"} /\ UNCHANGED <<buf, size, reads>>
      BY <2>3 DEF Log
    <3> QED BY <1>2, <3>3, <3>4 DEF TypeOK
  <2>4. CASE Reset
    <3>1. Typed(Blank)
      BY DEF Blank, Typed, NilOrSized
    <3>2. m'.priority \in 0..255 /\ \A k \in Names : m'[k] = Nil \/ Len(m'[k]) <= BufLen
      BY <2>1, <2>4, <3>1 DEF Reset
    <3> QED BY <1>2, <2>4, <3>2 DEF Reset, TypeOK
  <2>5. CASE UNCHANGED vars
    BY <1>2, <2>5 DEF vars, TypeOK
  <2> QED BY <1>2, <2>2, <2>3, <2>4, <2>5 DEF Next
<1> QED BY <1>1, <1>2, MessageInvHolds, PTL DEF Spec

-----------------------------------------------------------------------------
(* A printed message is understood. *)

\* A slice in the middle, and one behind two strings.
LEMMA MiddleIs ==
    ASSUME NEW s \in Str, NEW t \in Str, NEW u \in Str
    PROVE  SubSeq(s \o (t \o u), Len(s) + 1, Len(s) + Len(t)) = t
<1> DEFINE v == s \o (t \o u)
           k == Len(s)
           l == Len(t)
           r == SubSeq(v, k + 1, k + l)
<1>1. /\ t \o u \in Str /\ l \in Nat /\ Len(u) \in Nat /\ Len(t \o u) = l + Len(u)
      /\ \A i \in 1..l : (t \o u)[i] = t[i]
  BY CatIs
<1>2. /\ v \in Str /\ k \in Nat /\ Len(v) = k + Len(t \o u)
      /\ \A i \in 1..Len(t \o u) : v[k + i] = (t \o u)[i]
  BY <1>1, CatIs
<1> DEFINE w == t \o u
           o == Len(u)
<1>3. /\ l \in Nat /\ k \in Nat /\ o \in Nat /\ v \in Str /\ Len(w) = l + o /\ Len(v) = k + Len(w)
      /\ \A i \in 1..Len(w) : v[k + i] = w[i]
      /\ \A i \in 1..l : w[i] = t[i]
  BY <1>1, <1>2
<1> HIDE DEF v, w, k, l, o
<1>4. \A i \in 1..l : v[k + i] = t[i]
  BY <1>3
<1>5. /\ Len(r) = IF k + 1 <= k + l THEN (k + l) - (k + 1) + 1 ELSE 0
      /\ \A i \in 1..((k + l) - (k + 1) + 1) : r[i] = v[(k + 1) + i - 1]
  BY <1>3, SliceLen
<1>6. r \in Str
  <2>1. k + 1 \in Nat \ {0} /\ k + l \in Int /\ k + l <= Len(v)
    BY <1>3
  <2> QED BY <1>3, <2>1, SliceIs
<1> HIDE DEF r
<1>7. Len(r) = l
  BY <1>3, <1>5
<1>8. ASSUME NEW i \in 1..l PROVE r[i] = t[i]
  <2>1. i \in 1..((k + l) - (k + 1) + 1) /\ (k + 1) + i - 1 = k + i
    BY <1>3
  <2> QED BY <1>4, <1>5, <2>1
<1>9. r = t
  BY <1>6, <1>7, <1>8, SameString DEF l
<1> QED BY <1>9 DEF r, v, k, l

\* What is behind two strings.
LEMMA DropTwo ==
    ASSUME NEW s \in Str, NEW t \in Str, NEW u \in Str
    PROVE  /\ Len(s) \in Nat /\ Len(t) \in Nat /\ Len(u) \in Nat
           /\ s \o (t \o u) \in Str /\ Len(s \o (t \o u)) = Len(s) + Len(t) + Len(u)
           /\ From(s \o (t \o u), Len(s) + Len(t) + 1) = u
<1>1. /\ s \o t \in Str /\ Len(s \o t) = Len(s) + Len(t) /\ Len(s) \in Nat /\ Len(t) \in Nat
  BY CatIs
<1> DEFINE w == s \o t
<1>2. s \o (t \o u) = w \o u
  BY CatCat
<1>3. w \in Str /\ Len(w) = Len(s) + Len(t)
  BY <1>1
<1> HIDE DEF w
<1>4. From(w \o u, Len(w) + 1) = u /\ w \o u \in Str /\ Len(w \o u) = Len(w) + Len(u) /\ Len(u) \in Nat
  BY <1>3, DropIs, CatIs
<1> QED BY <1>1, <1>2, <1>3, <1>4, Zenon

\* parsePriority reads the number again and goes on behind it.
LEMMA PriorityOfPrinted ==
    ASSUME NEW n \in 0..999, NEW rest \in Str, NEW f
    PROVE  /\ Pri(n, rest) \in Str /\ Len(Pri(n, rest)) >= 3 /\ Pri(n, rest)[1] = "<"
           /\ \E i \in 2..5 : i <= Len(Pri(n, rest)) /\ Pri(n, rest)[i] \notin Digit
           /\ ParsePriority(Pri(n, rest), Len(Pri(n, rest)), f) =
                [f EXCEPT !.ok = TRUE, !.panic = FALSE, !.msg = rest, !.priority = n % 256]
<1> DEFINE b == Pri(n, rest)
           d == Decimal(n)
           lt == <<"<">>
           gt == <<">">>
           gr == gt \o rest
           k == Len(d)
           len == Len(b)
           o == Len(rest)
<1>1. d \in Seq(Digit) /\ k \in 1..3 /\ Priority(d) = n % 256
  BY DecimalIs, ZenonT(60)
<1>2. d \in Str /\ \A i \in 1..k : d[i] \in Digit
  <2>1. Digit \in SUBSET Byte
    BY Bytes
  <2> QED BY <1>1, <2>1, SubStr, ElementOfSeq
<1>3. /\ lt \in Str /\ Len(lt) = 1 /\ lt[1] = "<" /\ gt \in Str /\ Len(gt) = 1 /\ gt[1] = ">"
  BY Bytes, OneByte, ZenonT(60)
<1>4. b = lt \o (d \o gr)
  BY DEF Pri
<1> HIDE DEF d, lt, gt, b
<1>5. gr \in Str /\ Len(gr) = 1 + o /\ o \in Nat /\ gr[1] = ">"
  <2>1. gr \in Str /\ Len(gr) = Len(gt) + Len(rest) /\ Len(rest) \in Nat /\ \A i \in 1..Len(gt) : gr[i] = gt[i]
    BY <1>3, CatIs, ZenonT(60)
  <2> HIDE DEF gr
  <2> QED BY <1>3, <2>1
<1>6. d \o gr \in Str /\ k \in Nat /\ Len(d \o gr) = k + Len(gr)
  BY <1>2, <1>5, CatIs, ZenonT(60)
<1>7. /\ \A i \in 1..k : (d \o gr)[i] = d[i]
      /\ (d \o gr)[k + 1] = ">"
  <2>1. /\ \A i \in 1..Len(d) : (d \o gr)[i] = d[i]
        /\ \A i \in 1..Len(gr) : (d \o gr)[Len(d) + i] = gr[i]
    BY <1>2, <1>5, CatIs
  <2>2. 1 \in 1..Len(gr)
    <3> HIDE DEF gr, o
    <3> QED BY <1>5
  <2> QED BY <1>5, <2>1, <2>2
<1> DEFINE dr == d \o gr
<1>8. /\ b \in Str /\ len = 1 + Len(dr) /\ b[1] = "<"
      /\ \A i \in 1..Len(dr) : b[1 + i] = dr[i]
  <2>1. /\ b \in Str /\ Len(b) = Len(lt) + Len(dr)
        /\ \A i \in 1..Len(lt) : b[i] = lt[i]
        /\ \A i \in 1..Len(dr) : b[Len(lt) + i] = dr[i]
    BY <1>3, <1>4, <1>6, CatIs, ZenonT(60)
  <2> HIDE DEF dr
  <2> QED BY <1>3, <2>1
<1>9. Len(dr) = k + 1 + o /\ \A i \in 1..k : dr[i] = d[i]
  <2>1. Len(dr) = k + Len(gr) /\ \A i \in 1..k : dr[i] = d[i]
    BY <1>6, <1>7
  <2> HIDE DEF dr, gr, k, o
  <2> QED BY <1>1, <1>5, <2>1
<1>10. dr[k + 1] = ">"
  BY <1>7
<1> HIDE DEF dr, k, len, o
<1>11. len = k + 2 + o /\ len >= 3
  BY <1>1, <1>5, <1>8, <1>9
<1>12. b[k + 2] = ">" /\ \A i \in 1..k : b[1 + i] = d[i]
  <2>1. k + 1 \in 1..Len(dr) /\ 1 + (k + 1) = k + 2 /\ \A i \in 1..k : i \in 1..Len(dr)
    BY <1>1, <1>5, <1>9
  <2>2. b[1 + (k + 1)] = dr[k + 1]
    BY <1>8, <2>1
  <2>3. b[k + 2] = ">"
    BY <1>10, <2>1, <2>2
  <2>4. \A i \in 1..k : b[1 + i] = d[i]
    BY <1>8, <1>9, <2>1
  <2> QED BY <2>3, <2>4
<1>13. ">" \notin Digit
  BY Bytes, ZenonT(60)
<1>14. Least(Stops(b), k + 2)
  <2>1. k + 2 \in 2..5
    BY <1>1
  <2>2. k + 2 \in Stops(b)
    BY <1>12, <1>13, <2>1 DEF Stops
  <2>3. ASSUME NEW y \in Stops(b), y < k + 2 PROVE FALSE
    <3>1. y \in 2..5 /\ b[y] \notin Digit
      BY DEF Stops
    <3>2. y - 1 \in 1..k /\ y = 1 + (y - 1)
      BY <1>1, <2>3, <3>1
    <3>3. b[y] = d[y - 1]
      BY <1>12, <3>2
    <3> QED BY <1>2, <3>1, <3>2, <3>3 DEF k
  <2>4. \A y \in Stops(b) : y \in Nat
    BY DEF Stops
  <2>5. \A y \in Stops(b) : k + 2 <= y
    BY <1>1, <2>3, <2>4
  <2> QED BY <2>2, <2>5 DEF Least
<1>15. ParsePriority(b, len, f) = Stopped(b, len, f, k + 2)
  <2>1. len \in Nat
    BY <1>1, <1>5, <1>11
  <2> QED BY <1>8, <1>11, <1>14, <2>1, PriorityStops
<1>16. SubSeq(b, 2, (k + 2) - 1) = d
  <2>1. SubSeq(lt \o (d \o gr), Len(lt) + 1, Len(lt) + Len(d)) = d
    BY <1>2, <1>3, <1>5, MiddleIs, ZenonT(60)
  <2>2. Len(lt) + 1 = 2 /\ Len(lt) + Len(d) = (k + 2) - 1
    <3>1. Len(lt) = 1 /\ k \in 1..3
      BY <1>1, <1>3
    <3> QED BY <3>1 DEF k
  <2> QED BY <1>4, <2>1, <2>2
<1>17. SubSeq(b, (k + 2) + 1, len) = rest
  <2> DEFINE ltd == lt \o d
  <2>1. ltd \in Str /\ Len(ltd) = 1 + k
    <3>1. ltd \in Str /\ Len(ltd) = Len(lt) + Len(d)
      BY <1>2, <1>3, CatIs, ZenonT(60)
    <3> HIDE DEF ltd
    <3> QED BY <1>3, <3>1 DEF k
  <2>2. b = ltd \o gr
    BY <1>2, <1>3, <1>4, <1>5, CatCat, ZenonT(60)
  <2> HIDE DEF ltd
  <2>3. From(ltd \o (gt \o rest), Len(ltd) + Len(gt) + 1) = rest
    BY <1>3, <2>1, DropTwo, ZenonT(60)
  <2>4. Len(ltd) + Len(gt) + 1 = (k + 2) + 1
    BY <1>1, <1>3, <2>1
  <2> QED BY <2>2, <2>3, <2>4 DEF From, len, gr
<1>18. Stopped(b, len, f, k + 2) =
         [f EXCEPT !.ok = TRUE, !.panic = FALSE, !.msg = rest, !.priority = n % 256]
  <2>1. ((k + 2) > len) = FALSE
    BY <1>1, <1>5, <1>11
  <2> QED BY <1>1, <1>12, <1>16, <1>17, <2>1, ZenonT(60) DEF Stopped
<1>19. \E i \in 2..5 : i <= len /\ b[i] \notin Digit
  <2>1. k + 2 \in 2..5 /\ k + 2 <= len
    BY <1>1, <1>5, <1>11
  <2> QED BY <1>12, <1>13, <2>1
<1>20. b = Pri(n, rest)
  BY DEF b
<1> QED BY <1>8, <1>11, <1>15, <1>18, <1>19, <1>20 DEF len

\* A field of the header is what is before the first space.
Shown(s) == IF s = <<>> THEN <<"-">> ELSE s

\* What is before and after the first c.
At(s, c) == Min({i \in 1..Len(s) : s[i] = c} \cup {Len(s) + 1})

\* In a string of w, c and r, with no c in w, w is before the first c and r after it.
LEMMA WordAt ==
    ASSUME NEW c \in Byte, NEW w \in Str, \A i \in 1..Len(w) : w[i] # c, NEW r \in Str
    PROVE  LET u == w \o (<<c>> \o r)
           IN  /\ u \in Str /\ ~(At(u, c) > Len(u))
               /\ SubSeq(u, 1, At(u, c) - 1) = w /\ From(u, At(u, c) + 1) = r
<1> DEFINE sp == <<c>>
           u == w \o (sp \o r)
           k == Len(w)
           len == Len(u)
           o == Len(r)
<1>1. k \in Nat /\ \A i \in 1..k : w[i] # c
  BY LenProperties DEF Str
<1>2. sp \in Str /\ Len(sp) = 1 /\ sp[1] = c
  BY OneByte
<1>3. u = w \o (sp \o r)
  OBVIOUS
<1> HIDE DEF sp, u
<1> DEFINE sr == sp \o r
<1>4. sr \in Str /\ Len(sr) = 1 + o /\ o \in Nat /\ sr[1] = c
  <2>1. sr \in Str /\ Len(sr) = Len(sp) + Len(r) /\ Len(r) \in Nat /\ \A i \in 1..Len(sp) : sr[i] = sp[i]
    BY <1>2, CatIs
  <2> HIDE DEF sr
  <2> QED BY <1>2, <2>1
<1>5. /\ u \in Str /\ len = k + Len(sr)
      /\ \A i \in 1..k : u[i] = w[i]
      /\ \A i \in 1..Len(sr) : u[k + i] = sr[i]
  BY <1>1, <1>3, <1>4, CatIs, ZenonT(60)
<1>6. SubSeq(u, 1, k) = w
  BY <1>1, <1>3, <1>4, TakeIs
<1>7. From(u, k + Len(sp) + 1) = r
  BY <1>1, <1>2, <1>3, DropTwo, ZenonT(60)
<1> HIDE DEF sr, k, len, o
<1>8. len = k + 1 + o /\ k + 1 <= len /\ k + 1 \in 1..len /\ k + 1 \in Nat
  BY <1>1, <1>4, <1>5
<1>9. u[k + 1] = c
  <2>1. 1 \in 1..Len(sr)
    BY <1>4
  <2> QED BY <1>4, <1>5, <2>1
<1>10. At(u, c) = k + 1
  <2> DEFINE S == {i \in 1..len : u[i] = c} \cup {len + 1}
  <2>1. At(u, c) = Min(S)
    BY DEF At, len
  <2>2. \A i \in S : i \in Nat /\ ((i \in 1..len /\ u[i] = c) \/ i = len + 1)
    BY <1>1, <1>4, <1>8
  <2>3. k + 1 \in S
    BY <1>8, <1>9
  <2> HIDE DEF S
  <2>4. ASSUME NEW i \in S PROVE k + 1 <= i
    <3>1. CASE i \in 1..len /\ u[i] = c
      <4>1. ASSUME i <= k PROVE FALSE
        <5>1. i \in 1..k
          BY <1>1, <3>1, <4>1
        <5> QED BY <1>1, <1>5, <3>1, <5>1
      <4> QED BY <1>1, <3>1, <4>1
    <3>2. CASE i = len + 1
      BY <1>1, <1>4, <1>8, <3>2
    <3> QED BY <2>2, <3>1, <3>2
  <2>5. S \in SUBSET Nat /\ Least(S, k + 1)
    BY <2>2, <2>3, <2>4 DEF Least
  <2> QED BY <2>1, <2>5, MinIs
<1>11. (k + 1) - 1 = k /\ k + Len(sp) + 1 = (k + 1) + 1
  BY <1>1, <1>2
<1>12. SubSeq(u, 1, At(u, c) - 1) = w
  BY <1>6, <1>10, <1>11
<1>13. From(u, At(u, c) + 1) = r
  BY <1>7, <1>10, <1>11
<1>14. ~(At(u, c) > len)
  BY <1>1, <1>4, <1>8, <1>10
<1> QED BY <1>5, <1>12, <1>13, <1>14, Zenon DEF len, u, sp

\* A string of one byte has one index.
LEMMA OneIndex == \A i \in 1..1 : i = 1
OBVIOUS

\* What bytes.SplitN makes of a printed field and the rest.
LEMMA WordIs ==
    ASSUME NEW s \in Seq(Byte \ {" "}), NEW r \in Str
    PROVE  /\ Word(s, r) \in Str /\ ~(Space(Word(s, r)) > Len(Word(s, r)))
           /\ Before(Word(s, r)) = Shown(s) /\ After(Word(s, r)) = r
<1> DEFINE w == Shown(s)
<1>1. w \in Str /\ \A i \in 1..Len(w) : w[i] # " "
  <2>1. CASE s = <<>>
    <3>1. w = <<"-">> /\ "-" \in Byte
      BY <2>1, Bytes DEF Shown
    <3>2. <<"-">> \in Str /\ Len(<<"-">>) = 1 /\ <<"-">>[1] # " "
      BY <3>1, OneByte
    <3>3. \A i \in 1..1 : i = 1
      BY OneIndex
    <3>4. \A i \in 1..Len(<<"-">>) : <<"-">>[i] # " "
      BY <3>2, <3>3, Zenon
    <3> QED BY <3>1, <3>2, <3>4, Zenon
  <2>2. CASE s # <<>>
    <3>1. w = s
      BY <2>2 DEF Shown
    <3>2. Byte \ {" "} \in SUBSET Byte
      OBVIOUS
    <3>3. s \in Str /\ \A i \in 1..Len(s) : s[i] \in Byte \ {" "}
      BY <3>2, SubStr, ElementOfSeq
    <3> QED BY <3>1, <3>3
  <2> QED BY <2>1, <2>2
<1>2. Word(s, r) = w \o (<<" ">> \o r)
  BY DEF Word, Shown
<1> HIDE DEF w
<1> DEFINE u == w \o (<<" ">> \o r)
           at == At(u, " ")
<1>3. " " \in Byte
  BY Bytes
<1>4. u \in Str /\ ~(at > Len(u)) /\ SubSeq(u, 1, at - 1) = w /\ From(u, at + 1) = r
  BY ONLY <1>1, <1>3, r \in Str, WordAt, Zenon
<1>5. Space(u) = at
  BY Zenon DEF Space, At
<1> HIDE DEF u, at
<1>6. Before(u) = w /\ After(u) = r /\ ~(Space(u) > Len(u))
  BY <1>4, <1>5, Zenon DEF Before, After
<1> QED BY <1>2, <1>4, <1>6, Zenon DEF w, u

\* A field that is absent, or printed, is logged as it was.
LEMMA ShownIs ==
    ASSUME NEW s \in Str, s # <<"-">>
    PROVE  NilToEmpty(IgnoreNil(Shown(s))) = s
<1>1. CASE s = <<>>
  BY <1>1 DEF Shown, IgnoreNil, NilToEmpty
<1>2. CASE s # <<>>
  BY <1>2, NilAssumption DEF Shown, IgnoreNil, NilToEmpty, Str
<1> QED BY <1>1, <1>2

\* What is logged for fields g.
Logged(g, pri, hostname, app, procid, msgid, text) ==
    /\ g.ok = TRUE /\ g.panic = FALSE /\ g.priority = pri % 256
    /\ NilToEmpty(g.hostname) = hostname /\ NilToEmpty(g.app) = app
    /\ NilToEmpty(g.procid) = procid /\ NilToEmpty(g.msgid) = msgid
    /\ NilToEmpty(g.msg) = text

\* The fields when a priority was found.
Start(pri, rest) ==
    [Blank EXCEPT !.ok = TRUE, !.panic = FALSE, !.msg = rest, !.priority = pri % 256]

\* The format of RFC 5424.
LEMMA RFC5424Understood ==
    ASSUME NEW x, IsRFC5424(x), NEW t \in Str, NEW pri
    PROVE  Logged(Rest(Start(pri, RFC5424With(x, t))), pri,
                  x.hostname, x.app, x.procid, x.msgid, t)
<1> DEFINE time == <<"t">>
           one == <<"1", " ">>
           dash == <<"-", " ">>
           r1 == dash \o t
           r2 == Word(x.msgid, r1)
           r3 == Word(x.procid, r2)
           r4 == Word(x.app, r3)
           r5 == Word(x.hostname, r4)
           r6 == Word(time, r5)
           f == Start(pri, one \o r6)
           version == ParseVersion(f)
           header == ParseHeader(version)
           done == ParseStructuredData(header)
<1>1. RFC5424With(x, t) = one \o r6
  BY DEF RFC5424With
<1>2. /\ DOMAIN f = Field /\ f.ok = TRUE /\ f.panic = FALSE /\ f.priority = pri % 256
      /\ f.msg = one \o r6
  BY DEF Start, Blank, Field
<1>3. /\ x.hostname \in Seq(Byte \ {" "}) /\ x.app \in Seq(Byte \ {" "})
      /\ x.procid \in Seq(Byte \ {" "}) /\ x.msgid \in Seq(Byte \ {" "})
      /\ x.hostname # <<"-">> /\ x.app # <<"-">> /\ x.procid # <<"-">> /\ x.msgid # <<"-">>
  BY DEF IsRFC5424, RFC5424Fields
<1>4. /\ x.hostname \in Str /\ x.app \in Str /\ x.procid \in Str /\ x.msgid \in Str
      /\ one \in Str /\ dash \in Str
  BY RFC5424Parts
<1>5. Len(one) = 2 /\ Len(dash) = 2
  OBVIOUS
<1>6. time \in Seq(Byte \ {" "}) /\ Shown(time) = time /\ ParseTimestamp(time)
  <2>1. "t" \in Byte \ {" "}
    BY Bytes
  <2>2. time \in Seq(Byte \ {" "}) /\ time # <<>>
    BY <2>1
  <2> QED BY <2>2 DEF Shown, ParseTimestamp
<1> HIDE DEF time, one, dash, f
<1>7. r1 \in Str /\ IsPrefix(dash, r1) /\ From(r1, 3) = t
  <2>1. r1 \in Str /\ IsPrefix(dash, r1) /\ From(r1, Len(dash) + 1) = t
    BY <1>4, CatIs, PrefixIs, DropIs
  <2> HIDE DEF r1
  <2>2. Len(dash) + 1 = 3
    BY <1>5
  <2> QED BY <2>1, <2>2
<1> HIDE DEF r1
<1>8. r2 \in Str /\ ~(Space(r2) > Len(r2)) /\ Before(r2) = Shown(x.msgid) /\ After(r2) = r1
  BY <1>3, <1>7, WordIs
<1> HIDE DEF r2
<1>9. r3 \in Str /\ Before(r3) = Shown(x.procid) /\ After(r3) = r2
  BY <1>3, <1>8, WordIs
<1> HIDE DEF r3
<1>10. r4 \in Str /\ Before(r4) = Shown(x.app) /\ After(r4) = r3
  BY <1>3, <1>9, WordIs
<1> HIDE DEF r4
<1>11. r5 \in Str /\ Before(r5) = Shown(x.hostname) /\ After(r5) = r4
  BY <1>3, <1>10, WordIs
<1> HIDE DEF r5
<1>12. r6 \in Str /\ Before(r6) = time /\ After(r6) = r5
  BY <1>6, <1>11, WordIs
<1> HIDE DEF r6
<1>13. IsPrefix(one, one \o r6) /\ From(one \o r6, 3) = r6
  <2>1. IsPrefix(one, one \o r6) /\ From(one \o r6, Len(one) + 1) = r6
    BY <1>4, <1>12, PrefixIs, DropIs
  <2>2. Len(one) + 1 = 3
    BY <1>5
  <2> QED BY <2>1, <2>2
<1>14. version = [f EXCEPT !.ok = TRUE, !.msg = r6]
  BY <1>2, <1>13 DEF ParseVersion, one
<1>15. /\ DOMAIN version = Field /\ version.ok = TRUE /\ version.panic = FALSE
       /\ version.priority = pri % 256 /\ version.msg = r6
  BY <1>2, <1>14 DEF Field
<1> HIDE DEF version
<1>16. header = [version EXCEPT !.ok = TRUE,
                   !.hostname = IgnoreNil(Shown(x.hostname)), !.app = IgnoreNil(Shown(x.app)),
                   !.procid = IgnoreNil(Shown(x.procid)), !.msgid = IgnoreNil(Shown(x.msgid)),
                   !.msg = r1]
  BY <1>6, <1>8, <1>9, <1>10, <1>11, <1>12, <1>15 DEF ParseHeader
<1>17. /\ DOMAIN header = Field /\ header.ok = TRUE /\ header.panic = FALSE
       /\ header.priority = pri % 256 /\ header.msg = r1
       /\ header.hostname = IgnoreNil(Shown(x.hostname)) /\ header.app = IgnoreNil(Shown(x.app))
       /\ header.procid = IgnoreNil(Shown(x.procid)) /\ header.msgid = IgnoreNil(Shown(x.msgid))
  BY <1>15, <1>16 DEF Field
<1> HIDE DEF header
<1>18. done = [header EXCEPT !.ok = TRUE, !.msg = t]
  BY <1>7, <1>17 DEF ParseStructuredData, dash
<1>19. Logged(done, pri, x.hostname, x.app, x.procid, x.msgid, t)
  <2>1. NilToEmpty(t) = t
    BY NilAssumption DEF NilToEmpty, Str
  <2>2. /\ done.ok = TRUE /\ done.panic = FALSE /\ done.priority = pri % 256 /\ done.msg = t
        /\ done.hostname = IgnoreNil(Shown(x.hostname)) /\ done.app = IgnoreNil(Shown(x.app))
        /\ done.procid = IgnoreNil(Shown(x.procid)) /\ done.msgid = IgnoreNil(Shown(x.msgid))
    BY <1>17, <1>18 DEF Field
  <2> HIDE DEF done
  <2> QED BY <1>3, <1>4, <2>1, <2>2, ShownIs DEF Logged
<1>20. Rest(f) = done
  BY <1>2, <1>15, <1>17 DEF Rest, version, header
<1> QED BY <1>1, <1>19, <1>20 DEF f

\* A tag is not taken for a version or a time: the byte behind it, or its second
\* one, is not the space that follows these.
LEMMA NotInFront ==
    ASSUME NEW c \in Byte, NEW e \in Byte, e \notin TagByte, NEW a \in Seq(TagByte),
           NEW y \in Str, Len(y) >= 1, y[1] # c, y[1] # e
    PROVE  ~IsPrefix(<<c, e>>, a \o y) /\ TrimPrefix(a \o y, <<c, e>>) = a \o y
<1> DEFINE p == <<c, e>>
           u == a \o y
           k == Len(a)
           l == Len(y)
<1>1. p \in Str /\ Len(p) = 2 /\ p[1] = c /\ p[2] = e
  BY TwoBytes
<1>2. a \in Str /\ \A i \in 1..k : a[i] \in TagByte
  <2>1. TagByte \in SUBSET Byte
    BY Bytes
  <2> QED BY <2>1, SubStr, ElementOfSeq
<1>3. /\ u \in Str /\ k \in Nat /\ l \in Nat /\ Len(u) = k + l
      /\ \A i \in 1..k : u[i] = a[i]
      /\ \A i \in 1..l : u[k + i] = y[i]
  BY <1>2, CatIs
<1>4. l >= 1
  OBVIOUS
<1> HIDE DEF p, u, k, l
<1>5. \E i \in 1..Len(p) : i > Len(u) \/ u[i] # p[i]
  <2>1. CASE k = 0
    <3>1. 1 \in 1..l /\ k + 1 = 1 /\ 1 \in 1..Len(p)
      BY <1>1, <1>3, <1>4, <2>1
    <3>2. u[1] # p[1]
      BY <1>1, <1>3, <3>1
    <3> QED BY <3>1, <3>2
  <2>2. CASE k = 1
    <3>1. 1 \in 1..l /\ k + 1 = 2 /\ 2 \in 1..Len(p)
      BY <1>1, <1>3, <1>4, <2>2
    <3>2. u[2] # p[2]
      BY <1>1, <1>3, <3>1
    <3> QED BY <3>1, <3>2
  <2>3. CASE k >= 2
    <3>1. 2 \in 1..k /\ 2 \in 1..Len(p)
      BY <1>1, <1>3, <2>3
    <3>2. u[2] # p[2]
      BY <1>1, <1>2, <1>3, <3>1
    <3> QED BY <3>1, <3>2
  <2> QED BY <1>3, <2>1, <2>2, <2>3
<1>6. ~IsPrefix(p, u) /\ TrimPrefix(u, p) = u
  BY <1>1, <1>3, <1>5, NoPrefix
<1> QED BY <1>6 DEF p, u

\* The tag's end is found.
TagStops(b) == {i \in 1..Len(b) : b[i] \notin TagByte}

\* A tag's bytes are before the first byte that is no tag's.
LEMMA TagEnd ==
    ASSUME NEW a \in Seq(TagByte), NEW y \in Str, Len(y) >= 1, y[1] \notin TagByte
    PROVE  /\ a \o y \in Str /\ Len(a) \in Nat /\ TagStops(a \o y) # {}
           /\ Min(TagStops(a \o y)) = Len(a) + 1
           /\ (a \o y)[Len(a) + 1] = y[1] /\ SubSeq(a \o y, 1, Len(a)) = a
           /\ From(a \o y, Len(a) + 1) = y
<1> DEFINE u == a \o y
           k == Len(a)
           l == Len(y)
           len == Len(u)
<1>1. a \in Str /\ \A i \in 1..k : a[i] \in TagByte
  <2>1. TagByte \in SUBSET Byte
    BY Bytes
  <2> QED BY <2>1, SubStr, ElementOfSeq
<1>2. /\ u \in Str /\ k \in Nat /\ l \in Nat /\ len = k + l
      /\ \A i \in 1..k : u[i] = a[i]
      /\ \A i \in 1..l : u[k + i] = y[i]
  BY <1>1, CatIs
<1>3. SubSeq(u, 1, k) = a /\ From(u, k + 1) = y
  BY <1>1, TakeIs, DropIs
<1>4. l >= 1 /\ y[1] \notin TagByte
  OBVIOUS
<1>5. TagStops(u) = {i \in 1..len : u[i] \notin TagByte}
  BY DEF TagStops
<1> HIDE DEF u, k, l, len
<1>6. u[k + 1] = y[1] /\ k + 1 \in 1..len
  BY <1>2, <1>4
<1>7. k + 1 \in TagStops(u)
  BY <1>4, <1>5, <1>6
<1>8. ASSUME NEW i \in TagStops(u) PROVE i \in Nat /\ k + 1 <= i
  <2>1. i \in 1..len /\ u[i] \notin TagByte
    BY <1>5
  <2>2. ASSUME i <= k PROVE FALSE
    <3>1. i \in 1..k
      BY <1>2, <2>1, <2>2
    <3> QED BY <1>1, <1>2, <2>1, <3>1 DEF k
  <2> QED BY <1>2, <2>1, <2>2
<1>9. TagStops(u) \in SUBSET Nat /\ Least(TagStops(u), k + 1)
  BY <1>7, <1>8 DEF Least
<1>10. Min(TagStops(u)) = k + 1
  BY <1>9, MinIs
<1>11. TagStops(u) # {}
  BY <1>7
<1> QED BY <1>2, <1>3, <1>6, <1>10, <1>11, Zenon DEF u, k

\* The closing bracket is found.
Closing(b, end) == {i \in (end + 1)..Len(b) : b[i] = "]"}

\* The pid is what is between the brackets.
LEMMA ClosingIs ==
    ASSUME NEW s \in Str, NEW p \in Str, \A i \in 1..Len(p) : p[i] # "]", NEW z \in Str
    PROVE  LET b == s \o (p \o (<<"]">> \o z))
               S == Closing(b, Len(s))
           IN  /\ S # {} /\ SubSeq(b, Len(s) + 1, Min(S) - 1) = p
               /\ From(b, Min(S) + 1) = z
<1> DEFINE c == <<"]">>
           v == c \o z
           w == p \o v
           b == s \o w
           j == Len(s)
           k == Len(p)
           o == Len(v)
           len == Len(b)
           S == Closing(b, j)
<1>1. c \in Str /\ Len(c) = 1 /\ c[1] = "]"
  BY Bytes, OneByte
<1> HIDE DEF c
<1>2. v \in Str /\ o \in Nat /\ o >= 1 /\ v[1] = "]"
  <2>1. /\ v \in Str /\ Len(v) = Len(c) + Len(z) /\ Len(z) \in Nat
        /\ \A i \in 1..Len(c) : v[i] = c[i]
    BY <1>1, CatIs
  <2> HIDE DEF v
  <2> QED BY <1>1, <2>1
<1>3. SubSeq(b, j + 1, j + k) = p
  BY <1>2, MiddleIs
<1>4. From(b, (j + k) + 1 + 1) = z
  <2> DEFINE sp == s \o p
  <2>1. sp \in Str /\ Len(sp) = j + k
    BY CatIs
  <2>2. b = sp \o (c \o z)
    BY <1>2, CatCat
  <2> HIDE DEF sp, b
  <2>3. From(sp \o (c \o z), Len(sp) + Len(c) + 1) = z
    BY <1>1, <2>1, DropTwo, ZenonT(60)
  <2> QED BY <1>1, <2>1, <2>2, <2>3
<1> HIDE DEF v
<1>5. /\ w \in Str /\ k \in Nat /\ Len(w) = k + o
      /\ \A i \in 1..k : w[i] = p[i]
      /\ \A i \in 1..o : w[k + i] = v[i]
  BY <1>2, CatIs
<1> HIDE DEF w
<1>6. /\ b \in Str /\ j \in Nat /\ len = j + Len(w)
      /\ \A i \in 1..Len(w) : b[j + i] = w[i]
  BY <1>5, CatIs
<1>7. \A i \in 1..k : p[i] # "]"
  OBVIOUS
<1>8. S = {i \in (j + 1)..len : b[i] = "]"}
  BY DEF Closing
<1> HIDE DEF b, j, k, o, len, S
<1>9. b[j + k + 1] = "]" /\ j + k + 1 \in (j + 1)..len
  <2>1. k + 1 \in 1..Len(w) /\ 1 \in 1..o /\ j + (k + 1) = j + k + 1
    BY <1>2, <1>5, <1>6
  <2>2. b[j + (k + 1)] = w[k + 1] /\ w[k + 1] = v[1]
    BY <1>5, <1>6, <2>1
  <2>3. j + k + 1 \in (j + 1)..len
    BY <1>2, <1>5, <1>6
  <2> QED BY <1>2, <2>1, <2>2, <2>3
<1>10. ASSUME NEW i \in S PROVE i \in Nat /\ j + k + 1 <= i
  <2>1. i \in (j + 1)..len /\ b[i] = "]"
    BY <1>8
  <2>2. i \in Int /\ i >= j + 1 /\ i <= len
    BY <1>5, <1>6, <1>2, <2>1
  <2>3. ASSUME i <= j + k PROVE FALSE
    <3>1. i - j \in 1..k /\ i - j \in 1..Len(w) /\ j + (i - j) = i
      BY <1>2, <1>5, <1>6, <2>2, <2>3
    <3>2. b[i] = p[i - j]
      BY <1>5, <1>6, <3>1
    <3> QED BY <1>7, <2>1, <3>1, <3>2
  <2> QED BY <1>5, <1>6, <2>2, <2>3
<1>11. j + k + 1 \in S
  BY <1>8, <1>9
<1>12. S \in SUBSET Nat /\ Least(S, j + k + 1)
  BY <1>10, <1>11 DEF Least
<1>13. Min(S) = j + k + 1 /\ S # {}
  BY <1>11, <1>12, MinIs
<1>14. Min(S) - 1 = j + k /\ Min(S) + 1 = (j + k) + 1 + 1
  BY <1>5, <1>6, <1>13
<1>15. SubSeq(b, j + 1, Min(S) - 1) = p /\ From(b, Min(S) + 1) = z
  BY <1>3, <1>4, <1>14
<1> QED BY <1>13, <1>15, Zenon DEF S, b, w, v, c, j

\* parseLegacyTag, with names for what it looks for.
Colon == <<":", " ">>
TagWith(f, b, stops, end, closing) ==
    IF stops = {} THEN [f EXCEPT !.app = Nil, !.procid = Nil]
    ELSE [f EXCEPT !.app = SubSeq(b, 1, end - 1),
                   !.procid = IF b[end] # "[" THEN f.procid
                              ELSE IF closing = {} THEN Nil
                              ELSE SubSeq(b, end + 1, Min(closing) - 1),
                   !.msg = TrimPrefix(IF b[end] = "[" /\ closing # {} THEN From(b, Min(closing) + 1)
                                      ELSE From(b, end), Colon)]

\* TagWith is parseLegacyTag.
LEMMA TagWithIs ==
    ASSUME NEW f
    PROVE  ParseLegacyTag(f) = TagWith(f, f.msg, TagStops(f.msg), Min(TagStops(f.msg)),
                                       Closing(f.msg, Min(TagStops(f.msg))))
BY Zenon DEF ParseLegacyTag, TagWith, TagStops, Closing, Colon

\* A tag with or without a pid is read again.
LEMMA TagUnderstood ==
    ASSUME NEW x, IsLegacy(x), NEW t \in Str, NEW f, DOMAIN f = Field,
           f.procid = Nil, f.msg = x.app \o (Pid(x) \o (Colon \o t))
    PROVE  ParseLegacyTag(f) =
             [f EXCEPT !.app = x.app, !.procid = IF x.procid = <<>> THEN Nil ELSE x.procid, !.msg = t]
<1> DEFINE a == x.app
           z == Colon \o t
           y == Pid(x) \o z
           b == a \o y
           stops == TagStops(b)
           end == Min(stops)
           closing == Closing(b, end)
           pid == IF b[end] # "[" THEN f.procid
                  ELSE IF closing = {} THEN Nil ELSE SubSeq(b, end + 1, Min(closing) - 1)
           rest == IF b[end] = "[" /\ closing # {} THEN From(b, Min(closing) + 1) ELSE From(b, end)
<1>1. ParseLegacyTag(f) =
        IF stops = {} THEN [f EXCEPT !.app = Nil, !.procid = Nil]
        ELSE [f EXCEPT !.app = SubSeq(b, 1, end - 1), !.procid = pid,
                       !.msg = TrimPrefix(rest, Colon)]
  <2>1. f.msg = b
    OBVIOUS
  <2> HIDE DEF b
  <2>2. ParseLegacyTag(f) = TagWith(f, b, stops, end, closing)
    BY <2>1, TagWithIs, Zenon
  <2> HIDE DEF stops, end, closing
  <2> QED BY <2>2 DEF TagWith
<1>2. /\ x.app \in Str /\ x.procid \in Str /\ Pid(x) \in Str /\ Colon \in Str
      /\ <<"[">> \in Str /\ <<"]">> \in Str
  BY LegacyParts, Zenon DEF Colon
<1>3. x.app \in Seq(TagByte) /\ x.procid \in Seq(Byte \ {"]"})
  BY DEF IsLegacy
<1>4. Len(Colon) = 2 /\ Colon[1] = ":"
  <2>1. ":" \in Byte /\ " " \in Byte
    BY Bytes
  <2> QED BY <2>1, TwoBytes, Zenon DEF Colon
<1>5. z \in Str /\ Len(z) >= 1 /\ z[1] = ":" /\ TrimPrefix(z, Colon) = t
  <2>1. /\ z \in Str /\ Len(z) = Len(Colon) + Len(t) /\ Len(t) \in Nat
        /\ \A i \in 1..Len(Colon) : z[i] = Colon[i]
    BY <1>2, CatIs
  <2>2. TrimPrefix(z, Colon) = t
    BY <1>2, PrefixIs
  <2> HIDE DEF z
  <2> QED BY <1>4, <2>1, <2>2
<1> HIDE DEF z
<1>6. ":" \notin TagByte /\ "[" \notin TagByte
  BY Bytes
<1>7. CASE x.procid = <<>>
  <2>1. y = z
    BY <1>5, <1>7, CatEmpty DEF Pid
  <2>2. /\ stops # {} /\ end = Len(a) + 1 /\ Len(a) \in Nat /\ b[Len(a) + 1] = ":"
        /\ SubSeq(b, 1, Len(a)) = a /\ From(b, Len(a) + 1) = z
    <3> HIDE DEF y
    <3> QED BY <1>3, <1>5, <1>6, <2>1, TagEnd
  <2> HIDE DEF b, stops, end, closing
  <2>3. b[end] = ":" /\ end - 1 = Len(a)
    BY <2>2
  <2>4. pid = Nil /\ rest = z
    BY <2>2, <2>3
  <2>5. SubSeq(b, 1, end - 1) = x.app
    BY <2>2, <2>3
  <2> HIDE DEF pid, rest, a
  <2> QED BY <1>1, <1>5, <1>7, <2>2, <2>4, <2>5
<1>8. CASE x.procid # <<>>
  <2> DEFINE open == <<"[">>
             close == <<"]">>
             p == x.procid
             w == p \o (close \o z)
             s == a \o open
  <2>1. y = open \o w
    <3>1. y = (open \o (p \o close)) \o z
      BY <1>8 DEF Pid
    <3>2. open \in Str /\ close \in Str /\ p \in Str
      BY <1>2
    <3> HIDE DEF open, close, p, y
    <3>3. p \o close \in Str
      BY <3>2, CatIs
    <3>4. open \o ((p \o close) \o z) = (open \o (p \o close)) \o z
      <4> DEFINE q == p \o close
      <4>1. q \in Str /\ z \in Str
        BY <1>5, <3>3
      <4> HIDE DEF q
      <4>2. open \o (q \o z) = (open \o q) \o z
        BY ONLY <3>2, <4>1, CatCat, ZenonT(60)
      <4> QED BY <4>2 DEF q
    <3>5. p \o (close \o z) = (p \o close) \o z
      BY <1>5, <3>2, CatCat
    <3> QED BY <3>1, <3>4, <3>5, Zenon
  <2>2. /\ open \in Str /\ close \in Str /\ Len(open) = 1 /\ open[1] = "["
    BY <1>2
  <2> HIDE DEF open
  <2>3. close \o z \in Str /\ w \in Str
    <3> HIDE DEF close
    <3>1. close \o z \in Str
      BY <1>5, <2>2, CatIs
    <3> QED BY <1>2, <3>1, CatIs
  <2> HIDE DEF w
  <2>4. y \in Str /\ Len(y) >= 1 /\ y[1] = "["
    <3>1. /\ y \in Str /\ Len(y) = Len(open) + Len(w) /\ Len(w) \in Nat
          /\ \A i \in 1..Len(open) : y[i] = open[i]
      <4> HIDE DEF y
      <4>1. /\ open \o w \in Str /\ Len(open \o w) = Len(open) + Len(w) /\ Len(w) \in Nat
            /\ \A i \in 1..Len(open) : (open \o w)[i] = open[i]
        BY <2>2, <2>3, CatIs, Zenon
      <4> QED BY <2>1, <4>1, Zenon
    <3> HIDE DEF y
    <3> QED BY <2>2, <3>1
  <2>5. b = s \o w
    <3>1. a \o (open \o w) = (a \o open) \o w
      <4>1. a \in Str /\ open \in Str /\ w \in Str
        BY <1>2, <2>2, <2>3
      <4> HIDE DEF a
      <4> QED BY ONLY <4>1, CatCat
    <3> QED BY <2>1, <3>1, Zenon
  <2> HIDE DEF y
  <2>6. /\ stops # {} /\ end = Len(a) + 1 /\ Len(a) \in Nat /\ b[Len(a) + 1] = "["
        /\ SubSeq(b, 1, Len(a)) = a
    <3>1. y \in Str /\ Len(y) >= 1 /\ y[1] \notin TagByte
      BY <1>6, <2>4
    <3>2. /\ stops # {} /\ end = Len(a) + 1 /\ Len(a) \in Nat /\ b[Len(a) + 1] = y[1]
          /\ SubSeq(b, 1, Len(a)) = a
      BY <1>3, <3>1, TagEnd, Zenon
    <3> HIDE DEF stops, end, b
    <3> QED BY <2>4, <3>2
  <2>7. s \in Str /\ Len(s) = Len(a) + 1
    <3>1. s \in Str /\ Len(s) = Len(a) + Len(open)
      BY <1>2, <2>2, CatIs
    <3> HIDE DEF s
    <3> QED BY <2>2, <3>1
  <2> HIDE DEF b, stops, end, s
  <2>8. /\ Closing(s \o w, Len(s)) # {}
        /\ SubSeq(s \o w, Len(s) + 1, Min(Closing(s \o w, Len(s))) - 1) = p
        /\ From(s \o w, Min(Closing(s \o w, Len(s))) + 1) = z
    <3>1. \A i \in 1..Len(p) : p[i] # "]"
      <4>1. \A i \in 1..Len(p) : p[i] \in Byte \ {"]"}
        BY <1>3, ElementOfSeq
      <4> QED BY <4>1
    <3>2. s \in Str /\ p \in Str /\ z \in Str
      BY <1>2, <1>5, <2>7
    <3> HIDE DEF p
    <3> QED BY ONLY <3>1, <3>2, ClosingIs, Zenon DEF w
  <2>9. closing # {} /\ SubSeq(b, end + 1, Min(closing) - 1) = p /\ From(b, Min(closing) + 1) = z
    BY <2>5, <2>6, <2>7, <2>8
  <2> HIDE DEF closing
  <2>10. b[end] = "[" /\ end - 1 = Len(a)
    BY <2>6
  <2>11. pid = p /\ rest = z
    BY <2>9, <2>10
  <2>12. SubSeq(b, 1, end - 1) = x.app
    BY <2>6, <2>10
  <2> HIDE DEF pid, rest, a
  <2> QED BY <1>1, <1>5, <1>8, <2>6, <2>11, <2>12
<1> QED BY <1>7, <1>8

\* Severity and time in front of the text are trimmed, and nothing else.
LEMMA TextUnderstood ==
    ASSUME NEW x, x.pri \in 0..999, IsLegacy(x), NEW t \in Str, \A p \in Trimmed(x) : ~IsPrefix(p, t)
    PROVE  TrimPrefix(TrimPrefix(TrimPrefix(TextWith(x, t), SeverityPrefix(x)), <<"D">>), <<"CR">>) = t
<1> DEFINE sev == SeverityPrefix(x)
           dd == <<"D">>
           cr == <<"CR">>
<1>1. sev \in Str /\ dd \in Str
  BY LegacyParts, SeverityPrefixIs, ZenonT(60)
<1>2. ~IsPrefix(sev, t) /\ ~IsPrefix(dd, t) /\ ~IsPrefix(cr, t)
  BY DEF Trimmed
<1>3. TextWith(x, t) = (IF x.prefix THEN sev \o dd ELSE <<>>) \o t
  BY DEF TextWith
<1> HIDE DEF sev, dd, cr
<1>4. TrimPrefix(t, sev) = t /\ TrimPrefix(t, dd) = t /\ TrimPrefix(t, cr) = t
  BY <1>2 DEF TrimPrefix
<1>5. CASE x.prefix
  <2>1. TextWith(x, t) = sev \o (dd \o t)
    <3>1. sev \o (dd \o t) = (sev \o dd) \o t
      BY <1>1, CatCat
    <3> QED BY <1>3, <1>5, <3>1, ZenonT(60)
  <2>2. dd \o t \in Str
    BY <1>1, CatIs
  <2>3. TrimPrefix(sev \o (dd \o t), sev) = dd \o t
    BY <1>1, <2>2, PrefixIs, ZenonT(60)
  <2>4. TrimPrefix(dd \o t, dd) = t
    BY <1>1, PrefixIs
  <2> QED BY <1>4, <2>1, <2>3, <2>4, ZenonT(60) DEF sev, dd, cr
<1>6. CASE ~x.prefix
  <2>1. TextWith(x, t) = t
    BY <1>3, <1>6, CatEmpty
  <2> QED BY <1>4, <2>1, ZenonT(60) DEF sev, dd, cr
<1> QED BY <1>5, <1>6

\* Behind a tag there is a bracket or a colon.
LEMMA BehindTag ==
    ASSUME NEW x, IsLegacy(x), NEW t \in Str
    PROVE  /\ Pid(x) \o (Colon \o t) \in Str /\ Len(Pid(x) \o (Colon \o t)) >= 1
           /\ (Pid(x) \o (Colon \o t))[1] \in {"[", ":"}
<1> DEFINE z == Colon \o t
           y == Pid(x) \o z
           open == <<"[">>
           q == x.procid \o <<"]">>
<1>1. Colon \in Str /\ Len(Colon) = 2 /\ Colon[1] = ":"
  <2>1. ":" \in Byte /\ " " \in Byte
    BY Bytes
  <2> QED BY <2>1, TwoBytes, Zenon DEF Colon
<1>2. open \in Str /\ Len(open) = 1 /\ open[1] = "["
  BY Bytes, OneByte
<1>3. q \in Str
  BY LegacyParts, CatIs, Zenon
<1>4. Pid(x) = IF x.procid = <<>> THEN <<>> ELSE open \o q
  BY DEF Pid
<1> HIDE DEF open, q
<1>5. z \in Str /\ Len(z) >= 1 /\ z[1] = ":"
  <2>1. /\ z \in Str /\ Len(z) = Len(Colon) + Len(t) /\ Len(t) \in Nat
        /\ \A i \in 1..Len(Colon) : z[i] = Colon[i]
    BY <1>1, CatIs
  <2> HIDE DEF z
  <2> QED BY <1>1, <2>1
<1> HIDE DEF z
<1>6. CASE x.procid = <<>>
  <2>1. y = z
    BY <1>4, <1>5, <1>6, CatEmpty
  <2> HIDE DEF y
  <2>2. y \in Str /\ Len(y) >= 1 /\ y[1] \in {"[", ":"}
    BY <1>5, <2>1
  <2> QED BY <2>2 DEF y, z
<1>7. CASE x.procid # <<>>
  <2>1. y = (open \o q) \o z
    BY <1>4, <1>7
  <2> DEFINE p == open \o q
  <2>2. p \in Str /\ Len(p) >= 1 /\ p[1] = "["
    <3>1. /\ p \in Str /\ Len(p) = Len(open) + Len(q) /\ Len(q) \in Nat
          /\ \A i \in 1..Len(open) : p[i] = open[i]
      BY <1>2, <1>3, CatIs
    <3> HIDE DEF p
    <3> QED BY <1>2, <3>1
  <2> HIDE DEF p
  <2>3. /\ p \o z \in Str /\ Len(p \o z) = Len(p) + Len(z) /\ Len(p) \in Nat /\ Len(z) \in Nat
        /\ \A i \in 1..Len(p) : (p \o z)[i] = p[i]
    BY <1>5, <2>2, CatIs
  <2>4. y = p \o z
    BY <2>1 DEF p
  <2> HIDE DEF y
  <2>5. y \in Str /\ Len(y) >= 1 /\ y[1] \in {"[", ":"}
    BY <2>2, <2>3, <2>4
  <2> QED BY <2>5 DEF y, z
<1> QED BY <1>6, <1>7

\* The version's and the time's bytes.
VersionPrefix == <<"1", " ">>
StampPrefix == <<"T", " ">>

\* A legacy message is not taken for one of RFC 5424, and its time is trimmed.
LEMMA InFront ==
    ASSUME NEW x, IsLegacy(x), NEW t \in Str
    PROVE  LET b == x.app \o (Pid(x) \o (Colon \o t))
               u == (IF x.stamp THEN StampPrefix ELSE <<>>) \o b
           IN  ~IsPrefix(VersionPrefix, u) /\ TrimPrefix(u, StampPrefix) = b
<1> DEFINE y == Pid(x) \o (Colon \o t)
           b == x.app \o y
           u == (IF x.stamp THEN StampPrefix ELSE <<>>) \o b
<1>1. y \in Str /\ Len(y) >= 1 /\ y[1] \in {"[", ":"}
  BY BehindTag
<1>2. x.app \in Seq(TagByte) /\ x.app \in Str
  BY LegacyParts DEF IsLegacy
<1> HIDE DEF y
<1>3. b \in Str
  BY <1>1, <1>2, CatIs
<1>4. /\ "1" \in Byte /\ "T" \in Byte /\ " " \in Byte /\ " " \notin TagByte
      /\ y[1] # "1" /\ y[1] # "T" /\ y[1] # " "
  BY <1>1, Bytes, Zenon
<1>5. ~IsPrefix(VersionPrefix, b) /\ TrimPrefix(b, StampPrefix) = b
  BY <1>1, <1>2, <1>4, NotInFront, Zenon DEF VersionPrefix, StampPrefix
<1> HIDE DEF b
<1>6. CASE x.stamp
  <2>1. u = StampPrefix \o b
    BY <1>6
  <2>2. /\ StampPrefix \in Str /\ Len(StampPrefix) = 2 /\ StampPrefix[1] = "T"
        /\ VersionPrefix \in Str /\ Len(VersionPrefix) = 2 /\ VersionPrefix[1] = "1"
    BY <1>4, TwoBytes, Zenon DEF StampPrefix, VersionPrefix
  <2>3. TrimPrefix(StampPrefix \o b, StampPrefix) = b
    BY <1>3, <2>2, PrefixIs
  <2> HIDE DEF u
  <2>4. u \in Str /\ \A i \in 1..Len(StampPrefix) : u[i] = StampPrefix[i]
    BY <1>3, <2>1, <2>2, CatIs, ZenonT(60)
  <2>5. 1 \in 1..Len(VersionPrefix) /\ u[1] # VersionPrefix[1]
    <3>1. 1 \in 1..2
      OBVIOUS
    <3>2. u[1] = "T"
      BY <2>2, <2>4, <3>1
    <3> QED BY <2>2, <3>1, <3>2
  <2>6. ~IsPrefix(VersionPrefix, u)
    BY <2>2, <2>4, <2>5, NoPrefix, Zenon
  <2> QED BY <2>1, <2>3, <2>6, Zenon DEF u, b, y
<1>7. CASE ~x.stamp
  <2>1. u = b
    BY <1>3, <1>7, CatEmpty
  <2> QED BY <1>5, <2>1, Zenon DEF u, b, y
<1> QED BY <1>6, <1>7

\* The severity survives the wrapping of the priority.
LEMMA SeverityOfByte ==
    ASSUME NEW n \in 0..999
    PROVE  /\ (n % 256) % 8 = n % 8
           /\ n <= 191 => (n % 256) \div 8 = n \div 8
<1>1. n % 256 = n \/ n % 256 = n - 256 \/ n % 256 = n - 512 \/ n % 256 = n - 768
  OBVIOUS
<1>2. n % 256 \in 0..255
  OBVIOUS
<1>3. (n % 256) % 8 = n % 8
  BY <1>1, <1>2
<1>4. n <= 191 => n % 256 = n
  OBVIOUS
<1> QED BY <1>3, <1>4

\* The legacy format.
LEMMA LegacyUnderstood ==
    ASSUME NEW x, x.pri \in 0..999, IsLegacy(x), NEW t \in Str, \A p \in Trimmed(x) : ~IsPrefix(p, t)
    PROVE  Logged(Rest(Start(x.pri, LegacyWith(x, t))), x.pri, <<>>, x.app, x.procid, <<>>, t)
<1> DEFINE text == TextWith(x, t)
           b == x.app \o (Pid(x) \o (Colon \o text))
           u == (IF x.stamp THEN StampPrefix ELSE <<>>) \o b
           f == Start(x.pri, u)
           stamped == [f EXCEPT !.ok = TRUE, !.hostname = Nil, !.msg = b]
           procid == IF x.procid = <<>> THEN Nil ELSE x.procid
           tagged == [stamped EXCEPT !.app = x.app, !.procid = procid, !.msg = text]
           sev == SeverityPrefix(x)
           m1 == TrimPrefix(text, sev)
           m2 == TrimPrefix(m1, <<"D">>)
           m3 == TrimPrefix(m2, <<"CR">>)
<1>1. LegacyWith(x, t) = u
  BY Zenon DEF LegacyWith, StampPrefix, Colon
<1>2. text \in Str
  <2> DEFINE p == IF x.prefix THEN SeverityPrefix(x) \o <<"D">> ELSE <<>>
  <2>1. p \in Str
    BY SeverityPrefixIs, CatEmpty, Zenon
  <2>2. text = p \o t
    BY DEF TextWith
  <2> HIDE DEF p, text
  <2> QED BY <2>1, <2>2, CatIs
<1>3. m3 = t
  BY TextUnderstood
<1> HIDE DEF text
<1>4. ~IsPrefix(VersionPrefix, u) /\ TrimPrefix(u, StampPrefix) = b
  BY <1>2, InFront, Zenon
<1> HIDE DEF u
<1>5. /\ DOMAIN f = Field /\ f.ok = TRUE /\ f.panic = FALSE /\ f.priority = x.pri % 256
      /\ f.msg = u /\ f.procid = Nil /\ f.msgid = Nil
  BY DEF Start, Blank, Field
<1> HIDE DEF f
<1>6. ParseVersion(f) = [f EXCEPT !.ok = FALSE]
  BY <1>4, <1>5, ZenonT(60) DEF ParseVersion, VersionPrefix
<1>7. Rest(f) = ParseLegacyHeader(f)
  <2>1. ~ParseVersion(f).ok
    BY <1>5, <1>6 DEF Field
  <2> QED BY <1>5, <2>1 DEF Rest
<1>8. ParseLegacyHeader(f) =
        TrimCarriageReturns(TrimTimePrefix(TrimSeverityPrefix(ParseLegacyTag(stamped))))
  BY <1>4, <1>5, ZenonT(60) DEF ParseLegacyHeader, StampPrefix
<1>9. /\ DOMAIN stamped = Field /\ stamped.procid = Nil /\ stamped.msg = b
      /\ stamped.ok = TRUE /\ stamped.panic = FALSE /\ stamped.priority = x.pri % 256
      /\ stamped.hostname = Nil /\ stamped.msgid = Nil
  BY <1>5, ZenonT(60) DEF Field
<1> HIDE DEF stamped
<1>10. ParseLegacyTag(stamped) = tagged
  <2>1. ParseLegacyTag(stamped) =
          [stamped EXCEPT !.app = x.app, !.procid = IF x.procid = <<>> THEN Nil ELSE x.procid,
                          !.msg = text]
    <3>1. IsLegacy(x)
      OBVIOUS
    <3>2. DOMAIN stamped = Field /\ stamped.procid = Nil /\ stamped.msg = b
      BY <1>9
    <3> QED BY ONLY <1>2, <3>1, <3>2, TagUnderstood, Zenon
  <2> QED BY <2>1, ZenonT(60)
<1>11. /\ DOMAIN tagged = Field /\ tagged.procid = procid /\ tagged.msg = text
       /\ tagged.ok = TRUE /\ tagged.panic = FALSE /\ tagged.priority = x.pri % 256
       /\ tagged.hostname = Nil /\ tagged.msgid = Nil /\ tagged.app = x.app
  BY <1>9 DEF Field
<1> HIDE DEF tagged, procid
<1>12. Severity(tagged) = x.pri % 8
  BY <1>11, SeverityOfByte, SMTT(30) DEF Severity
<1>13. TrimSeverityPrefix(tagged) = [tagged EXCEPT !.msg = m1]
  BY <1>11, <1>12, ZenonT(60) DEF TrimSeverityPrefix, SeverityPrefix
<1> DEFINE t1 == [tagged EXCEPT !.msg = m1]
           t2 == [tagged EXCEPT !.msg = m2]
           t3 == [tagged EXCEPT !.msg = m3]
<1> HIDE DEF m1
<1>14. TrimTimePrefix(t1) = t2
  <2>1. t1.msg = m1
    BY <1>11 DEF Field
  <2>2. TrimTimePrefix(t1) = [t1 EXCEPT !.msg = m2]
    BY <2>1, Zenon DEF TrimTimePrefix
  <2> HIDE DEF m2
  <2> QED BY <1>11, <2>2, ZenonT(60) DEF Field
<1> HIDE DEF m2
<1>15. TrimCarriageReturns(t2) = t3
  <2>1. t2.msg = m2
    BY <1>11 DEF Field
  <2>2. TrimCarriageReturns(t2) = [t2 EXCEPT !.msg = m3]
    BY <2>1, ZenonT(60) DEF TrimCarriageReturns
  <2> HIDE DEF m3
  <2> QED BY <1>11, <2>2, ZenonT(60) DEF Field
<1> HIDE DEF m3
<1>16. Rest(f) = t3
  BY <1>7, <1>8, <1>10, <1>13, <1>14, <1>15, ZenonT(60)
<1>17. Logged(t3, x.pri, <<>>, x.app, x.procid, <<>>, t)
  <2>1. /\ t3.ok = TRUE /\ t3.panic = FALSE /\ t3.priority = x.pri % 256 /\ t3.hostname = Nil
        /\ t3.app = x.app /\ t3.procid = procid /\ t3.msgid = Nil /\ t3.msg = t
    BY <1>3, <1>11 DEF Field
  <2> HIDE DEF t3
  <2>2. x.app # Nil /\ x.procid # Nil /\ t # Nil
    <3>1. x.app \in Str /\ x.procid \in Str
      BY LegacyParts, ZenonT(60)
    <3> QED BY <3>1, NilAssumption DEF Str
  <2>3. NilToEmpty(procid) = x.procid
    BY <2>2 DEF NilToEmpty, procid
  <2> QED BY <2>1, <2>2, <2>3 DEF Logged, NilToEmpty
<1> QED BY <1>1, <1>16, <1>17, Zenon DEF f

\* A message of either format, with any text.
HostnameOf(x) == IF x.format = "rfc5424" THEN x.hostname ELSE <<>>
MsgidOf(x) == IF x.format = "rfc5424" THEN x.msgid ELSE <<>>

\* Both formats are read as they were printed.
LEMMA BodyUnderstood ==
    ASSUME NEW x \in Formatted, NEW t \in Str, IsLegacy(x) => \A p \in Trimmed(x) : ~IsPrefix(p, t)
    PROVE  Logged(Rest(Start(x.pri, BodyWith(x, t))), x.pri,
                  HostnameOf(x), x.app, x.procid, MsgidOf(x), t)
<1>1. CASE IsRFC5424(x)
  <2>1. /\ BodyWith(x, t) = RFC5424With(x, t) /\ HostnameOf(x) = x.hostname
        /\ MsgidOf(x) = x.msgid
    BY <1>1 DEF BodyWith, HostnameOf, MsgidOf, IsRFC5424
  <2>2. Logged(Rest(Start(x.pri, RFC5424With(x, t))), x.pri,
               x.hostname, x.app, x.procid, x.msgid, t)
    BY <1>1, RFC5424Understood, Zenon
  <2> QED BY <2>1, <2>2, Zenon
<1>2. CASE IsLegacy(x)
  <2>1. BodyWith(x, t) = LegacyWith(x, t) /\ HostnameOf(x) = <<>> /\ MsgidOf(x) = <<>>
    BY <1>2 DEF BodyWith, HostnameOf, MsgidOf, IsLegacy
  <2>2. x.pri \in 0..999
    BY FormattedIs
  <2>3. Logged(Rest(Start(x.pri, LegacyWith(x, t))), x.pri, <<>>, x.app, x.procid, <<>>, t)
    BY <1>2, <2>2, LegacyUnderstood
  <2> QED BY <2>1, <2>3, Zenon
<1> QED BY <1>1, <1>2, FormattedIs

\* A text that is cut starts with nothing that the whole does not start with.
LEMMA CutPrefix ==
    ASSUME NEW s \in Str, NEW n \in Nat, n <= Len(s), NEW q \in Str, IsPrefix(q, SubSeq(s, 1, n))
    PROVE  IsPrefix(q, s)
<1> DEFINE c == SubSeq(s, 1, n)
           l == Len(q)
           k == Len(s)
<1>1. l \in Nat /\ k \in Nat /\ n <= k
  BY LenProperties DEF Str
<1>2. l <= Len(c) /\ SubSeq(q, 1, l) = SubSeq(c, 1, l)
  BY DEF IsPrefix
<1>3. /\ Len(c) = IF 1 <= n THEN n - 1 + 1 ELSE 0
      /\ \A i \in 1..(n - 1 + 1) : c[i] = s[1 + i - 1]
  BY SliceLen
<1> HIDE DEF c, l, k
<1>4. l <= n /\ l <= k
  BY <1>1, <1>2, <1>3
<1>5. ASSUME NEW i \in 1..l PROVE c[i] = s[i]
  <2>1. i \in 1..(n - 1 + 1) /\ 1 + i - 1 = i
    BY <1>1, <1>4
  <2> QED BY <1>3, <2>1
<1>6. SubSeq(c, 1, l) = SubSeq(s, 1, l)
  BY <1>1, <1>5, SameSlice
<1> QED BY <1>2, <1>4, <1>6 DEF IsPrefix, l, k

\* As much of the text of a message as there is room for.
CutText(x) == SubSeq(x.text, 1, Len(x.text) - (Len(PrintMessage(x)) - Kept(PrintMessage(x))))

\* A message that is cut when it is read is one with a shorter text.
LEMMA CutIs ==
    ASSUME NEW x \in Formatted
    PROVE  /\ CutText(x) \in Str
           /\ Kept(PrintMessage(x)) = Len(Pri(x.pri, BodyWith(x, CutText(x))))
           /\ \A i \in 1..Kept(PrintMessage(x)) :
                Pri(x.pri, BodyWith(x, CutText(x)))[i] = Filled(ZeroBuf, PrintMessage(x))[i]
           /\ IsLegacy(x) => \A p \in Trimmed(x) : ~IsPrefix(p, CutText(x))
<1> DEFINE d == PrintMessage(x)
           h == HeadOf(x)
           t == x.text
           H == Len(h)
           T == Len(t)
           n == Kept(d)
           k == T - (Len(d) - n)
           c == SubSeq(t, 1, k)
           p == Pri(x.pri, BodyWith(x, c))
<1>1. t \in Str /\ h \in Str /\ d = h \o t
  <2>1. t \in Str /\ d = Pri(x.pri, BodyWith(x, t))
    BY FormattedIs
  <2> HIDE DEF t, d
  <2>2. h \in Str /\ Pri(x.pri, BodyWith(x, t)) = h \o t
    BY <2>1, PrintedIs
  <2> QED BY <2>1, <2>2, Zenon
<1>2. H \in Nat /\ T \in Nat /\ Len(d) = H + T
  <2> HIDE DEF d, h, t
  <2> QED BY <1>1, CatIs
<1>3. Len(d) - T <= BufLen /\ n = IF Len(d) > BufLen THEN BufLen ELSE Len(d)
  BY FormattedIs DEF Kept
<1>4. d \in Datagrams
  BY DEF Datagrams
<1> HIDE DEF H, T, n, d, h, t
<1>5. k \in Nat /\ k <= T /\ n = H + k
  <2> DEFINE D == Len(d)
  <2>1. D = H + T /\ D - T <= BufLen /\ n = IF D > BufLen THEN BufLen ELSE D
    BY <1>2, <1>3
  <2> HIDE DEF D
  <2>2. T - (D - n) \in Nat /\ T - (D - n) <= T /\ n = H + (T - (D - n))
    BY <1>2, <2>1, BufLenAssumption
  <2> QED BY <2>2 DEF D
<1> HIDE DEF k
<1>6. c \in Str
  <2>1. k \in Int /\ 1 \in Nat \ {0} /\ k <= Len(t)
    BY <1>5 DEF T
  <2> QED BY <1>1, <2>1, SliceIs
<1>7. SubSeq(d, 1, n) = h \o c
  <2>1. SubSeq(h \o t, 1, Len(h) + k) = h \o SubSeq(t, 1, k)
    <3>1. k <= Len(t)
      BY <1>5 DEF T
    <3> QED BY <1>1, <1>5, <3>1, TakeCat
  <2> QED BY <1>1, <1>5, <2>1 DEF H
<1>8. p = h \o c
  <2> HIDE DEF c
  <2> QED BY <1>6, PrintedIs DEF h
<1>9. CutText(x) = c
  BY DEF CutText, c, k, n, d, t, T
<1> HIDE DEF c, p
<1>10. n \in Nat /\ Len(p) = n
  <2>1. Len(c) = k
    <3>1. Len(c) = IF 1 <= k THEN k - 1 + 1 ELSE 0
      <4>1. k \in Int /\ 1 \in Int
        BY <1>5
      <4> QED BY <4>1, SliceLen DEF c
    <3> QED BY <1>5, <3>1
  <2>2. Len(p) = Len(h) + Len(c)
    BY <1>1, <1>6, <1>8, CatIs
  <2> QED BY <1>2, <1>5, <2>1, <2>2 DEF H
<1>11. ASSUME NEW i \in 1..n PROVE p[i] = Filled(ZeroBuf, d)[i]
  <2>1. Filled(ZeroBuf, d)[i] = d[i]
    BY <1>4, FilledIs DEF n
  <2>2. \A j \in 1..(n - 1 + 1) : SubSeq(d, 1, n)[j] = d[1 + j - 1]
    <3>1. n \in Int /\ 1 \in Int
      BY <1>10
    <3> QED BY <3>1, SliceLen
  <2>3. i \in 1..(n - 1 + 1) /\ 1 + i - 1 = i
    BY <1>10
  <2>4. SubSeq(d, 1, n)[i] = d[i]
    BY <2>2, <2>3
  <2> QED BY <1>7, <1>8, <2>1, <2>4
<1>12. ASSUME IsLegacy(x), NEW q \in Trimmed(x), IsPrefix(q, c) PROVE FALSE
  <2>1. q \in Str
    <3>1. <<"D">> \in Str /\ <<"CR">> \in Str
      BY <1>12, LegacyParts
    <3>2. SeverityPrefix(x) \in Str
      BY FormattedIs, SeverityPrefixIs
    <3> QED BY <3>1, <3>2, Zenon DEF Trimmed
  <2>2. ~IsPrefix(q, x.text)
    BY <1>12 DEF IsLegacy
  <2>3. k \in Nat /\ k <= Len(t)
    BY <1>5 DEF T
  <2>4. IsPrefix(q, t)
    BY <1>1, <1>12, <2>1, <2>3, CutPrefix DEF c
  <2> QED BY <2>2, <2>4 DEF t
<1>13. IsLegacy(x) => \A q \in Trimmed(x) : ~IsPrefix(q, c)
  BY <1>12
<1> QED BY <1>6, <1>9, <1>10, <1>11, <1>13, Zenon DEF p, n, d

\* What is logged for a printed message.
EntryFor(x) ==
    [how |-> "structured", verbose |-> x.pri % 8 = 7,
     facility |-> (x.pri % 256) \div 8, severity |-> x.pri % 8, hostname |-> HostnameOf(x),
     app |-> x.app, procid |-> x.procid, msgid |-> MsgidOf(x), text |-> LoggedText(CutText(x))]

\* A fresh message logs a printed one with its fields.
LEMMA MessageUnderstood ==
    ASSUME NEW x \in Formatted
    PROVE  FreshEntry(PrintMessage(x)) = EntryFor(x)
<1> DEFINE d == PrintMessage(x)
           z == Filled(ZeroBuf, d)
           n == Kept(d)
           c == CutText(x)
           body == BodyWith(x, c)
           p == Pri(x.pri, body)
           g == Rest(Start(x.pri, body))
<1>1. /\ c \in Str /\ n = Len(p) /\ \A i \in 1..n : p[i] = z[i]
      /\ IsLegacy(x) => \A q \in Trimmed(x) : ~IsPrefix(q, c)
  BY CutIs
<1>2. x.pri \in 0..999
  BY FormattedIs
<1>3. Logged(g, x.pri, HostnameOf(x), x.app, x.procid, MsgidOf(x), c)
  <2> HIDE DEF c
  <2> QED BY <1>1, BodyUnderstood
<1>4. FreshEntry(d) = EntryOf(z, n, Parse(z, n, Blank))
  BY DEF FreshEntry
<1>5. body \in Str
  <2> HIDE DEF c
  <2> QED BY <1>1, PrintedIs
<1> HIDE DEF d, z, c, body
<1>6. /\ p \in Str /\ Len(p) >= 3 /\ p[1] = "<"
      /\ \E i \in 2..5 : i <= Len(p) /\ p[i] \notin Digit
      /\ ParsePriority(p, Len(p), Blank) = Start(x.pri, body)
  BY <1>2, <1>5, PriorityOfPrinted, ZenonT(60) DEF Start
<1> HIDE DEF p
<1>7. Len(p) \in Nat
  BY <1>6, LenProperties DEF Str
<1> HIDE DEF n
<1>8. ParsePriority(z, n, Blank) = ParsePriority(p, n, Blank)
  <2>1. n \in Nat /\ \A i \in 1..n : p[i] = z[i]
    BY <1>1, <1>7
  <2>2. n < 3 \/ p[1] # "<" \/ n >= 5 \/ \E i \in 2..5 : i <= n /\ p[i] \notin Digit
    BY <1>1, <1>6
  <2>3. ParsePriority(p, n, Blank) = ParsePriority(z, n, Blank)
    BY ONLY <2>1, <2>2, PriorityAlone, ZenonT(60)
  <2> QED BY <2>3
<1>9. Parse(z, n, Blank) = g
  BY <1>1, <1>6, <1>8, ParseIs
<1> HIDE DEF g
<1>10. EntryOf(z, n, g) = Structured(g)
  BY <1>3 DEF EntryOf, Logged
<1>11. Severity(g) = x.pri % 8 /\ Facility(g) = (x.pri % 256) \div 8
  BY <1>2, <1>3, SeverityOfByte, ZenonT(60) DEF Severity, Facility, Logged
<1>12. Structured(g) = EntryFor(x)
  BY <1>3, <1>11 DEF Structured, EntryFor, Logged, c
<1> QED BY <1>4, <1>9, <1>10, <1>12 DEF d

\* A message that was printed in either format, with any number of up to three
\* digits, is logged with its severity, which decides the level: the byte in
\* which parsePriority keeps the number wraps, but not the severity.
THEOREM SeverityIsKept == Spec => []SeverityKept
<1>1. MessageInv => SeverityKept
  <2> SUFFICES ASSUME MessageInv, stage = "logged", NEW x \in Formatted, datagram = PrintMessage(x)
               PROVE  entry.severity = x.pri % 8 /\ entry.verbose = (x.pri % 8 = 7)
    BY DEF SeverityKept
  <2>1. entry = EntryFor(x)
    BY MessageUnderstood DEF MessageInv, DatagramAlone
  <2> QED BY <2>1 DEF EntryFor
<1> QED BY <1>1, MessageInvHolds, PTL

\* A message that was printed in either format with a priority that exists is
\* logged with the fields it was printed from, whatever the fields and the text
\* are and whatever the message's buffer held before; of a message that does not
\* fit in the buffer the end of the text is missing.
THEOREM PrintedIsUnderstood == Spec => []WellFormedUnderstood
<1>1. MessageInv => WellFormedUnderstood
  <2> SUFFICES ASSUME MessageInv, stage = "logged", NEW x \in Formatted, x.pri <= 191,
                      datagram = PrintMessage(x)
               PROVE  entry = Expected(x)
    BY DEF WellFormedUnderstood
  <2>1. entry = EntryFor(x)
    BY MessageUnderstood DEF MessageInv, DatagramAlone
  <2>2. (x.pri % 256) \div 8 = x.pri \div 8
    BY FormattedIs, SeverityOfByte, ZenonT(60)
  <2>3. EntryFor(x) = Expected(x)
    BY <2>2 DEF EntryFor, Expected, HostnameOf, MsgidOf, CutText
  <2> QED BY <2>1, <2>3
<1> QED BY <1>1, MessageInvHolds, PTL
=============================================================================
