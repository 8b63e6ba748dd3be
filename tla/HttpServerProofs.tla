-------------------------- MODULE HttpServerProofs --------------------------
(***************************************************************************)
(* The ISO that a client gets and the address it is known by, for every    *)
(* image, magic string, patch, trusted subnet and way the source is read.  *)
(***************************************************************************)
EXTENDS HttpServer, SequenceTheorems, WellFoundedInduction, TLAPS

-----------------------------------------------------------------------------
(* Lemmas on the operators. *)

\* A set of numbers that is not empty has a least element.
LEMMA Least ==
    ASSUME NEW S, S \subseteq Nat, S # {}
    PROVE  \E x \in S : \A y \in S : x <= y
<1> DEFINE R == {ss \in Nat \X Nat : ss[1] < ss[2]}
<1>1. IsWellFoundedOn(R, Nat)
  BY NatLessThanWellFounded DEF OpToRel
<1> HIDE DEF R
<1>2. PICK x \in S : \A y \in S : <<y, x>> \notin R
  BY <1>1, WFMin
<1>3. \A y \in S : ~(y < x)
  BY <1>2 DEF R
<1> QED BY <1>2, <1>3

\* So has a set of indices of a sequence a greatest one.
LEMMA Greatest ==
    ASSUME NEW n \in Nat, NEW S, S \subseteq 1..n, S # {}
    PROVE  \E x \in S : \A y \in S : x >= y
<1> DEFINE T == {n - x : x \in S}
<1>1. T \subseteq Nat /\ T # {}
  <2>1. \A x \in S : x \in 1..n /\ n - x \in Nat
    OBVIOUS
  <2> QED BY <2>1, Zenon
<1> HIDE DEF T
<1>2. PICK t \in T : \A y \in T : t <= y
  BY <1>1, Least
<1>3. PICK x \in S : t = n - x
  BY <1>2 DEF T
<1>4. \A y \in S : n - x <= n - y
  BY <1>2, <1>3 DEF T
<1> QED BY <1>4

\* What parse returns is an address, or "".
LEMMA ParseXffType ==
    ASSUME NEW h, Len(h) \in Nat \ {0}
    PROVE  ParseXff(h) \in Addr \cup {""}
<1>1. CASE Stops(h) = {}
  <2>1. 1 \in 1..Len(h)
    OBVIOUS
  <2> QED BY <1>1, <2>1, TrustedAssumption DEF ParseXff, Stops, Allowed
<1>2. CASE Stops(h) # {}
  <2> DEFINE last == CHOOSE i \in Stops(h) : \A j \in Stops(h) : i >= j
  <2>1. \E i \in Stops(h) : \A j \in Stops(h) : i >= j
    BY <1>2, Greatest DEF Stops
  <2>2. last \in Stops(h) /\ \A j \in Stops(h) : last >= j
    BY <2>1
  <2>3. ParseXff(h) = IF h[last] \in Addr THEN h[last]
                      ELSE IF last < Len(h) THEN h[last + 1] ELSE ""
    BY <1>2 DEF ParseXff
  <2> HIDE DEF last
  <2>4. last < Len(h) => h[last + 1] \in Addr
    BY <2>2, TrustedAssumption DEF Stops, Allowed
  <2> QED BY <2>3, <2>4
<1> QED BY <1>1, <1>2

\* The header that arrives: what the client sent, then the client, then the
\* proxies but for the last.
LEMMA HeaderIs ==
    ASSUME NEW q \in Requests, q.via # <<>>
    PROVE  LET h == HeaderOf(q.client, q.sent, q.via)
           IN  /\ Len(h) = Len(q.sent) + Len(q.via) /\ Len(q.sent) \in Nat /\ Len(q.via) \in Nat \ {0}
               /\ h[Len(q.sent) + 1] = q.client
               /\ \A i \in 1..(Len(q.via) - 1) : h[Len(q.sent) + 1 + i] = q.via[i]
<1> DEFINE s == q.sent  v == q.via  n == Len(v) - 1  S == Range(s) \cup Addr
           t == SubSeq(v, 1, n)
<1>1. s \in Seq(S) /\ <<q.client>> \in Seq(S) /\ v \in Seq(Addr)
  BY RequestAssumption
<1>2. Len(v) \in Nat \ {0}
  BY <1>1, EmptySeq
<1>3. n \in Nat /\ \A i \in 1..n : v[i] \in S
  BY <1>1, <1>2
<1>4. t \in Seq(S) /\ Len(t) = n /\ \A i \in 1..n : t[i] = v[i]
  BY <1>3, SubSeqProperties
<1>5. HeaderOf(q.client, q.sent, q.via) = (s \o <<q.client>>) \o t
  BY DEF HeaderOf
<1> HIDE DEF s, v, n, S, t
<1>6. /\ s \o <<q.client>> \in Seq(S) /\ Len(s \o <<q.client>>) = Len(s) + 1
      /\ (s \o <<q.client>>)[Len(s) + 1] = q.client
  BY <1>1
<1>7. /\ Len((s \o <<q.client>>) \o t) = Len(s) + 1 + n
      /\ ((s \o <<q.client>>) \o t)[Len(s) + 1] = q.client
      /\ \A i \in 1..n : ((s \o <<q.client>>) \o t)[Len(s) + 1 + i] = t[i]
  <2> DEFINE u == s \o <<q.client>>
  <2> HIDE DEF u
  <2>1. u \in Seq(S) /\ Len(u) = Len(s) + 1 /\ u[Len(s) + 1] = q.client /\ Len(s) \in Nat
    BY <1>1, <1>6 DEF u
  <2>2. /\ Len(u \o t) = Len(u) + Len(t)
        /\ \A i \in 1..(Len(u) + Len(t)) : (u \o t)[i] = IF i <= Len(u) THEN u[i] ELSE t[i - Len(u)]
    BY <2>1, <1>4, ConcatProperties
  <2>3. (u \o t)[Len(s) + 1] = q.client
    BY <2>1, <2>2, <1>3, <1>4
  <2>4. ASSUME NEW i \in 1..n PROVE (u \o t)[Len(s) + 1 + i] = t[i]
    <3>1. Len(s) + 1 + i \in 1..(Len(u) + Len(t)) /\ ~(Len(s) + 1 + i <= Len(u)) /\ Len(s) + 1 + i - Len(u) = i
      BY <2>1, <1>3, <1>4
    <3> QED BY <2>2, <3>1
  <2> QED BY <2>1, <2>2, <2>3, <2>4, <1>4 DEF u
<1>8. Len(s) \in Nat /\ Len(s) + 1 + n = Len(s) + Len(v) /\ n = Len(v) - 1
  BY <1>1, <1>2 DEF n
<1>9. \A i \in 1..n : ((s \o <<q.client>>) \o t)[Len(s) + 1 + i] = v[i]
  BY <1>4, <1>7
<1> QED BY <1>2, <1>5, <1>7, <1>8, <1>9 DEF s, v

\* The address that the handlers see is one.
LEMMA RemoteAddrType ==
    ASSUME NEW q \in Requests
    PROVE  RemoteAddr(PeerOf(q.client, q.via), HeaderOf(q.client, q.sent, q.via)) \in Addr
<1> DEFINE p == PeerOf(q.client, q.via)  h == HeaderOf(q.client, q.sent, q.via)
<1>1. p \in Addr
  BY RequestAssumption, EmptySeq DEF PeerOf
<1>2. h # <<>> => Len(h) \in Nat \ {0}
  <2>1. CASE q.via = <<>>
    BY <2>1, RequestAssumption, EmptySeq DEF HeaderOf
  <2>2. CASE q.via # <<>>
    BY <2>2, HeaderIs
  <2> QED BY <2>1, <2>2
<1> HIDE DEF p, h
<1>3. h # <<>> => ParseXff(h) \in Addr \cup {""}
  BY <1>2, ParseXffType
<1> QED BY <1>1, <1>3 DEF RemoteAddr, p, h

\* A client outside the trusted subnets, behind trusted proxies, is known by its
\* own address: it is the last entry at which parse can stop.
LEMMA RemoteAddrIsClient ==
    ASSUME NEW q \in Requests, ~Allowed(q.client), \A i \in 1..Len(q.via) : Allowed(q.via[i])
    PROVE  RemoteAddr(PeerOf(q.client, q.via), HeaderOf(q.client, q.sent, q.via)) = q.client
<1>1. CASE q.via = <<>>
  BY <1>1 DEF RemoteAddr, PeerOf
<1>2. CASE q.via # <<>>
  <2> DEFINE h == HeaderOf(q.client, q.sent, q.via)  k == Len(q.sent) + 1  m == Len(q.via)
  <2>0. /\ Len(h) = Len(q.sent) + m /\ Len(q.sent) \in Nat /\ m \in Nat \ {0}
        /\ h[k] = q.client
        /\ \A i \in 1..(m - 1) : h[k + i] = q.via[i]
    BY <1>2, HeaderIs
  <2>1. /\ k \in Nat \ {0} /\ m \in Nat \ {0} /\ Len(h) = k + m - 1
        /\ h[k] = q.client
        /\ \A i \in 1..(m - 1) : h[k + i] = q.via[i]
    <3> DEFINE a == Len(q.sent)
    <3>1. a \in Nat /\ m \in Nat \ {0} /\ Len(h) = a + m /\ k = a + 1
      BY <2>0
    <3> HIDE DEF a, m, h, k
    <3>2. k \in Nat \ {0} /\ Len(h) = k + m - 1
      BY <3>1
    <3> QED BY <2>0, <3>1, <3>2
  <2>a. \A i \in 1..m : Allowed(q.via[i])
    OBVIOUS
  <2> HIDE DEF h, k, m
  <2>2. k \in Stops(h)
    BY <2>1 DEF Stops
  <2>3. ASSUME NEW j \in Stops(h) PROVE k >= j
    <3> SUFFICES ASSUME j > k PROVE FALSE
      BY <2>1 DEF Stops
    <3>1. j - k \in 1..(m - 1) /\ j - k \in 1..m /\ j = k + (j - k)
      BY <2>1 DEF Stops
    <3>2. h[j] = q.via[j - k]
      BY <2>1, <3>1
    <3> QED BY <2>a, <3>1, <3>2 DEF Stops
  <2> DEFINE last == CHOOSE i \in Stops(h) : \A j \in Stops(h) : i >= j
  <2>4. last \in Stops(h) /\ \A j \in Stops(h) : last >= j
    BY <2>2, <2>3
  <2>5. last = k
    <3> HIDE DEF last
    <3> QED BY <2>1, <2>2, <2>3, <2>4 DEF Stops
  <2>6. ParseXff(h) = q.client
    <3>1. ParseXff(h) = IF h[last] \in Addr THEN h[last]
                        ELSE IF last < Len(h) THEN h[last + 1] ELSE ""
      BY <2>2 DEF ParseXff
    <3> HIDE DEF last
    <3> QED BY <2>1, <2>5, <3>1, RequestAssumption
  <2>7. q.client # ""
    BY RequestAssumption, AddrAssumption
  <2>8. Allowed(PeerOf(q.client, q.via))
    BY <1>2, <2>1, <2>a DEF PeerOf, m
  <2>9. h # <<>>
    <3>1. Len(h) # 0
      BY <2>1
    <3> QED BY <3>1
  <2> QED BY <2>6, <2>7, <2>8, <2>9 DEF RemoteAddr, h
<1> QED BY <1>1, <1>2

\* The patch over the blanked magic string, byte by byte.
LEMMA PaddedIs ==
    ASSUME NEW p \in Seq(Byte), NEW k \in 1..Len(Magic)
    PROVE  Padded(p)[k] = IF k <= Len(p) THEN p[k] ELSE " "
  BY MagicAssumption DEF Padded, CopyInto, Padding

\* It has the length of the magic string.
LEMMA PaddedType ==
    ASSUME NEW p \in Seq(Byte)
    PROVE  Padded(p) \in Seq(Byte) /\ Len(Padded(p)) = Len(Magic)
<1>1. Len(Padding) = Len(Magic) /\ Len(Magic) \in Nat /\ Len(p) \in Nat
  BY MagicAssumption DEF Padding
<1>2. ASSUME NEW k \in 1..Len(Magic) PROVE Padded(p)[k] \in Byte
  <2>1. " " \in Byte
    BY DEF Byte
  <2>2. k <= Len(p) => p[k] \in Byte
    BY <1>1
  <2> QED BY <2>1, <2>2, PaddedIs
<1>3. Padded(p) = [k \in 1..Len(Magic) |-> Padded(p)[k]]
  BY <1>1 DEF Padded, CopyInto
<1>4. Padded(p) \in [1..Len(Magic) -> Byte]
  BY <1>2, <1>3
<1> QED BY <1>1, <1>4

\* PatchChunk keeps the length, and writes the patch over the first occurrence
\* of the magic string alone.
LEMMA PatchChunkIs ==
    ASSUME NEW b \in Seq(Byte), NEW p \in Seq(Byte)
    PROVE  /\ PatchChunk(b, p) \in Seq(Byte) /\ Len(PatchChunk(b, p)) = Len(b)
           /\ Occurrences(b) = {} => PatchChunk(b, p) = b
           /\ Occurrences(b) # {} =>
                \E f \in Occurrences(b) :
                    /\ \A j \in Occurrences(b) : f <= j
                    /\ \A k \in 1..Len(Magic) : PatchChunk(b, p)[f + k - 1] = Padded(p)[k]
                    /\ Len(p) <= Len(Magic) =>
                        \A i \in 1..Len(b) : i \notin f..(f + Len(Magic) - 1) => PatchChunk(b, p)[i] = b[i]
<1>1. CASE Occurrences(b) = {}
  BY <1>1 DEF PatchChunk
<1>2. CASE Occurrences(b) # {}
  <2> DEFINE f == CHOOSE i \in Occurrences(b) : \A j \in Occurrences(b) : i <= j
             r == CopyInto(CopyInto(b, f, Padding), f, p)
  <2>1. Occurrences(b) \subseteq Nat
    BY MagicAssumption DEF Occurrences
  <2>2. f \in Occurrences(b) /\ \A j \in Occurrences(b) : f <= j
    BY <1>2, <2>1, Least
  <2>3. PatchChunk(b, p) = r
    BY <1>2 DEF PatchChunk
  <2> HIDE DEF f
  <2>4. f \in 1..(Len(b) + 1 - Len(Magic)) /\ Len(b) \in Nat /\ Len(p) \in Nat
    BY <2>2 DEF Occurrences
  <2>5. Len(Padding) = Len(Magic)
    BY MagicAssumption DEF Padding
  <2> DEFINE d == CopyInto(b, f, Padding)
  <2>6. d \in [1..Len(b) -> Byte]
    <3>1. ASSUME NEW i \in 1..Len(b)
          PROVE  (IF i \in f..(f + Len(Padding) - 1) THEN Padding[i - f + 1] ELSE b[i]) \in Byte
      <4>1. i \in f..(f + Len(Magic) - 1) => i - f + 1 \in 1..Len(Magic)
        BY <2>4, MagicAssumption
      <4>2. \A k \in 1..Len(Magic) : Padding[k] \in Byte
        BY DEF Padding, Byte
      <4> QED BY <2>5, <4>1, <4>2
    <3> QED BY <3>1 DEF CopyInto
  <2>7. \A i \in 1..Len(b) : d[i] = IF i \in f..(f + Len(Magic) - 1) THEN " " ELSE b[i]
    <3> SUFFICES ASSUME NEW i \in 1..Len(b)
                 PROVE  d[i] = IF i \in f..(f + Len(Magic) - 1) THEN " " ELSE b[i]
      OBVIOUS
    <3>1. d[i] = IF i \in f..(f + Len(Padding) - 1) THEN Padding[i - f + 1] ELSE b[i]
      BY DEF CopyInto
    <3>2. i \in f..(f + Len(Magic) - 1) => Padding[i - f + 1] = " "
      <4>1. i \in f..(f + Len(Magic) - 1) => i - f + 1 \in 1..Len(Magic)
        BY <2>4, MagicAssumption
      <4>2. \A k \in 1..Len(Magic) : Padding[k] = " "
        BY DEF Padding
      <4> QED BY <4>1, <4>2
    <3> QED BY <2>5, <3>1, <3>2
  <2>8. d \in Seq(Byte) /\ Len(d) = Len(b)
    BY <2>4, <2>6
  <2> HIDE DEF d
  <2>9. r = [i \in 1..Len(b) |-> IF i \in f..(f + Len(p) - 1) THEN p[i - f + 1] ELSE d[i]]
    BY <2>8 DEF CopyInto, d
  <2>10. r \in [1..Len(b) -> Byte]
    <3>1. ASSUME NEW i \in 1..Len(b)
          PROVE  (IF i \in f..(f + Len(p) - 1) THEN p[i - f + 1] ELSE d[i]) \in Byte
      BY <2>4, <2>6
    <3> QED BY <2>9, <3>1
  <2>11. r \in Seq(Byte) /\ Len(r) = Len(b)
    BY <2>4, <2>10
  <2>12. ASSUME NEW i \in 1..Len(b)
         PROVE  r[i] = IF i \in f..(f + Len(p) - 1) THEN p[i - f + 1]
                       ELSE IF i \in f..(f + Len(Magic) - 1) THEN " " ELSE b[i]
    BY <2>7, <2>9
  <2> HIDE DEF r
  <2>13. ASSUME NEW k \in 1..Len(Magic) PROVE r[f + k - 1] = Padded(p)[k]
    <3>1. f + k - 1 \in 1..Len(b) /\ f + k - 1 \in f..(f + Len(Magic) - 1)
      BY <2>4, MagicAssumption
    <3>2. (f + k - 1 \in f..(f + Len(p) - 1) <=> k <= Len(p)) /\ (f + k - 1) - f + 1 = k
      BY <2>4, MagicAssumption
    <3>3. r[f + k - 1] = IF k <= Len(p) THEN p[k] ELSE " "
      BY <2>12, <3>1, <3>2
    <3> QED BY <3>3, PaddedIs
  <2>14. ASSUME Len(p) <= Len(Magic), NEW i \in 1..Len(b), i \notin f..(f + Len(Magic) - 1)
         PROVE  r[i] = b[i]
    <3>1. i \notin f..(f + Len(p) - 1)
      BY <2>4, <2>14, MagicAssumption
    <3> QED BY <2>12, <2>14, <3>1
  <2> QED BY <1>2, <2>2, <2>3, <2>11, <2>13, <2>14
<1> QED BY <1>1, <1>2

\* The magic string occurs in a part of the image where it occurs in the image.
LEMMA OccurrencesShift ==
    ASSUME NEW x \in Nat \ {0}, NEW n \in Nat, x + n <= Len(Image) + 1, NEW f
    PROVE  f \in Occurrences(SubSeq(Image, x, x + n - 1)) <=>
               f \in 1..(n + 1 - Len(Magic)) /\ x + f - 1 \in Occurrences(Image)
<1> DEFINE b == SubSeq(Image, x, x + n - 1)  L == Len(Magic)
<1>1. Len(Image) \in Nat /\ L \in Nat \ {0}
  BY ImageAssumption, MagicAssumption
<1>2. \A i \in x..(x + n - 1) : Image[i] \in Range(Image)
  BY <1>1, ImageAssumption
<1>3. Len(b) = n
  BY <1>2, SubSeqProperties
<1>4. ASSUME f \in 1..(n + 1 - L)
      PROVE  SubSeq(b, f, f + L - 1) = SubSeq(Image, x + f - 1, x + f - 1 + L - 1)
  <2>1. /\ x \in 1..Len(Image) /\ x + n - 1 \in 1..Len(Image)
        /\ f \in 1..((x + n - 1) - x + 1) /\ f + L - 1 \in 1..((x + n - 1) - x + 1)
        /\ x + (f + L - 1) - 1 = x + f - 1 + L - 1
    BY <1>1, <1>4
  <2>2. SubSeq(b, f, f + L - 1) = SubSeq(Image, x + f - 1, x + (f + L - 1) - 1)
    BY <2>1, ImageAssumption, SubSeqOfSubSeq
  <2> QED BY <2>1, <2>2
<1>5. f \in 1..(n + 1 - L) => x + f - 1 \in 1..(Len(Image) + 1 - L)
  BY <1>1
<1> HIDE DEF b
<1> QED BY <1>1, <1>3, <1>4, <1>5 DEF Occurrences, b

\* Byte b may stand at x of the image that is patched with p.
Fits(b, x, p) ==
    \/ b = Image[x]
    \/ \E o \in Occurrences(Image) :
        x \in o..(o + Len(Magic) - 1) /\ b = Padded(p)[x - o + 1]

\* What Copy makes of a part of the image: every byte is the image's, or the one
\* that the patch has there; and the first magic string is patched.
LEMMA ChunkIs ==
    ASSUME NEW x \in Nat \ {0}, NEW n \in Nat, x + n <= Len(Image) + 1, NEW p \in Seq(Byte)
    PROVE  LET r == PatchChunk(SubSeq(Image, x, x + n - 1), p)
           IN  /\ r \in Seq(Byte) /\ Len(r) = n
               /\ Len(p) <= Len(Magic) =>
                    \A i \in 1..n : Fits(r[i], x + i - 1, p)
               /\ \A o \in Occurrences(Image) :
                    /\ x <= o /\ o + Len(Magic) <= x + n
                    /\ \A e \in Occurrences(Image) : ~(x <= e /\ e < o)
                    => \A k \in 1..Len(Magic) : r[o - x + k] = Padded(p)[k]
<1> DEFINE b == SubSeq(Image, x, x + n - 1)  L == Len(Magic)  r == PatchChunk(b, p)
<1>1. Len(Image) \in Nat /\ L \in Nat \ {0}
  BY ImageAssumption, MagicAssumption
<1>2. \A i \in x..(x + n - 1) : Image[i] \in Byte
  <2>1. Range(Image) \subseteq Byte
    BY DEF Byte
  <2> QED BY <1>1, <2>1, ImageAssumption
<1>3. b \in Seq(Byte) /\ Len(b) = n /\ \A i \in 1..n : b[i] = Image[x + i - 1]
  BY <1>2, SubSeqProperties
<1>4. \A f : f \in Occurrences(b) <=> f \in 1..(n + 1 - L) /\ x + f - 1 \in Occurrences(Image)
  BY OccurrencesShift
<1>5. Occurrences(Image) \subseteq Nat
  BY <1>1 DEF Occurrences
<1> HIDE DEF b
<1>6. r \in Seq(Byte) /\ Len(r) = n
  BY <1>3, PatchChunkIs
<1>7. CASE Occurrences(b) = {}
  <2>1. r = b
    BY <1>3, <1>7, PatchChunkIs
  <2>2. ASSUME NEW o \in Occurrences(Image), x <= o, o + L <= x + n PROVE FALSE
    <3>1. o - x + 1 \in 1..(n + 1 - L) /\ x + (o - x + 1) - 1 = o
      BY <1>1, <1>5, <2>2
    <3> QED BY <1>4, <1>7, <3>1
  <2> HIDE DEF r
  <2>3. ASSUME NEW i \in 1..n PROVE Fits(r[i], x + i - 1, p)
    BY <1>3, <2>1 DEF Fits
  <2> QED BY <1>6, <2>2, <2>3 DEF r, b
<1>8. CASE Occurrences(b) # {}
  <2>1. PICK f \in Occurrences(b) :
            /\ \A j \in Occurrences(b) : f <= j
            /\ \A k \in 1..L : r[f + k - 1] = Padded(p)[k]
            /\ Len(p) <= L => \A i \in 1..Len(b) : i \notin f..(f + L - 1) => r[i] = b[i]
    BY <1>3, <1>8, PatchChunkIs
  <2> HIDE DEF r
  <2>2. f \in 1..(n + 1 - L) /\ x + f - 1 \in Occurrences(Image)
    BY <1>4
  <2>3. ASSUME Len(p) <= L, NEW i \in 1..n PROVE Fits(r[i], x + i - 1, p)
    <3>1. CASE r[i] = Image[x + i - 1]
      BY <3>1 DEF Fits
    <3>2. CASE r[i] # Image[x + i - 1]
      <4>1. i \in f..(f + L - 1)
        BY <1>3, <2>1, <2>3, <3>2
      <4>2. i - f + 1 \in 1..L /\ f + (i - f + 1) - 1 = i
        BY <1>1, <2>2, <4>1
      <4>3. r[i] = Padded(p)[i - f + 1]
        BY <2>1, <4>2
      <4>4. x + i - 1 \in (x + f - 1)..((x + f - 1) + L - 1) /\ x + i - 1 - (x + f - 1) + 1 = i - f + 1
        BY <1>1, <2>2, <4>1
      <4> DEFINE at == x + i - 1  o == x + f - 1
      <4>5. o \in Occurrences(Image) /\ at \in o..(o + Len(Magic) - 1) /\ r[i] = Padded(p)[at - o + 1]
        BY <2>2, <4>3, <4>4
      <4> HIDE DEF at, o
      <4>6. Fits(r[i], at, p)
        BY <4>5, Zenon DEF Fits
      <4> QED BY <4>6 DEF at
    <3> QED BY <3>1, <3>2
  <2>4. ASSUME NEW o \in Occurrences(Image), x <= o, o + L <= x + n,
               \A e \in Occurrences(Image) : ~(x <= e /\ e < o),
               NEW k \in 1..L
        PROVE  r[o - x + k] = Padded(p)[k]
    <3>1. o - x + 1 \in 1..(n + 1 - L) /\ x + (o - x + 1) - 1 = o
      BY <1>1, <1>5, <2>4
    <3>2. o - x + 1 \in Occurrences(b)
      BY <1>4, <3>1
    <3>3. f <= o - x + 1
      BY <2>1, <3>2
    <3>4. ~(x + f - 1 < o)
      BY <2>2, <2>4
    <3>5. f = o - x + 1
      BY <1>5, <2>2, <3>3, <3>4
    <3>6. f + k - 1 = o - x + k
      BY <1>1, <1>5, <3>5
    <3> QED BY <2>1, <3>6
  <2> QED BY <1>6, <2>3, <2>4 DEF r, b
<1> QED BY <1>7, <1>8

-----------------------------------------------------------------------------
(* The invariant of a connection. *)

\* How far the handler of c is, and what it has by then.
Staged(c) ==
    /\ stage[c] = "idle" <=> req[c] = NoRequest
    /\ stage[c] \in {"idle", "route", "upstream"} => got[c] = <<>>
    /\ stage[c] \in {"upstream", "copy"} => IsIso(c)

\* The handler sees the address that xff.Handler resolved.
Known(c) ==
    stage[c] # "idle" =>
        remote[c] = RemoteAddr(PeerOf(req[c].client, req[c].via),
                               HeaderOf(req[c].client, req[c].sent, req[c].via))

\* The patch was made from a record of this machine that the backend held.
Sourced(c) ==
    IsIso(c) =>
        /\ records[req[c].mac] \in held[c]
        /\ stage[c] \in {"upstream", "copy"} \/ got[c] # <<>> =>
               \E rec \in held[c] \cap Rec : patch[c] = ConstructPatch(req[c].mac, rec)

\* While it is copied, as much was written as was read.
InStep(c) ==
    stage[c] = "copy" =>
        /\ pos[c] = req[c].lo + Len(got[c]) /\ pos[c] <= req[c].hi + 1
        /\ pos[c] \in cuts[c] /\ \A x \in cuts[c] : x <= pos[c]

\* CompleteOrAborted, of c.
Whole(c) ==
    IsIso(c) /\ stage[c] = "done" /\ status[c] \in {200, 206} => Len(got[c]) = req[c].hi - req[c].lo + 1

\* OwnPatchInPlace, of c, with the patch in its context.
InPlace(c) ==
    IsIso(c) /\ Len(patch[c]) <= Len(Magic) =>
        \A i \in 1..Len(got[c]) : Fits(got[c][i], req[c].lo + i - 1, patch[c])

\* PatchedWhereSeen, of c, for what has been written so far.
Patched(c) ==
    IsIso(c) /\ (stage[c] = "copy" \/ (stage[c] = "done" /\ status[c] \in {200, 206})) =>
        \A o \in Occurrences(Image) :
            req[c].lo <= o /\ o + Len(Magic) <= req[c].lo + Len(got[c]) /\ ~Missed(c, o) =>
                \A k \in 1..Len(Magic) : got[c][o - req[c].lo + k] = Padded(patch[c])[k]

ConnInv(c) == Staged(c) /\ Known(c) /\ Sourced(c) /\ InStep(c) /\ Whole(c) /\ InPlace(c) /\ Patched(c)

HttpInv == TypeOK /\ \A c \in Conn : ConnInv(c)

-----------------------------------------------------------------------------
(* What a step of the copy loop does. *)

\* The types of what belongs to one connection.
LEMMA Typed ==
    ASSUME TypeOK, NEW c \in Conn
    PROVE  /\ req[c] \in Requests \cup {NoRequest}
           /\ patch[c] \in Seq(Byte) /\ Len(patch[c]) \in Nat
           /\ pos[c] \in 0..(Len(Image) + 1) /\ cuts[c] \subseteq 1..(Len(Image) + 1) /\ cuts[c] \subseteq Nat
           /\ got[c] \in Seq(Byte) /\ Len(got[c]) \in Nat /\ Len(got[c]) <= Len(Image)
           /\ held[c] \subseteq Rec \cup {Absent}
<1>1. /\ req \in [Conn -> Requests \cup {NoRequest}]
      /\ patch \in [Conn -> Seq(Byte)]
      /\ pos \in [Conn -> 0..(Len(Image) + 1)]
      /\ cuts \in [Conn -> SUBSET (1..(Len(Image) + 1))]
      /\ got \in [Conn -> Seq(Byte)] /\ Len(got[c]) <= Len(Image)
      /\ held \in [Conn -> SUBSET (Rec \cup {Absent})]
  BY Zenon DEF TypeOK, HandlingTypeOK, CopyingTypeOK, BackendTypeOK
<1>2. req[c] \in Requests \cup {NoRequest}
  BY <1>1
<1>3. patch[c] \in Seq(Byte) /\ got[c] \in Seq(Byte)
  BY <1>1
<1>4. Len(patch[c]) \in Nat /\ Len(got[c]) \in Nat
  BY <1>3
<1>5. pos[c] \in 0..(Len(Image) + 1) /\ held[c] \subseteq Rec \cup {Absent}
  BY <1>1
<1>6. cuts[c] \in SUBSET (1..(Len(Image) + 1))
  BY <1>1
<1>7. 1..(Len(Image) + 1) \subseteq Nat
  BY ImageAssumption
<1> QED BY <1>1, <1>2, <1>3, <1>4, <1>5, <1>6, <1>7

\* A request for an ISO has a machine and a range of the image.
LEMMA IsoRequestIs ==
    ASSUME TypeOK, NEW c \in Conn, IsIso(c)
    PROVE  /\ req[c] \in Requests /\ req[c].mac \in Mac
           /\ req[c].lo \in Nat \ {0} /\ req[c].hi \in Nat \ {0} /\ Len(Image) \in Nat
           /\ req[c].lo <= req[c].hi /\ req[c].hi <= Len(Image)
<1>1. req[c] \in Requests /\ req[c].route = "iso"
  BY Typed DEF IsIso
<1>2. Len(Image) \in Nat
  BY ImageAssumption
<1>3. req[c].mac \in Mac /\ req[c].lo \in 1..req[c].hi /\ req[c].hi \in 1..Len(Image)
  BY <1>1, RequestAssumption
<1> QED BY <1>1, <1>2, <1>3

\* The patch of a machine is a sequence of bytes.
LEMMA ConstructPatchType ==
    ASSUME NEW m \in Mac, NEW rec \in Rec
    PROVE  ConstructPatch(m, rec) \in Seq(Byte)
<1>1. m \in Byte /\ Range(rec) \subseteq Byte
  BY DEF Byte
<1>2. rec \in Seq(Byte)
  BY <1>1, RecAssumption
<1> QED BY <1>1, <1>2 DEF ConstructPatch

\* While c copies, what a Read of n bytes becomes is as ChunkIs says.
LEMMA ChunkOf ==
    ASSUME HttpInv, NEW c \in Conn, stage[c] = "copy", NEW n \in Nat, pos[c] + n <= req[c].hi + 1
    PROVE  /\ IsIso(c) /\ pos[c] \in Nat \ {0} /\ pos[c] + n <= Len(Image) + 1
           /\ Chunk(c, n) \in Seq(Byte) /\ Len(Chunk(c, n)) = n
           /\ Len(patch[c]) <= Len(Magic) =>
                \A i \in 1..n : Fits(Chunk(c, n)[i], pos[c] + i - 1, patch[c])
           /\ \A o \in Occurrences(Image) :
                /\ pos[c] <= o /\ o + Len(Magic) <= pos[c] + n
                /\ \A e \in Occurrences(Image) : ~(pos[c] <= e /\ e < o)
                => \A k \in 1..Len(Magic) : Chunk(c, n)[o - pos[c] + k] = Padded(patch[c])[k]
<1>1. IsIso(c)
  BY DEF HttpInv, ConnInv, Staged
<1>2. TypeOK /\ InStep(c)
  BY DEF HttpInv, ConnInv
<1>3. Len(got[c]) \in Nat /\ patch[c] \in Seq(Byte)
  BY <1>2, Typed
<1>4. pos[c] \in Nat \ {0} /\ pos[c] + n <= Len(Image) + 1
  <2> DEFINE lo == req[c].lo  hi == req[c].hi  k == Len(got[c])
  <2>1. lo \in Nat \ {0} /\ hi \in Nat \ {0} /\ Len(Image) \in Nat /\ hi <= Len(Image)
    BY <1>1, <1>2, IsoRequestIs
  <2>2. pos[c] = lo + k /\ k \in Nat /\ pos[c] + n <= hi + 1
    BY <1>2, <1>3 DEF InStep
  <2> HIDE DEF lo, hi, k
  <2> QED BY <2>1, <2>2
<1> DEFINE x == pos[c]  p == patch[c]  r == PatchChunk(SubSeq(Image, x, x + n - 1), p)
<1>5. x \in Nat \ {0} /\ x + n <= Len(Image) + 1 /\ p \in Seq(Byte)
  BY <1>3, <1>4
<1>6. Chunk(c, n) = r
  BY DEF Chunk
<1> HIDE DEF x, p
<1>7. /\ r \in Seq(Byte) /\ Len(r) = n
      /\ Len(p) <= Len(Magic) =>
            \A i \in 1..n : Fits(r[i], x + i - 1, p)
      /\ \A o \in Occurrences(Image) :
            /\ x <= o /\ o + Len(Magic) <= x + n
            /\ \A e \in Occurrences(Image) : ~(x <= e /\ e < o)
            => \A k \in 1..Len(Magic) : r[o - x + k] = Padded(p)[k]
  BY <1>5, ChunkIs, Zenon
<1> QED BY <1>1, <1>4, <1>6, <1>7, Zenon DEF x, p

\* What is written after a Read, all of the chunk or its start, keeps every byte
\* in its place.
LEMMA Written ==
    ASSUME HttpInv, NEW c \in Conn, stage[c] = "copy", NEW n \in Nat, pos[c] + n <= req[c].hi + 1,
           NEW w \in Seq(Byte), Len(w) <= n, \A i \in 1..Len(w) : w[i] = Chunk(c, n)[i],
           got'[c] = got[c] \o w, req' = req, patch' = patch
    PROVE  /\ got'[c] \in Seq(Byte) /\ Len(got'[c]) <= Len(Image)
           /\ Len(got'[c]) = Len(got[c]) + Len(w) /\ Len(w) \in Nat /\ Len(got[c]) \in Nat
           /\ \A i \in 1..Len(got[c]) : got'[c][i] = got[c][i]
           /\ \A i \in 1..Len(w) : got'[c][Len(got[c]) + i] = w[i]
           /\ InPlace(c)'
<1> DEFINE g == got[c]  lo == req[c].lo
<1>1. TypeOK /\ InStep(c) /\ InPlace(c)
  BY DEF HttpInv, ConnInv
<1>2. /\ IsIso(c) /\ pos[c] \in Nat \ {0} /\ pos[c] + n <= Len(Image) + 1
      /\ lo \in Nat \ {0} /\ Len(Image) \in Nat
  <2>1. IsIso(c) /\ pos[c] \in Nat \ {0} /\ pos[c] + n <= Len(Image) + 1
    BY ChunkOf
  <2> QED BY <1>1, <2>1, IsoRequestIs
<1>3. g \in Seq(Byte) /\ Len(g) \in Nat /\ Len(w) \in Nat
  BY <1>1, Typed
<1>4. got'[c] = g \o w
  OBVIOUS
<1>6. g \o w \in Seq(Byte) /\ Len(g \o w) = Len(g) + Len(w)
  BY <1>3, ConcatProperties
<1>7. \A i \in 1..(Len(g) + Len(w)) : (g \o w)[i] = IF i <= Len(g) THEN g[i] ELSE w[i - Len(g)]
  BY <1>3, ConcatProperties
<1>8. pos[c] = lo + Len(g)
  BY <1>1 DEF InStep
<1> HIDE DEF g, lo
<1>10. Len(g) + Len(w) <= Len(Image)
  BY <1>2, <1>3, <1>8
<1>12. \A i \in 1..Len(g) : (g \o w)[i] = g[i]
  BY <1>3, <1>7
<1>13. \A i \in 1..Len(w) : (g \o w)[Len(g) + i] = w[i]
  <2> SUFFICES ASSUME NEW i \in 1..Len(w) PROVE (g \o w)[Len(g) + i] = w[i]
    OBVIOUS
  <2>1. Len(g) + i \in 1..(Len(g) + Len(w)) /\ ~(Len(g) + i <= Len(g)) /\ Len(g) + i - Len(g) = i
    BY <1>3
  <2> QED BY <1>7, <2>1
<1>14. ASSUME Len(patch[c]) <= Len(Magic), NEW i \in 1..(Len(g) + Len(w))
       PROVE  Fits((g \o w)[i], lo + i - 1, patch[c])
  <2>1. CASE i <= Len(g)
    <3>1. i \in 1..Len(g) /\ (g \o w)[i] = g[i]
      BY <1>3, <1>12, <2>1
    <3>2. Fits(g[i], lo + i - 1, patch[c])
      BY <1>1, <1>2, <1>14, <3>1 DEF InPlace, g, lo
    <3> QED BY <3>1, <3>2
  <2>2. CASE ~(i <= Len(g))
    <3> DEFINE j == i - Len(g)
    <3>1. j \in 1..Len(w) /\ j \in 1..n /\ Len(g) + j = i /\ pos[c] + j - 1 = lo + i - 1
      <4> DEFINE a == Len(g)  b == Len(w)  x == pos[c]
      <4>1. a \in Nat /\ b \in Nat /\ b <= n /\ x = lo + a /\ lo \in Nat /\ i \in 1..(a + b) /\ ~(i <= a)
        BY <1>2, <1>3, <1>8, <2>2
      <4> HIDE DEF a, b, x
      <4>2. i - a \in 1..b /\ i - a \in 1..n /\ a + (i - a) = i /\ x + (i - a) - 1 = lo + i - 1
        BY <4>1
      <4> QED BY <4>2 DEF a, b, x
    <3> HIDE DEF j
    <3>2. (g \o w)[i] = Chunk(c, n)[j]
      BY <1>13, <3>1
    <3>3. Fits(Chunk(c, n)[j], pos[c] + j - 1, patch[c])
      BY <1>14, <3>1, ChunkOf
    <3> QED BY <3>1, <3>2, <3>3, Zenon
  <2> QED BY <2>1, <2>2
<1>15. InPlace(c)'
  <2>1. ASSUME Len(patch'[c]) <= Len(Magic), NEW i \in 1..Len(got'[c])
        PROVE  Fits(got'[c][i], req'[c].lo + i - 1, patch'[c])
    <3>1. req'[c].lo = lo /\ patch'[c] = patch[c] /\ got'[c] = g \o w
      BY <1>4 DEF lo
    <3>2. i \in 1..(Len(g) + Len(w)) /\ Len(patch[c]) <= Len(Magic)
      BY <1>4, <1>6, <2>1
    <3>3. Fits((g \o w)[i], lo + i - 1, patch[c])
      BY <1>14, <3>2, Zenon
    <3> QED BY <3>1, <3>3, Zenon
  <2> QED BY <2>1, Zenon DEF InPlace
<1> QED BY <1>3, <1>4, <1>6, <1>10, <1>12, <1>13, <1>15 DEF g

\* After a Read without an error, the magic strings that Copy has seen whole and
\* first in their chunk are patched.
LEMMA SeenIsPatched ==
    ASSUME HttpInv, NEW c \in Conn, stage[c] = "copy", NEW n \in Nat, pos[c] + n <= req[c].hi + 1,
           got'[c] = got[c] \o Chunk(c, n), req' = req, patch' = patch,
           cuts'[c] = cuts[c] \cup {pos[c] + n}
    PROVE  Patched(c)'
<1> DEFINE g == got[c]  lo == req[c].lo  x == pos[c]  L == Len(Magic)  w == Chunk(c, n)
<1>1. TypeOK /\ InStep(c) /\ Patched(c)
  BY DEF HttpInv, ConnInv
<1>2. IsIso(c) /\ x \in Nat \ {0} /\ w \in Seq(Byte) /\ Len(w) = n
  BY ChunkOf
<1>3. lo \in Nat \ {0} /\ L \in Nat \ {0}
  BY <1>1, <1>2, IsoRequestIs, MagicAssumption
<1>4. /\ Len(got'[c]) = Len(g) + n /\ Len(g) \in Nat
      /\ \A i \in 1..Len(g) : got'[c][i] = g[i]
      /\ \A i \in 1..n : got'[c][Len(g) + i] = w[i]
  <2>1. Len(w) <= n /\ \A i \in 1..Len(w) : w[i] = Chunk(c, n)[i]
    BY <1>2
  <2>2. w \in Seq(Byte) /\ got'[c] = got[c] \o w
    BY <1>2
  <2>3. /\ Len(got'[c]) = Len(got[c]) + Len(w) /\ Len(got[c]) \in Nat
        /\ \A i \in 1..Len(got[c]) : got'[c][i] = got[c][i]
        /\ \A i \in 1..Len(w) : got'[c][Len(got[c]) + i] = w[i]
    <3> HIDE DEF w
    <3> QED BY <2>1, <2>2, Written
  <2> QED BY <1>2, <2>3
<1>5. x = lo + Len(g) /\ x \in cuts[c] /\ \A y \in cuts[c] : y <= x
  BY <1>1 DEF InStep
<1>6. cuts[c] \subseteq Nat
  BY <1>1, Typed
<1>7. \A o \in Occurrences(Image) : o \in Nat
  BY ImageAssumption, MagicAssumption DEF Occurrences
<1>a. req'[c].lo = lo /\ patch'[c] = patch[c]
  OBVIOUS
<1> SUFFICES ASSUME NEW o \in Occurrences(Image), lo <= o, o + L <= lo + Len(got'[c]), ~Missed(c, o)',
                    NEW k \in 1..L
             PROVE  got'[c][o - lo + k] = Padded(patch[c])[k]
  <2>1. ASSUME NEW o \in Occurrences(Image), req'[c].lo <= o, o + Len(Magic) <= req'[c].lo + Len(got'[c]),
               ~Missed(c, o)', NEW k \in 1..Len(Magic)
        PROVE  got'[c][o - req'[c].lo + k] = Padded(patch'[c])[k]
    <3>1. lo <= o /\ o + L <= lo + Len(got'[c])
      BY <1>a, <2>1
    <3>2. got'[c][o - lo + k] = Padded(patch[c])[k]
      BY <2>1, <3>1
    <3> QED BY <1>a, <3>2
  <2> QED BY <2>1, Zenon DEF Patched
<1> HIDE DEF g, lo, x, L, w
<1>8. o \in Nat /\ o + L <= x + n
  <2> DEFINE a == Len(g)
  <2>1. o \in Nat /\ o + L <= lo + (a + n) /\ x = lo + a /\ a \in Nat
    BY <1>4, <1>5, <1>7
  <2> HIDE DEF a
  <2> QED BY <1>3, <2>1
<1>9. /\ \A y \in cuts[c] \cup {x + n} : ~(o < y /\ y < o + L)
      /\ \A p \in Occurrences(Image) : p < o /\ lo <= p => \E y \in cuts[c] \cup {x + n} : ~(y <= p \/ y > o)
  BY DEF Missed, x, L, lo
<1>10. CASE o + L <= x
  <2>1. ~Missed(c, o)
    <3>1. \A y \in cuts[c] : ~(o < y /\ y < o + L)
      BY <1>9
    <3>2. ASSUME NEW p \in Occurrences(Image), p < o, lo <= p
          PROVE  \E y \in cuts[c] : ~(y <= p \/ y > o)
      <4>1. x + n > o
        BY <1>2, <1>3, <1>8, <1>10
      <4>2. PICK y \in cuts[c] \cup {x + n} : ~(y <= p \/ y > o)
        BY <1>9, <3>2
      <4> QED BY <4>1, <4>2
    <3> QED BY <3>1, <3>2 DEF Missed, lo, L
  <2>2. got[c][o - lo + k] = Padded(patch[c])[k]
    <3>1. IsIso(c) /\ lo <= o /\ o + L <= lo + Len(g) /\ stage[c] = "copy"
      BY <1>2, <1>5, <1>10
    <3> QED BY <1>1, <2>1, <3>1 DEF Patched, lo, L, g
  <2>3. o - lo + k \in 1..Len(g)
    BY <1>3, <1>4, <1>5, <1>8, <1>10
  <2> QED BY <1>4, <2>2, <2>3 DEF g
<1>11. CASE ~(o + L <= x)
  <2>1. x <= o
    <3>1. ~(o < x /\ x < o + L)
      BY <1>5, <1>9
    <3> QED BY <1>2, <1>3, <1>8, <1>11, <3>1
  <2>2. ASSUME NEW e \in Occurrences(Image), x <= e, e < o PROVE FALSE
    <3>1. e \in Nat /\ lo <= e
      BY <1>3, <1>4, <1>5, <1>7, <2>2
    <3>2. PICK y \in cuts[c] \cup {x + n} : ~(y <= e \/ y > o)
      BY <1>9, <2>2, <3>1
    <3>3. CASE y = x + n
      BY <1>2, <1>3, <1>8, <3>2, <3>3
    <3>4. CASE y \in cuts[c]
      <4>1. y <= x /\ y \in Nat
        BY <1>5, <1>6, <3>4
      <4> QED BY <1>2, <2>2, <3>1, <3>2, <4>1
    <3> QED BY <3>3, <3>4
  <2>3. w[o - x + k] = Padded(patch[c])[k]
    <3>1. \A q \in Occurrences(Image) :
            /\ pos[c] <= q /\ q + Len(Magic) <= pos[c] + n
            /\ \A e \in Occurrences(Image) : ~(pos[c] <= e /\ e < q)
            => \A j \in 1..Len(Magic) : Chunk(c, n)[q - pos[c] + j] = Padded(patch[c])[j]
      BY ChunkOf, Zenon
    <3> QED BY <1>8, <2>1, <2>2, <3>1 DEF x, L, w
  <2>4. o - x + k \in 1..n /\ Len(g) + (o - x + k) = o - lo + k
    BY <1>2, <1>3, <1>4, <1>5, <1>8, <2>1
  <2> QED BY <1>4, <2>3, <2>4
<1> QED BY <1>10, <1>11

-----------------------------------------------------------------------------
(* The type invariant is kept. *)

\* Initial states satisfy the invariant.
LEMMA HttpInit == Init => HttpInv
<1> SUFFICES ASSUME Init PROVE HttpInv
  OBVIOUS
<1>1. LifeTypeOK
  BY DEF Init, LifeTypeOK
<1>2. HandlingTypeOK
  <2>1. stage \in [Conn -> {"idle", "route", "upstream", "copy"} \cup Ended] /\ status \in [Conn -> StatusCode]
    BY DEF Init, StatusCode
  <2>2. /\ req \in [Conn -> Requests \cup {NoRequest}] /\ remote \in [Conn -> Addr \cup {""}]
        /\ patch \in [Conn -> Seq(Byte)]
    BY EmptySeq DEF Init
  <2> QED BY <2>1, <2>2, Zenon DEF HandlingTypeOK
<1>3. CopyingTypeOK
  <2>1. Len(Image) \in Nat
    BY ImageAssumption
  <2>2. <<>> \in Seq(Byte) /\ Len(<<>>) = 0
    BY EmptySeq
  <2>3. got = [c \in Conn |-> <<>>]
    BY DEF Init
  <2>4. pos \in [Conn -> 0..(Len(Image) + 1)] /\ cuts \in [Conn -> SUBSET (1..(Len(Image) + 1))]
    <3>1. 0 \in 0..(Len(Image) + 1) /\ {} \in SUBSET (1..(Len(Image) + 1))
      BY <2>1
    <3>2. pos = [c \in Conn |-> 0] /\ cuts = [c \in Conn |-> {}]
      BY DEF Init
    <3> QED BY <3>1, <3>2, Zenon
  <2>5. got \in [Conn -> Seq(Byte)] /\ \A c \in Conn : Len(got[c]) <= Len(Image)
    BY <2>1, <2>2, <2>3
  <2> QED BY <2>4, <2>5 DEF CopyingTypeOK
<1>4. BackendTypeOK
  <2>1. records \in [Mac -> Rec \cup {Absent}] /\ held = [c \in Conn |-> {}] /\ updates = 0
    BY Zenon DEF Init
  <2>2. updates \in 0..MaxUpdates
    BY <2>1, BoundsAssumption
  <2>3. {} \in SUBSET (Rec \cup {Absent})
    OBVIOUS
  <2>4. held \in [Conn -> SUBSET (Rec \cup {Absent})]
    BY <2>1, <2>3, Zenon
  <2> QED BY <2>1, <2>2, <2>4 DEF BackendTypeOK
<1>5. ASSUME NEW c \in Conn PROVE ConnInv(c)
  <2>1. stage[c] = "idle" /\ req[c] = NoRequest /\ got[c] = <<>>
    BY DEF Init
  <2> QED BY <2>1 DEF ConnInv, Staged, Known, Sourced, InStep, Whole, InPlace, Patched, IsIso
<1> QED BY <1>1, <1>2, <1>3, <1>4, <1>5 DEF HttpInv, TypeOK

\* What Copy writes: the chunk, or its start.
LEMMA ChunkStart ==
    ASSUME HttpInv, NEW c \in Conn, stage[c] = "copy", NEW n \in Nat, pos[c] + n <= req[c].hi + 1
    PROVE  /\ Chunk(c, n) \in Seq(Byte) /\ Len(Chunk(c, n)) = n
           /\ \A k \in 0..n :
                /\ SubSeq(Chunk(c, n), 1, k) \in Seq(Byte) /\ Len(SubSeq(Chunk(c, n), 1, k)) = k
                /\ \A i \in 1..k : SubSeq(Chunk(c, n), 1, k)[i] = Chunk(c, n)[i]
<1> DEFINE r == Chunk(c, n)
<1>1. r \in Seq(Byte) /\ Len(r) = n
  BY ChunkOf
<1> HIDE DEF r
<1>2. ASSUME NEW k \in 0..n
      PROVE  /\ SubSeq(r, 1, k) \in Seq(Byte) /\ Len(SubSeq(r, 1, k)) = k
             /\ \A i \in 1..k : SubSeq(r, 1, k)[i] = r[i]
  <2>1. \A i \in 1..k : r[i] \in Byte
    BY <1>1
  <2> QED BY <2>1, SubSeqProperties
<1> QED BY <1>1, <1>2 DEF r

\* A step of Copy's loop: n bytes are read, w is written, and the handler goes on
\* or ends.
CopyEffect(c, n, w, how) ==
    /\ stage[c] = "copy" /\ pos[c] + n <= req[c].hi + 1
    /\ Len(w) <= n /\ \A i \in 1..Len(w) : w[i] = Chunk(c, n)[i]
    /\ got' = [got EXCEPT ![c] = @ \o w] /\ pos' = [pos EXCEPT ![c] = @ + n]
    /\ cuts' = [cuts EXCEPT ![c] = IF how = "aborted" THEN {} ELSE @ \cup {pos[c] + n}]
    /\ stage' = [stage EXCEPT ![c] = how] /\ status' = status
    /\ how # "aborted" => w = Chunk(c, n)
    /\ how = "done" => pos[c] + n = req[c].hi + 1
    /\ UNCHANGED <<life, req, remote, patch, backend>>

\* The four ways a Read and the Write after it may go.
LEMMA CopyStep ==
    ASSUME HttpInv, NEW c \in Conn, Copying(c)
    PROVE  \E n \in Nat, w \in Seq(Byte), how \in {"copy", "done", "aborted"} : CopyEffect(c, n, w, how)
<1>1. /\ stage \in [Conn -> {"idle", "route", "upstream", "copy"} \cup Ended]
      /\ status \in [Conn -> StatusCode]
  BY Zenon DEF HttpInv, TypeOK, HandlingTypeOK
<1>2. pos \in [Conn -> 0..(Len(Image) + 1)] /\ cuts \in [Conn -> SUBSET (1..(Len(Image) + 1))]
  BY Zenon DEF HttpInv, TypeOK, CopyingTypeOK
<1>3. \A how : [status EXCEPT ![c] = status[c]] = status /\ (stage[c] = how => [stage EXCEPT ![c] = how] = stage)
  BY <1>1
<1>4. \A n : pos' = [pos EXCEPT ![c] = @ + n] => pos'[c] = pos[c] + n
  BY <1>2
<1>5. BufSize \in Nat
  BY BoundsAssumption
<1>6. ASSUME NEW n \in 1..BufSize, CopyMore(c, n)
      PROVE  n \in Nat /\ Chunk(c, n) \in Seq(Byte) /\ CopyEffect(c, n, Chunk(c, n), "copy")
  <2>1. n \in Nat /\ stage[c] = "copy" /\ pos[c] + n <= req[c].hi + 1
    BY <1>5, <1>6 DEF CopyMore
  <2>2. Chunk(c, n) \in Seq(Byte) /\ Len(Chunk(c, n)) = n /\ Len(Chunk(c, n)) <= n
    BY <2>1, ChunkStart
  <2>3. /\ got' = [got EXCEPT ![c] = @ \o Chunk(c, n)] /\ pos' = [pos EXCEPT ![c] = @ + n]
        /\ cuts' = [cuts EXCEPT ![c] = @ \cup {pos[c] + n}]
        /\ UNCHANGED <<life, handling, backend>>
    BY <1>4, <1>6 DEF CopyMore
  <2>4. stage' = [stage EXCEPT ![c] = "copy"] /\ status' = status /\ UNCHANGED <<life, req, remote, patch, backend>>
    BY <1>3, <2>1, <2>3 DEF handling
  <2> QED BY <2>1, <2>2, <2>3, <2>4 DEF CopyEffect
<1>7. ASSUME NEW n \in 0..BufSize, CopyEnd(c, n)
      PROVE  n \in Nat /\ Chunk(c, n) \in Seq(Byte) /\ CopyEffect(c, n, Chunk(c, n), "done")
  <2>1. n \in Nat /\ stage[c] = "copy" /\ pos[c] + n = req[c].hi + 1
    BY <1>5, <1>7 DEF CopyEnd
  <2>a. req[c].hi \in Nat
    BY <2>1, IsoRequestIs DEF HttpInv, ConnInv, Staged
  <2>b. pos[c] + n <= req[c].hi + 1
    BY <2>1, <2>a
  <2>2. Chunk(c, n) \in Seq(Byte) /\ Len(Chunk(c, n)) = n /\ Len(Chunk(c, n)) <= n
    BY <2>1, <2>b, ChunkStart
  <2>3. /\ got' = [got EXCEPT ![c] = @ \o Chunk(c, n)] /\ pos' = [pos EXCEPT ![c] = @ + n]
        /\ cuts' = [cuts EXCEPT ![c] = @ \cup {pos[c] + n}]
        /\ stage' = [stage EXCEPT ![c] = "done"] /\ status' = status /\ UNCHANGED <<life, req, remote, patch, backend>>
    BY <1>3, <1>4, <1>7 DEF CopyEnd, Finish
  <2> QED BY <2>1, <2>b, <2>2, <2>3 DEF CopyEffect
<1>8. ASSUME NEW n \in 0..BufSize, CopyReadError(c, n)
      PROVE  n \in Nat /\ Chunk(c, n) \in Seq(Byte) /\ CopyEffect(c, n, Chunk(c, n), "aborted")
  <2>1. n \in Nat /\ stage[c] = "copy" /\ pos[c] + n <= req[c].hi + 1
    BY <1>5, <1>8 DEF CopyReadError
  <2>2. Chunk(c, n) \in Seq(Byte) /\ Len(Chunk(c, n)) = n /\ Len(Chunk(c, n)) <= n
    BY <2>1, ChunkStart
  <2>3. /\ got' = [got EXCEPT ![c] = @ \o Chunk(c, n)] /\ pos' = [pos EXCEPT ![c] = @ + n]
        /\ cuts' = [cuts EXCEPT ![c] = {}]
        /\ stage' = [stage EXCEPT ![c] = "aborted"] /\ status' = status /\ UNCHANGED <<life, req, remote, patch, backend>>
    BY <1>3, <1>8 DEF CopyReadError, Finish
  <2> QED BY <2>1, <2>2, <2>3 DEF CopyEffect
<1>9. ASSUME NEW n \in 1..BufSize, NEW k \in 0..(n - 1), CopyWriteError(c, n, k)
      PROVE  LET w == SubSeq(Chunk(c, n), 1, k)
             IN  n \in Nat /\ w \in Seq(Byte) /\ CopyEffect(c, n, w, "aborted")
  <2> DEFINE w == SubSeq(Chunk(c, n), 1, k)
  <2>1. n \in Nat /\ k \in 0..n /\ k <= n /\ stage[c] = "copy" /\ pos[c] + n <= req[c].hi + 1
    BY <1>5, <1>9 DEF CopyWriteError
  <2>2. w \in Seq(Byte) /\ Len(w) = k /\ \A i \in 1..k : w[i] = Chunk(c, n)[i]
    BY <2>1, ChunkStart
  <2>3. /\ got' = [got EXCEPT ![c] = @ \o w] /\ pos' = [pos EXCEPT ![c] = @ + n]
        /\ cuts' = [cuts EXCEPT ![c] = {}]
        /\ stage' = [stage EXCEPT ![c] = "aborted"] /\ status' = status /\ UNCHANGED <<life, req, remote, patch, backend>>
    BY <1>3, <1>9 DEF CopyWriteError, Finish
  <2> HIDE DEF w
  <2>4. CopyEffect(c, n, w, "aborted")
    BY <2>1, <2>2, <2>3 DEF CopyEffect
  <2> QED BY <2>1, <2>2, <2>4 DEF w
<1> QED BY <1>6, <1>7, <1>8, <1>9, Zenon DEF Copying

\* A step of the copy loop keeps the types.
LEMMA CopyType ==
    ASSUME HttpInv, NEW c \in Conn, NEW n \in Nat, NEW w \in Seq(Byte),
           NEW how \in {"copy", "done", "aborted"}, CopyEffect(c, n, w, how)
    PROVE  CopyingTypeOK'
<1> USE DEF CopyEffect
<1>1. /\ pos \in [Conn -> 0..(Len(Image) + 1)] /\ cuts \in [Conn -> SUBSET (1..(Len(Image) + 1))]
      /\ got \in [Conn -> Seq(Byte)] /\ \A d \in Conn : Len(got[d]) <= Len(Image)
  BY Zenon DEF HttpInv, TypeOK, CopyingTypeOK
<1>2. pos[c] \in Nat \ {0} /\ pos[c] + n <= Len(Image) + 1 /\ Len(Image) \in Nat
  BY ChunkOf, ImageAssumption
<1>3. pos[c] + n \in 1..(Len(Image) + 1) /\ pos[c] + n \in 0..(Len(Image) + 1)
  BY <1>2
<1>4. pos' \in [Conn -> 0..(Len(Image) + 1)]
  <2>1. pos' = [pos EXCEPT ![c] = pos[c] + n]
    OBVIOUS
  <2> QED BY <1>1, <1>3, <2>1, Zenon
<1>5. cuts' \in [Conn -> SUBSET (1..(Len(Image) + 1))]
  <2> DEFINE cs == IF how = "aborted" THEN {} ELSE cuts[c] \cup {pos[c] + n}
  <2>1. cs \in SUBSET (1..(Len(Image) + 1))
    BY <1>1, <1>3
  <2>2. cuts' = [cuts EXCEPT ![c] = cs]
    OBVIOUS
  <2> HIDE DEF cs
  <2> QED BY <1>1, <2>1, <2>2, Zenon
<1>6. got'[c] = got[c] \o w
  BY <1>1
<1>7. got'[c] \in Seq(Byte) /\ Len(got'[c]) <= Len(Image)
  BY <1>6, Written
<1>8. got' = [got EXCEPT ![c] = got'[c]]
  BY <1>6
<1>9. got' \in [Conn -> Seq(Byte)]
  BY <1>1, <1>7, <1>8, Zenon
<1>10. \A d \in Conn : Len(got'[d]) <= Len(Image)
  <2> SUFFICES ASSUME NEW d \in Conn PROVE Len(got'[d]) <= Len(Image)
    OBVIOUS
  <2>1. d # c => got'[d] = got[d]
    BY <1>1
  <2> QED BY <1>1, <1>7, <2>1
<1> QED BY <1>4, <1>5, <1>9, <1>10 DEF CopyingTypeOK

\* Steps that leave a group of variables alone.
LEMMA TypesKept ==
    /\ LifeTypeOK /\ UNCHANGED life => LifeTypeOK'
    /\ HandlingTypeOK /\ UNCHANGED handling => HandlingTypeOK'
    /\ CopyingTypeOK /\ UNCHANGED copying => CopyingTypeOK'
    /\ BackendTypeOK /\ UNCHANGED backend => BackendTypeOK'
<1>1. LifeTypeOK /\ UNCHANGED life => LifeTypeOK'
  BY DEF LifeTypeOK, life
<1>2. HandlingTypeOK /\ UNCHANGED handling => HandlingTypeOK'
  <2> SUFFICES ASSUME HandlingTypeOK, UNCHANGED handling PROVE HandlingTypeOK'
    OBVIOUS
  <2>1. req' = req /\ stage' = stage /\ remote' = remote /\ patch' = patch /\ status' = status
    BY DEF handling
  <2> QED BY <2>1, Zenon DEF HandlingTypeOK
<1>3. CopyingTypeOK /\ UNCHANGED copying => CopyingTypeOK'
  BY DEF CopyingTypeOK, copying
<1>4. BackendTypeOK /\ UNCHANGED backend => BackendTypeOK'
  BY DEF BackendTypeOK, backend
<1> QED BY <1>1, <1>2, <1>3, <1>4

\* A handler that ends or goes on with a status code keeps the types.
LEMMA FinishType ==
    ASSUME HandlingTypeOK, NEW c \in Conn, NEW how \in {"copy"} \cup Ended,
           NEW code \in StatusCode, Finish(c, how, code), UNCHANGED <<req, remote, patch>>
    PROVE  HandlingTypeOK'
<1>1. /\ stage \in [Conn -> {"idle", "route", "upstream", "copy"} \cup Ended]
      /\ status \in [Conn -> StatusCode]
      /\ stage' = [stage EXCEPT ![c] = how] /\ status' = [status EXCEPT ![c] = code]
      /\ how \in {"idle", "route", "upstream", "copy"} \cup Ended
  <2>1. /\ stage \in [Conn -> {"idle", "route", "upstream", "copy"} \cup Ended]
        /\ status \in [Conn -> StatusCode]
    BY Zenon DEF HandlingTypeOK
  <2>2. stage' = [stage EXCEPT ![c] = how] /\ status' = [status EXCEPT ![c] = code]
    BY DEF Finish
  <2> QED BY <2>1, <2>2
<1>2. stage' \in [Conn -> {"idle", "route", "upstream", "copy"} \cup Ended]
  BY <1>1
<1>3. status' \in [Conn -> StatusCode]
  BY <1>1
<1>4. req' = req /\ remote' = remote /\ patch' = patch
  OBVIOUS
<1> QED BY <1>2, <1>3, <1>4, Zenon DEF HandlingTypeOK

\* Every step keeps the types.
LEMMA TypeStep == HttpInv /\ [Next]_vars => TypeOK'
<1> SUFFICES ASSUME HttpInv, [Next]_vars PROVE TypeOK'
  OBVIOUS
<1>0. LifeTypeOK /\ HandlingTypeOK /\ CopyingTypeOK /\ BackendTypeOK
  BY DEF HttpInv, TypeOK
<1>a. \A c \in Conn : req[c] # NoRequest => req[c] \in Requests
  BY Typed DEF HttpInv
<1> USE <1>0, TypesKept DEF TypeOK
<1>1. CASE Listen \/ Cancel \/ Shutdown
  <2>1. LifeTypeOK'
    BY <1>1 DEF Listen, Cancel, Shutdown, LifeTypeOK
  <2> QED BY <1>1, <2>1 DEF Listen, Cancel, Shutdown
<1>2. CASE Exit
  <2>1. LifeTypeOK'
    BY <1>2 DEF Exit, LifeTypeOK
  <2>2. HandlingTypeOK'
    <3>1. \A c \in Conn : (IF stage[c] \in Ended \cup {"idle"} THEN stage[c] ELSE "cut")
                            \in {"idle", "route", "upstream", "copy"} \cup Ended
      BY DEF Ended
    <3>2. stage' = [c \in Conn |-> IF stage[c] \in Ended \cup {"idle"} THEN stage[c] ELSE "cut"]
      BY <1>2 DEF Exit
    <3>3. stage' \in [Conn -> {"idle", "route", "upstream", "copy"} \cup Ended]
      BY <3>1, <3>2
    <3> QED BY <1>2, <3>3 DEF Exit, HandlingTypeOK
  <2>3. CopyingTypeOK'
    <3>1. 0 \in 0..(Len(Image) + 1)
      BY ImageAssumption
    <3>2. pos' \in [Conn -> 0..(Len(Image) + 1)]
      BY <1>2, <3>1, Zenon DEF Exit
    <3>3. cuts \in [Conn -> SUBSET (1..(Len(Image) + 1))]
      BY Zenon DEF CopyingTypeOK
    <3>4. cuts' \in [Conn -> SUBSET (1..(Len(Image) + 1))]
      BY <1>2, <3>3 DEF Exit
    <3> QED BY <1>2, <3>2, <3>4, Zenon DEF Exit, CopyingTypeOK
  <2> QED BY <1>2, <2>1, <2>2, <2>3 DEF Exit
<1>3. ASSUME NEW m \in Mac, NEW rec \in Rec \cup {Absent}, Update(m, rec) PROVE TypeOK'
  <2>1. records' \in [Mac -> Rec \cup {Absent}]
    BY <1>3 DEF Update, BackendTypeOK
  <2>2. updates' \in 0..MaxUpdates
    BY <1>3, BoundsAssumption DEF Update, BackendTypeOK
  <2>3. held' \in [Conn -> SUBSET (Rec \cup {Absent})]
    BY <1>3 DEF Update, BackendTypeOK
  <2>4. BackendTypeOK'
    BY <2>1, <2>2, <2>3 DEF BackendTypeOK
  <2> QED BY <1>3, <2>4 DEF Update
<1>4. ASSUME NEW c \in Conn, NEW q \in Request[c], Accept(c, q) PROVE TypeOK'
  <2>1. q \in Requests
    BY DEF Requests
  <2>2. RemoteAddr(PeerOf(q.client, q.via), HeaderOf(q.client, q.sent, q.via)) \in Addr \cup {""}
    BY <2>1, RemoteAddrType
  <2>3. HandlingTypeOK'
    <3>1. /\ req \in [Conn -> Requests \cup {NoRequest}] /\ remote \in [Conn -> Addr \cup {""}]
          /\ stage \in [Conn -> {"idle", "route", "upstream", "copy"} \cup Ended]
      BY Zenon DEF HandlingTypeOK
    <3>2. req' \in [Conn -> Requests \cup {NoRequest}]
      BY <1>4, <2>1, <3>1 DEF Accept
    <3>3. remote' \in [Conn -> Addr \cup {""}]
      BY <1>4, <2>2, <3>1 DEF Accept
    <3>4. stage' \in [Conn -> {"idle", "route", "upstream", "copy"} \cup Ended]
      BY <1>4, <3>1 DEF Accept
    <3>5. patch' = patch /\ status' = status
      BY <1>4 DEF Accept
    <3> QED BY <3>2, <3>3, <3>4, <3>5, Zenon DEF HandlingTypeOK
  <2>4. (IF q.route = "iso" THEN {records[q.mac]} ELSE {}) \in SUBSET (Rec \cup {Absent})
    BY <2>1, RequestAssumption DEF BackendTypeOK
  <2>5. BackendTypeOK'
    BY <1>4, <2>4 DEF Accept, BackendTypeOK
  <2> QED BY <1>4, <2>3, <2>5 DEF Accept
<1>5. ASSUME NEW c \in Conn, ServeOther(c) \/ Refuse(c) \/ UpstreamError(c) PROVE TypeOK'
  <2>1. "done" \in Ended
    BY DEF Ended
  <2>2. UNCHANGED <<life, copying, backend>> /\ UNCHANGED <<req, remote, patch>>
    BY <1>5 DEF ServeOther, Refuse, UpstreamError
  <2>3. \E code \in StatusCode : Finish(c, "done", code)
    BY <1>5 DEF ServeOther, Refuse, UpstreamError, StatusCode
  <2>4. HandlingTypeOK'
    BY <2>1, <2>2, <2>3, FinishType
  <2> QED BY <2>2, <2>4
<1>6. ASSUME NEW c \in Conn, RoundTrip(c) PROVE TypeOK'
  <2>1. req[c] \in Requests /\ req[c].mac \in Mac
    <3>1. ConnInv(c) /\ stage[c] = "route" /\ req[c].route = "iso"
      BY <1>6 DEF RoundTrip, HttpInv
    <3>2. req[c] # NoRequest
      BY <3>1 DEF ConnInv, Staged
    <3> QED BY <1>a, <3>1, <3>2, RequestAssumption
  <2>2. records[req[c].mac] \in Rec
    BY <1>6, <2>1 DEF RoundTrip, BackendTypeOK
  <2>3. ConstructPatch(req[c].mac, records[req[c].mac]) \in Seq(Byte)
    BY <2>1, <2>2, ConstructPatchType
  <2>4. HandlingTypeOK'
    BY <1>6, <2>3 DEF RoundTrip, HandlingTypeOK
  <2> QED BY <1>6, <2>4 DEF RoundTrip
<1>7. ASSUME NEW c \in Conn, UpstreamResponse(c) PROVE TypeOK'
  <2>1. HandlingTypeOK'
    <3>1. UNCHANGED <<req, remote, patch>> /\ \E code \in StatusCode : Finish(c, "copy", code)
      BY <1>7 DEF UpstreamResponse, StatusCode
    <3> QED BY <3>1, FinishType
  <2>2. req[c].lo \in 1..(Len(Image) + 1) /\ req[c].lo \in 0..(Len(Image) + 1)
    <3>1. IsIso(c)
      BY <1>7 DEF UpstreamResponse, HttpInv, ConnInv, Staged
    <3> QED BY <3>1, IsoRequestIs
  <2>3. pos' \in [Conn -> 0..(Len(Image) + 1)]
    BY <1>7, <2>2, Zenon DEF UpstreamResponse, CopyingTypeOK
  <2>4. {req[c].lo} \in SUBSET (1..(Len(Image) + 1))
    BY <2>2
  <2>5. cuts' \in [Conn -> SUBSET (1..(Len(Image) + 1))]
    BY <1>7, <2>4, Zenon DEF UpstreamResponse, CopyingTypeOK
  <2>6. CopyingTypeOK'
    BY <1>7, <2>3, <2>5, Zenon DEF UpstreamResponse, CopyingTypeOK
  <2> QED BY <1>7, <2>1, <2>6 DEF UpstreamResponse
<1>8. ASSUME NEW c \in Conn, Copying(c) PROVE TypeOK'
  <2>1. PICK n \in Nat, w \in Seq(Byte), how \in {"copy", "done", "aborted"} : CopyEffect(c, n, w, how)
    BY <1>8, CopyStep
  <2>2. CopyingTypeOK'
    BY <2>1, CopyType
  <2>3. HandlingTypeOK'
    <3>1. how \in {"idle", "route", "upstream", "copy"} \cup Ended
      BY DEF Ended
    <3> QED BY <2>1, <3>1 DEF CopyEffect, HandlingTypeOK
  <2> QED BY <2>1, <2>2, <2>3 DEF CopyEffect
<1>9. CASE UNCHANGED vars
  BY <1>9 DEF vars
<1> QED BY <1>1, <1>2, <1>3, <1>4, <1>5, <1>6, <1>7, <1>8, <1>9 DEF Next

-----------------------------------------------------------------------------
(* The invariant of a connection is kept. *)

\* Every variable of the handlers has a value for every connection.
LEMMA Domains ==
    ASSUME TypeOK
    PROVE  /\ DOMAIN req = Conn /\ DOMAIN stage = Conn /\ DOMAIN remote = Conn /\ DOMAIN patch = Conn
           /\ DOMAIN status = Conn /\ DOMAIN pos = Conn /\ DOMAIN cuts = Conn /\ DOMAIN got = Conn
           /\ DOMAIN held = Conn
<1>1. DOMAIN req = Conn /\ DOMAIN stage = Conn /\ DOMAIN remote = Conn /\ DOMAIN patch = Conn /\ DOMAIN status = Conn
  <2>1. /\ req \in [Conn -> Requests \cup {NoRequest}] /\ remote \in [Conn -> Addr \cup {""}]
        /\ stage \in [Conn -> {"idle", "route", "upstream", "copy"} \cup Ended]
        /\ patch \in [Conn -> Seq(Byte)] /\ status \in [Conn -> StatusCode]
    BY Zenon DEF TypeOK, HandlingTypeOK
  <2> QED BY <2>1, Zenon
<1>2. DOMAIN pos = Conn /\ DOMAIN cuts = Conn /\ DOMAIN got = Conn
  BY Zenon DEF TypeOK, CopyingTypeOK
<1>3. DOMAIN held = Conn
  BY Zenon DEF TypeOK, BackendTypeOK
<1> QED BY <1>1, <1>2, <1>3

\* A step that leaves d alone keeps d's invariant, if what d is patched with
\* still comes from what the backend held.
LEMMA Untouched ==
    ASSUME NEW d \in Conn, ConnInv(d), Sourced(d)',
           req'[d] = req[d], stage'[d] = stage[d], remote'[d] = remote[d], patch'[d] = patch[d],
           status'[d] = status[d], pos'[d] = pos[d], cuts'[d] = cuts[d], got'[d] = got[d]
    PROVE  ConnInv(d)'
<1>1. Staged(d)' /\ Known(d)'
  BY DEF ConnInv, Staged, Known, IsIso
<1>2. InStep(d)' /\ Whole(d)'
  BY DEF ConnInv, InStep, Whole, IsIso
<1>3. InPlace(d)'
  BY DEF ConnInv, InPlace, IsIso
<1>4. Patched(d)'
  <2>1. \A o : Missed(d, o)' <=> Missed(d, o)
    BY DEF Missed
  <2> QED BY <2>1 DEF ConnInv, Patched, IsIso
<1> QED BY <1>1, <1>2, <1>3, <1>4 DEF ConnInv

\* The same, of a step that leaves the backend alone too.
LEMMA OthersUntouched ==
    ASSUME NEW d \in Conn, ConnInv(d), records' = records, held'[d] = held[d],
           req'[d] = req[d], stage'[d] = stage[d], remote'[d] = remote[d], patch'[d] = patch[d],
           status'[d] = status[d], pos'[d] = pos[d], cuts'[d] = cuts[d], got'[d] = got[d]
    PROVE  ConnInv(d)'
<1>1. Sourced(d)'
  BY DEF ConnInv, Sourced, IsIso
<1> QED BY <1>1, Untouched

\* A handler that ends without having copied anything.
LEMMA EndedEarly ==
    ASSUME NEW c \in Conn, ConnInv(c), records' = records, held'[c] = held[c], stage[c] # "idle",
           got[c] = <<>>, req'[c] = req[c], remote'[c] = remote[c], patch'[c] = patch[c], got'[c] = <<>>,
           stage'[c] \in Ended, IsIso(c) /\ stage'[c] = "done" => status'[c] \notin {200, 206}
    PROVE  ConnInv(c)'
<1>1. stage'[c] \notin {"idle", "route", "upstream", "copy"}
  BY DEF Ended
<1>2. IsIso(c)' <=> IsIso(c)
  BY DEF IsIso
<1>3. Staged(c)' /\ Known(c)'
  BY <1>1, <1>2 DEF ConnInv, Staged, Known
<1>4. Sourced(c)'
  BY <1>1, <1>2 DEF ConnInv, Sourced
<1>5. InStep(c)' /\ Whole(c)' /\ Patched(c)'
  BY <1>1, <1>2 DEF InStep, Whole, Patched
<1>6. InPlace(c)'
  BY DEF InPlace
<1> QED BY <1>3, <1>4, <1>5, <1>6 DEF ConnInv

\* The end of the process.
LEMMA ExitStep ==
    ASSUME HttpInv, Exit, NEW d \in Conn
    PROVE  ConnInv(d)'
<1>0. ConnInv(d) /\ TypeOK
  BY DEF HttpInv
<1>1. /\ req' = req /\ remote' = remote /\ patch' = patch /\ status' = status /\ got' = got
      /\ records' = records /\ held' = held
      /\ stage'[d] = (IF stage[d] \in Ended \cup {"idle"} THEN stage[d] ELSE "cut")
      /\ cuts'[d] = (IF stage[d] = "done" THEN cuts[d] ELSE {})
  BY DEF Exit, backend
<1>2. IsIso(d)' <=> IsIso(d)
  BY <1>1 DEF IsIso
<1>3. stage'[d] \notin {"route", "upstream", "copy"} /\ (stage'[d] = "idle" <=> stage[d] = "idle")
      /\ (stage'[d] = "done" <=> stage[d] = "done")
  BY <1>1 DEF Ended
<1>4. Staged(d)' /\ Known(d)'
  BY <1>0, <1>1, <1>2, <1>3 DEF ConnInv, Staged, Known
<1>5. Sourced(d)'
  BY <1>0, <1>1, <1>2, <1>3 DEF ConnInv, Sourced
<1>6. InStep(d)' /\ Whole(d)'
  BY <1>0, <1>1, <1>2, <1>3 DEF ConnInv, InStep, Whole
<1>7. InPlace(d)'
  BY <1>0, <1>1, <1>2 DEF ConnInv, InPlace
<1>8. Patched(d)'
  <2>1. CASE stage[d] = "done"
    <3>1. \A o : Missed(d, o)' <=> Missed(d, o)
      BY <1>1, <2>1 DEF Missed
    <3> QED BY <1>0, <1>1, <1>2, <1>3, <2>1, <3>1 DEF ConnInv, Patched
  <2>2. CASE stage[d] # "done"
    BY <1>3, <2>2 DEF Patched
  <2> QED BY <2>1, <2>2
<1> QED BY <1>4, <1>5, <1>6, <1>7, <1>8 DEF ConnInv

\* A change of a record.
LEMMA UpdateStep ==
    ASSUME HttpInv, NEW m \in Mac, NEW rec \in Rec \cup {Absent}, Update(m, rec), NEW d \in Conn
    PROVE  ConnInv(d)'
<1>0. ConnInv(d) /\ TypeOK
  BY DEF HttpInv
<1>1. UNCHANGED <<req, stage, remote, patch, status, pos, cuts, got>>
  BY DEF Update, handling, copying
<1>2. IsIso(d)' <=> IsIso(d)
  BY <1>1 DEF IsIso
<1>3. records \in [Mac -> Rec \cup {Absent}] /\ records' = [records EXCEPT ![m] = rec]
  BY <1>0 DEF Update, TypeOK, BackendTypeOK
<1>4. held'[d] = (IF stage[d] # "idle" /\ req[d].route = "iso" /\ req[d].mac = m
                  THEN held[d] \cup {rec} ELSE held[d])
  BY DEF Update
<1>5. ASSUME IsIso(d) PROVE records'[req[d].mac] \in held'[d]
  <2>1. req[d].mac \in Mac /\ req[d].route = "iso" /\ stage[d] # "idle"
    BY <1>0, <1>5, IsoRequestIs DEF ConnInv, Staged, IsIso
  <2>2. records[req[d].mac] \in held[d]
    BY <1>0, <1>5 DEF ConnInv, Sourced
  <2> QED BY <1>3, <1>4, <2>1, <2>2
<1>6. held[d] \subseteq held'[d]
  BY <1>4
<1>7. Sourced(d)'
  BY <1>0, <1>1, <1>2, <1>5, <1>6 DEF ConnInv, Sourced
<1> QED BY <1>0, <1>1, <1>7, Untouched

\* A request is accepted.
LEMMA AcceptStep ==
    ASSUME HttpInv, NEW c \in Conn, NEW q \in Request[c], Accept(c, q)
    PROVE  ConnInv(c)'
<1>0. ConnInv(c) /\ TypeOK
  BY DEF HttpInv
<1>1. q \in Requests /\ q # NoRequest
  BY ConnAssumption DEF Requests
<1>2. /\ req'[c] = q /\ stage'[c] = "route" /\ got' = got /\ records' = records
      /\ remote'[c] = RemoteAddr(PeerOf(q.client, q.via), HeaderOf(q.client, q.sent, q.via))
      /\ held'[c] = (IF q.route = "iso" THEN {records[q.mac]} ELSE {})
  BY <1>0, Domains DEF Accept, copying
<1>3. got'[c] = <<>>
  BY <1>0, <1>2 DEF Accept, ConnInv, Staged
<1>4. Staged(c)' /\ Known(c)'
  BY <1>1, <1>2, <1>3 DEF Staged, Known
<1>5. Sourced(c)'
  BY <1>1, <1>2, <1>3 DEF Sourced, IsIso
<1>6. InStep(c)' /\ Whole(c)' /\ Patched(c)'
  BY <1>2 DEF InStep, Whole, Patched
<1>7. InPlace(c)'
  BY <1>3 DEF InPlace
<1> QED BY <1>4, <1>5, <1>6, <1>7 DEF ConnInv

\* RoundTrip puts the patch in the context.
LEMMA RoundTripStep ==
    ASSUME HttpInv, NEW c \in Conn, RoundTrip(c)
    PROVE  ConnInv(c)'
<1>0. ConnInv(c) /\ TypeOK /\ stage[c] = "route" /\ IsIso(c)
  BY DEF HttpInv, RoundTrip, ConnInv, Staged, IsIso
<1>1. /\ req' = req /\ remote' = remote /\ got' = got /\ records' = records /\ held' = held
      /\ stage'[c] = "upstream" /\ patch'[c] = ConstructPatch(req[c].mac, records[req[c].mac])
  BY <1>0, Domains DEF RoundTrip, copying, backend
<1>2. got'[c] = <<>>
  BY <1>0, <1>1 DEF ConnInv, Staged
<1>3. IsIso(c)'
  BY <1>0, <1>1 DEF IsIso
<1>4. Staged(c)' /\ Known(c)'
  BY <1>0, <1>1, <1>2, <1>3 DEF ConnInv, Staged, Known
<1>5. Sourced(c)'
  <2>1. records[req[c].mac] \in held[c] /\ records[req[c].mac] # Absent
    BY <1>0 DEF ConnInv, Sourced, RoundTrip
  <2>2. records[req[c].mac] \in Rec
    BY <1>0, <2>1, Typed
  <2> QED BY <1>1, <2>1, <2>2 DEF Sourced
<1>6. InStep(c)' /\ Whole(c)' /\ Patched(c)'
  BY <1>1 DEF InStep, Whole, Patched
<1>7. InPlace(c)'
  BY <1>2 DEF InPlace
<1> QED BY <1>4, <1>5, <1>6, <1>7 DEF ConnInv

\* The copy starts.
LEMMA ResponseStep ==
    ASSUME HttpInv, NEW c \in Conn, UpstreamResponse(c)
    PROVE  ConnInv(c)'
<1>0. ConnInv(c) /\ TypeOK /\ stage[c] = "upstream" /\ IsIso(c)
  BY DEF HttpInv, UpstreamResponse, ConnInv, Staged
<1>1. /\ req' = req /\ remote' = remote /\ got' = got /\ records' = records /\ held' = held /\ patch' = patch
      /\ stage'[c] = "copy" /\ pos'[c] = req[c].lo /\ cuts'[c] = {req[c].lo}
  BY <1>0, Domains DEF UpstreamResponse, Finish, backend
<1>2. got'[c] = <<>>
  BY <1>0, <1>1 DEF ConnInv, Staged
<1>3. IsIso(c)'
  BY <1>0, <1>1 DEF IsIso
<1>4. Staged(c)' /\ Known(c)'
  BY <1>0, <1>1, <1>2, <1>3 DEF ConnInv, Staged, Known
<1>5. Sourced(c)'
  BY <1>0, <1>1 DEF ConnInv, Sourced
<1>6. InStep(c)'
  <2>1. req[c].lo \in Nat /\ req[c].hi \in Nat /\ req[c].lo <= req[c].hi
    BY <1>0, IsoRequestIs
  <2>2. Len(got'[c]) = 0
    BY <1>2
  <2> QED BY <1>1, <2>1, <2>2 DEF InStep
<1>7. Whole(c)'
  BY <1>1 DEF Whole
<1>8. InPlace(c)'
  BY <1>2 DEF InPlace
<1>9. Patched(c)'
  <2>1. req[c].lo \in Nat /\ Len(Magic) \in Nat \ {0} /\ Len(got'[c]) = 0
    BY <1>0, <1>2, IsoRequestIs, MagicAssumption
  <2>2. \A o \in Occurrences(Image) : o \in Nat
    BY ImageAssumption, MagicAssumption DEF Occurrences
  <2>3. \A o \in Occurrences(Image) : ~(req[c].lo <= o /\ o + Len(Magic) <= req[c].lo + Len(got'[c]))
    BY <2>1, <2>2
  <2> QED BY <1>1, <2>3 DEF Patched
<1> QED BY <1>4, <1>5, <1>6, <1>7, <1>8, <1>9 DEF ConnInv

\* A step of Copy's loop.
LEMMA CopyConn ==
    ASSUME HttpInv, NEW c \in Conn, NEW n \in Nat, NEW w \in Seq(Byte),
           NEW how \in {"copy", "done", "aborted"}, CopyEffect(c, n, w, how)
    PROVE  ConnInv(c)'
<1>0. /\ ConnInv(c) /\ TypeOK /\ stage[c] = "copy" /\ pos[c] + n <= req[c].hi + 1
      /\ Len(w) <= n /\ \A i \in 1..Len(w) : w[i] = Chunk(c, n)[i]
  BY DEF HttpInv, CopyEffect
<1>1. /\ req' = req /\ remote' = remote /\ records' = records /\ held' = held /\ patch' = patch /\ status' = status
      /\ stage'[c] = how /\ pos'[c] = pos[c] + n /\ got'[c] = got[c] \o w
      /\ how # "aborted" => cuts'[c] = cuts[c] \cup {pos[c] + n}
  BY <1>0, Domains DEF CopyEffect, backend
<1>2. IsIso(c) /\ IsIso(c)'
  BY <1>0, <1>1 DEF ConnInv, Staged, IsIso
<1>3. Len(got'[c]) = Len(got[c]) + Len(w) /\ Len(w) \in Nat /\ Len(got[c]) \in Nat /\ InPlace(c)'
  BY <1>0, <1>1, Written
<1>4. Staged(c)' /\ Known(c)'
  BY <1>0, <1>1, <1>2 DEF ConnInv, Staged, Known
<1>5. Sourced(c)'
  BY <1>0, <1>1, <1>2 DEF ConnInv, Sourced
<1>6. how # "aborted" => Len(w) = n
  BY <1>0, ChunkStart DEF CopyEffect
<1> DEFINE lo == req[c].lo  hi == req[c].hi  k == Len(got[c])  x == pos[c]
<1>7. /\ lo \in Nat /\ hi \in Nat /\ k \in Nat /\ x = lo + k /\ x + n <= hi + 1
      /\ \A y \in cuts[c] : y <= x /\ y \in Nat
  BY <1>0, <1>2, <1>3, IsoRequestIs, Typed DEF ConnInv, InStep
<1>8. how # "aborted" => Len(got'[c]) = k + n
  BY <1>3, <1>6
<1>9. InStep(c)'
  <2> SUFFICES ASSUME how = "copy"
               PROVE  /\ pos'[c] = req'[c].lo + Len(got'[c]) /\ pos'[c] <= req'[c].hi + 1
                      /\ pos'[c] \in cuts'[c] /\ \A y \in cuts'[c] : y <= pos'[c]
    BY <1>1 DEF InStep
  <2>1. pos'[c] = x + n /\ req'[c].lo = lo /\ req'[c].hi = hi /\ cuts'[c] = cuts[c] \cup {x + n} /\ Len(got'[c]) = k + n
    BY <1>1, <1>8
  <2> HIDE DEF lo, hi, k, x
  <2>2. x + n = lo + (k + n) /\ x + n <= hi + 1
    BY <1>7
  <2>3. \A y \in cuts[c] \cup {x + n} : y <= x + n
    BY <1>7
  <2> QED BY <2>1, <2>2, <2>3
<1>10. Whole(c)'
  <2> SUFFICES ASSUME how = "done" PROVE Len(got'[c]) = hi - lo + 1
    BY <1>1 DEF Whole
  <2>1. x + n = hi + 1
    BY DEF CopyEffect
  <2>2. Len(got'[c]) = k + n
    BY <1>8
  <2> HIDE DEF lo, hi, k, x
  <2> QED BY <1>7, <2>1, <2>2
<1>11. Patched(c)'
  <2>1. CASE how = "aborted"
    BY <1>1, <2>1 DEF Patched
  <2>2. CASE how # "aborted"
    <3>1. w = Chunk(c, n)
      BY <2>2 DEF CopyEffect
    <3> QED BY <1>0, <1>1, <2>2, <3>1, SeenIsPatched
  <2> QED BY <2>1, <2>2
<1> QED BY <1>3, <1>4, <1>5, <1>9, <1>10, <1>11 DEF ConnInv

\* Every step keeps the invariant of every connection.
LEMMA ConnStep == HttpInv /\ [Next]_vars => \A d \in Conn : ConnInv(d)'
<1> SUFFICES ASSUME HttpInv, [Next]_vars, NEW d \in Conn PROVE ConnInv(d)'
  OBVIOUS
<1>0. ConnInv(d) /\ TypeOK
  BY DEF HttpInv
<1>1. CASE Listen \/ Cancel \/ Shutdown \/ UNCHANGED vars
  <2>1. UNCHANGED <<req, stage, remote, patch, status, pos, cuts, got, records, held>>
    BY <1>1 DEF Listen, Cancel, Shutdown, vars, handling, copying, backend
  <2> QED BY <1>0, <2>1, OthersUntouched
<1>2. CASE Exit
  BY <1>2, ExitStep
<1>3. ASSUME NEW m \in Mac, NEW rec \in Rec \cup {Absent}, Update(m, rec) PROVE ConnInv(d)'
  BY <1>3, UpdateStep
<1>4. ASSUME NEW c \in Conn, NEW q \in Request[c], Accept(c, q) PROVE ConnInv(d)'
  <2>1. CASE c = d
    BY <1>4, <2>1, AcceptStep
  <2>2. CASE c # d
    <3>1. /\ req'[d] = req[d] /\ stage'[d] = stage[d] /\ remote'[d] = remote[d] /\ held'[d] = held[d]
          /\ UNCHANGED <<patch, status, pos, cuts, got, records>>
      BY <1>0, <1>4, <2>2, Domains DEF Accept, copying
    <3> QED BY <1>0, <3>1, OthersUntouched
  <2> QED BY <2>1, <2>2
<1>5. ASSUME NEW c \in Conn, ServeOther(c) \/ Refuse(c) \/ UpstreamError(c) PROVE ConnInv(d)'
  <2>1. UNCHANGED <<req, remote, patch, pos, cuts, got, records, held>>
    BY <1>5 DEF ServeOther, Refuse, UpstreamError, copying, backend
  <2>2. PICK code \in {200, 400, 404, 500, 502} :
            Finish(c, "done", code) /\ (code = 200 => req[c].route # "iso")
    BY <1>5 DEF ServeOther, Refuse, UpstreamError
  <2>3. CASE c = d
    <3>1. stage[c] \in {"route", "upstream"}
      BY <1>5 DEF ServeOther, Refuse, UpstreamError
    <3>2. got[c] = <<>>
      BY <1>0, <2>3, <3>1 DEF ConnInv, Staged
    <3>3. stage'[c] = "done" /\ status'[c] = code /\ "done" \in Ended
      BY <1>0, <2>2, Domains DEF Finish, Ended
    <3>4. IsIso(c) => status'[c] \notin {200, 206}
      BY <2>2, <3>3 DEF IsIso
    <3> QED BY <1>0, <2>1, <2>3, <3>1, <3>2, <3>3, <3>4, EndedEarly
  <2>4. CASE c # d
    <3>1. stage'[d] = stage[d] /\ status'[d] = status[d]
      BY <1>0, <2>2, <2>4, Domains DEF Finish
    <3> QED BY <1>0, <2>1, <3>1, OthersUntouched
  <2> QED BY <2>3, <2>4
<1>6. ASSUME NEW c \in Conn, RoundTrip(c) PROVE ConnInv(d)'
  <2>1. CASE c = d
    BY <1>6, <2>1, RoundTripStep
  <2>2. CASE c # d
    <3>1. /\ stage'[d] = stage[d] /\ patch'[d] = patch[d]
          /\ UNCHANGED <<req, remote, status, pos, cuts, got, records, held>>
      BY <1>0, <1>6, <2>2, Domains DEF RoundTrip, copying, backend
    <3> QED BY <1>0, <3>1, OthersUntouched
  <2> QED BY <2>1, <2>2
<1>7. ASSUME NEW c \in Conn, UpstreamResponse(c) PROVE ConnInv(d)'
  <2>1. CASE c = d
    BY <1>7, <2>1, ResponseStep
  <2>2. CASE c # d
    <3>1. /\ stage'[d] = stage[d] /\ status'[d] = status[d] /\ pos'[d] = pos[d] /\ cuts'[d] = cuts[d]
          /\ UNCHANGED <<req, remote, patch, got, records, held>>
      BY <1>0, <1>7, <2>2, Domains DEF UpstreamResponse, Finish, backend
    <3> QED BY <1>0, <3>1, OthersUntouched
  <2> QED BY <2>1, <2>2
<1>8. ASSUME NEW c \in Conn, Copying(c) PROVE ConnInv(d)'
  <2>1. PICK n \in Nat, w \in Seq(Byte), how \in {"copy", "done", "aborted"} : CopyEffect(c, n, w, how)
    BY <1>8, CopyStep
  <2>2. CASE c = d
    BY <2>1, <2>2, CopyConn
  <2>3. CASE c # d
    <3>1. /\ stage'[d] = stage[d] /\ pos'[d] = pos[d] /\ cuts'[d] = cuts[d] /\ got'[d] = got[d]
          /\ UNCHANGED <<req, remote, patch, status, records, held>>
      BY <1>0, <2>1, <2>3, Domains DEF CopyEffect, backend
    <3> QED BY <1>0, <3>1, OthersUntouched
  <2> QED BY <2>2, <2>3
<1> QED BY <1>1, <1>2, <1>3, <1>4, <1>5, <1>6, <1>7, <1>8 DEF Next

-----------------------------------------------------------------------------
(* The theorems. *)

\* The types and, of each connection, how its handler's stage, what it read and
\* wrote and what it patched with belong together, in every state that the
\* server, its clients, the source and the backend can reach.
THEOREM HttpInvHolds == Spec => []HttpInv
<1>1. HttpInv /\ [Next]_vars => HttpInv'
  BY TypeStep, ConnStep DEF HttpInv
<1> QED BY <1>1, HttpInit, PTL DEF Spec

\* Every state is well typed; of an image, whatever the patch, never more is
\* written than it has.
THEOREM TypeCorrect == Spec => []TypeOK
<1>1. HttpInv => TypeOK
  BY DEF HttpInv
<1> QED BY <1>1, HttpInvHolds, PTL

\* Whatever X-Forwarded-For header a client outside the trusted subnets sends,
\* and however many trusted proxies pass its request on, xff.Handler resolves
\* its own address.
THEOREM ClientIsKnown == Spec => []ClientAddress
<1>1. HttpInv => ClientAddress
  <2> SUFFICES ASSUME HttpInv, NEW c \in Conn, stage[c] # "idle", ~Allowed(req[c].client),
                      \A i \in 1..Len(req[c].via) : Allowed(req[c].via[i])
               PROVE  remote[c] = req[c].client
    BY DEF ClientAddress
  <2>1. TypeOK /\ Staged(c) /\ Known(c)
    BY DEF HttpInv, ConnInv
  <2>2. req[c] \in Requests
    BY <2>1, Typed DEF Staged
  <2> QED BY <2>1, <2>2, RemoteAddrIsClient DEF Known
<1> QED BY <1>1, HttpInvHolds, PTL

\* However the reads of concurrent responses interleave with each other and with
\* changes of the records, the image that a machine gets has nothing but its own
\* patch in place of the magic string.
THEOREM PatchIsOwn == Spec => []OwnPatchInPlace
<1>1. HttpInv => OwnPatchInPlace
  <2> SUFFICES ASSUME HttpInv, NEW c \in Conn, IsIso(c), Len(patch[c]) <= Len(Magic)
               PROVE  \E rec \in held[c] : \A i \in 1..Len(got[c]) :
                        LET at == req[c].lo + i - 1
                        IN  \/ got[c][i] = Image[at]
                            \/ /\ rec # Absent
                               /\ \E o \in Occurrences(Image) :
                                    /\ at \in o..(o + Len(Magic) - 1)
                                    /\ got[c][i] = Padded(ConstructPatch(req[c].mac, rec))[at - o + 1]
    BY Zenon DEF OwnPatchInPlace
  <2>1. TypeOK /\ Sourced(c) /\ InPlace(c)
    BY DEF HttpInv, ConnInv
  <2>2. CASE got[c] = <<>>
    <3>1. records[req[c].mac] \in held[c]
      BY <2>1 DEF Sourced
    <3>2. 1..Len(got[c]) = {}
      BY <2>2
    <3> QED BY <3>1, <3>2
  <2>3. CASE got[c] # <<>>
    <3>1. PICK rec \in held[c] \cap Rec : patch[c] = ConstructPatch(req[c].mac, rec)
      BY <2>1, <2>3 DEF Sourced
    <3>2. rec \in held[c] /\ rec # Absent
      BY <3>1, ConnAssumption
    <3>3. ASSUME NEW i \in 1..Len(got[c])
          PROVE  Fits(got[c][i], req[c].lo + i - 1, ConstructPatch(req[c].mac, rec))
      BY <2>1, <3>1 DEF InPlace
    <3> QED BY <3>2, <3>3, Zenon DEF Fits
  <2> QED BY <2>2, <2>3
<1> QED BY <1>1, HttpInvHolds, PTL

\* A response that ends as a complete one has all the bytes asked for: an error
\* of the source, of the client or the end of the process always shows.
THEOREM ResponseIsComplete == Spec => []CompleteOrAborted
<1>1. HttpInv => CompleteOrAborted
  BY DEF HttpInv, ConnInv, Whole, CompleteOrAborted
<1> QED BY <1>1, HttpInvHolds, PTL

\* In whatever pieces the source is read, a magic string that is whole in one
\* piece, and the first there, is replaced in the response.
THEOREM SeenMagicIsReplaced == Spec => []PatchedWhereSeen
<1>1. HttpInv => PatchedWhereSeen
  <2> SUFFICES ASSUME HttpInv, NEW c \in Conn, IsIso(c), stage[c] = "done", status[c] \in {200, 206},
                      NEW o \in Occurrences(Image), InRange(c, o), ~Missed(c, o)
               PROVE  SubSeq(got[c], o - req[c].lo + 1, o - req[c].lo + Len(Magic)) = Padded(patch[c])
    BY DEF PatchedWhereSeen
  <2> DEFINE g == got[c]  lo == req[c].lo  hi == req[c].hi  L == Len(Magic)  p == patch[c]
             s == SubSeq(g, o - lo + 1, o - lo + L)
  <2>1. TypeOK /\ Whole(c) /\ Patched(c)
    BY DEF HttpInv, ConnInv
  <2>2. lo \in Nat \ {0} /\ hi \in Nat /\ L \in Nat \ {0} /\ g \in Seq(Byte) /\ p \in Seq(Byte)
    BY <2>1, IsoRequestIs, Typed, MagicAssumption
  <2>3. o \in Nat
    BY ImageAssumption, MagicAssumption DEF Occurrences
  <2>4. lo <= o /\ o + L - 1 <= hi
    BY DEF InRange
  <2>5. Len(g) = hi - lo + 1
    BY <2>1 DEF Whole
  <2>6. \A k \in 1..L : g[o - lo + k] = Padded(p)[k]
    <3>1. o + Len(Magic) <= req[c].lo + Len(got[c])
      <4> HIDE DEF g, lo, hi, L
      <4>1. o + L <= lo + Len(g)
        BY <2>2, <2>3, <2>4, <2>5
      <4> QED BY <4>1 DEF g, lo, L
    <3> QED BY <2>1, <2>4, <3>1 DEF Patched
  <2>7. Padded(p) \in Seq(Byte) /\ Len(Padded(p)) = L
    BY <2>2, PaddedType
  <2> HIDE DEF g, lo, hi, L, p
  <2>9. o - lo + 1 \in Int /\ o - lo + L \in Int /\ \A i \in (o - lo + 1)..(o - lo + L) : g[i] \in Byte
    BY <2>2, <2>3, <2>4, <2>5
  <2>10. /\ s \in Seq(Byte)
         /\ Len(s) = IF o - lo + 1 <= o - lo + L THEN (o - lo + L) - (o - lo + 1) + 1 ELSE 0
         /\ \A i \in 1..((o - lo + L) - (o - lo + 1) + 1) : s[i] = g[(o - lo + 1) + i - 1]
    BY <2>9, SubSeqProperties
  <2>11. Len(s) = L /\ (o - lo + L) - (o - lo + 1) + 1 = L
    BY <2>2, <2>3, <2>10
  <2> HIDE DEF s
  <2>12. \A i \in 1..L : s[i] = Padded(p)[i]
    <3> SUFFICES ASSUME NEW i \in 1..L PROVE s[i] = Padded(p)[i]
      OBVIOUS
    <3>1. (o - lo + 1) + i - 1 = o - lo + i
      BY <2>2, <2>3
    <3> QED BY <2>6, <2>10, <2>11, <3>1
  <2>13. s = Padded(p)
    BY <2>7, <2>10, <2>11, <2>12, SeqEqual
  <2> QED BY <2>13 DEF s, g, lo, L, p
<1> QED BY <1>1, HttpInvHolds, PTL
=============================================================================
