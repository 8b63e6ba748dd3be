------------------------ MODULE SyslogReceiverProofs ------------------------
(***************************************************************************)
(* A pooled syslog message has one owner at a time, for every number of    *)
(* parsers and datagrams and every way the pool hands messages out.        *)
(* And the receiver implements the safety part of SyslogLog.               *)
(***************************************************************************)
EXTENDS SyslogReceiver, FiniteSetTheorems, TLAPS

\* The capacity of the parse channel is a positive number.
LEMMA CapType == Cap \in Nat /\ Cap > 0
BY ParsersAssumption, FS_CardinalityType, FS_EmptySet DEF Cap

\* The receiver starts well typed, with nothing held.
LEMMA OwnerInit == Init => OwnerInv
<1> SUFFICES ASSUME Init PROVE OwnerInv
  OBVIOUS
<1> USE DEF Init
<1>0. /\ open \in BOOLEAN /\ err \in BOOLEAN /\ closed \in BOOLEAN
      /\ done \in BOOLEAN /\ ctxDone \in BOOLEAN
  BY Zenon
<1>1. sent \in 0..MaxDatagrams /\ sock \in Seq(1..MaxDatagrams)
  BY BoundsAssumption
<1>2. pool \subseteq Slot /\ content \in [Slot -> 0..MaxDatagrams]
  BY BoundsAssumption
<1>3. msg \in Slot \cup {NoSlot} /\ got \in Seq(1..MaxDatagrams)
  OBVIOUS
<1>4. parse \in Seq(Slot) /\ Len(parse) <= Cap
  BY CapType
<1>5. /\ parser \in [Parsers -> {"idle", "recv", "log", "put", "exit"}]
      /\ hold \in [Parsers -> Slot \cup {NoSlot}] /\ logged \in Seq(0..MaxDatagrams)
  OBVIOUS
<1>6. TypeOK
  BY <1>0, <1>1, <1>2, <1>3, <1>4, <1>5 DEF TypeOK
<1>7. HoldsByStage
  BY DEF HoldsByStage
<1>8. SingleOwner
  BY NoSlotAssumption DEF SingleOwner
<1> QED BY <1>6, <1>7, <1>8 DEF OwnerInv

\* Every step keeps the state well typed.
LEMMA TypeStep == OwnerInv /\ [Next]_vars => TypeOK'
<1> SUFFICES ASSUME OwnerInv, [Next]_vars PROVE TypeOK'
  OBVIOUS
<1> USE BoundsAssumption, CapType
    DEF OwnerInv, TypeOK, socket, pooled, reader, channel, workers, ending
<1>1. CASE Arrive
  <2>1. sent' \in 0..MaxDatagrams /\ sent' \in 1..MaxDatagrams
    BY <1>1 DEF Arrive
  <2>2. sock' \in Seq(1..MaxDatagrams)
    <3>1. CASE sock' = sock
      BY <3>1
    <3>2. CASE sock' = Append(sock, sent')
      BY <2>1, <3>2
    <3> QED BY <1>1, <3>1, <3>2 DEF Arrive
  <2> QED BY <1>1, <2>1, <2>2 DEF Arrive
<1>2. CASE Cancel
  BY <1>2 DEF Cancel
<1>15. CASE PoolDrop
  BY <1>15 DEF PoolDrop
<1>3. CASE StartReceiver
  BY <1>3 DEF StartReceiver
<1>4. ASSUME NEW s \in Slot, Get(s) PROVE TypeOK'
  <2>1. content' \in [Slot -> 0..MaxDatagrams]
    BY <1>4 DEF Get
  <2> QED BY <1>4, <2>1 DEF Get
<1>5. CASE Read
  <2>1. Head(sock) \in 1..MaxDatagrams /\ Tail(sock) \in Seq(1..MaxDatagrams)
    BY <1>5 DEF Read
  <2>2. content' \in [Slot -> 0..MaxDatagrams]
    <3>1. Head(sock) \in 0..MaxDatagrams
      BY <2>1
    <3> QED BY <1>5, <3>1 DEF Read
  <2>3. got' \in Seq(1..MaxDatagrams)
    BY <1>5, <2>1 DEF Read
  <2> QED BY <1>5, <2>1, <2>2, <2>3 DEF Read
<1>6. CASE ReadClosed \/ ReadFails
  <2>1. pool' \subseteq Slot
    BY <1>6 DEF ReadClosed, ReadFails, ReadError, HoldsByStage
  <2> QED BY <1>6, <2>1 DEF ReadClosed, ReadFails, ReadError
<1>7. CASE Send
  <2>1. parse' \in Seq(Slot) /\ Len(parse') <= Cap
    BY <1>7 DEF Send, HoldsByStage
  <2> QED BY <1>7, <2>1 DEF Send
<1>8. CASE SendPanics
  BY <1>8 DEF SendPanics
<1>9. CASE CleaningUp
  <2>1. CASE CloseConn
    <3>1. sock' \in Seq(1..MaxDatagrams)
      BY <2>1 DEF CloseConn
    <3> QED BY <2>1, <3>1 DEF CloseConn
  <2>2. CASE CloseParse
    BY <2>2 DEF CloseParse
  <2>3. CASE CloseDone
    BY <2>3 DEF CloseDone
  <2> QED BY <1>9, <2>1, <2>2, <2>3 DEF CleaningUp
<1>10. ASSUME NEW p \in Parsers, Receive(p) PROVE TypeOK'
  <2>1. Head(parse) \in Slot /\ parse' \in Seq(Slot) /\ Len(parse') <= Cap
    BY <1>10 DEF Receive
  <2> QED BY <1>10, <2>1 DEF Receive
<1>11. ASSUME NEW p \in Parsers, RangeEnds(p) PROVE TypeOK'
  BY <1>11 DEF RangeEnds
<1>12. ASSUME NEW p \in Parsers, Log(p) PROVE TypeOK'
  <2>1. content[hold[p]] \in 0..MaxDatagrams
    BY <1>12 DEF Log, HoldsByStage
  <2> QED BY <1>12, <2>1 DEF Log
<1>13. ASSUME NEW p \in Parsers, Put(p) PROVE TypeOK'
  <2>1. pool' \subseteq Slot
    BY <1>13 DEF Put, HoldsByStage
  <2> QED BY <1>13, <2>1 DEF Put
<1>14. CASE UNCHANGED vars
  BY <1>14 DEF vars
<1> QED
  BY <1>1, <1>2, <1>3, <1>4, <1>5, <1>6, <1>7, <1>8, <1>9, <1>10, <1>11, <1>12,
     <1>13, <1>14, <1>15 DEF Next, Running, Parsing

\* Every step keeps a message with one owner, and knows who holds one.
LEMMA OwnerStep == OwnerInv /\ [Next]_vars => HoldsByStage' /\ SingleOwner'
<1> SUFFICES ASSUME OwnerInv, [Next]_vars PROVE HoldsByStage' /\ SingleOwner'
  OBVIOUS
<1> USE NoSlotAssumption DEF OwnerInv, socket, pooled, reader, channel, workers, ending
<1>0. /\ parse \in Seq(Slot) /\ msg \in Slot \cup {NoSlot} /\ pool \subseteq Slot
      /\ hold \in [Parsers -> Slot \cup {NoSlot}]
      /\ parser \in [Parsers -> {"idle", "recv", "log", "put", "exit"}]
  BY DEF TypeOK
<1>1. CASE UNCHANGED <<pool, msg, run, parse, hold, parser>>
  BY <1>1 DEF HoldsByStage, SingleOwner
<1>2. CASE PoolDrop
  BY <1>2 DEF PoolDrop, HoldsByStage, SingleOwner
<1>3. CASE StartReceiver
  BY <1>0, <1>3 DEF StartReceiver, HoldsByStage, SingleOwner, TypeOK
<1>4. ASSUME NEW s \in Slot, Get(s) PROVE HoldsByStage' /\ SingleOwner'
  <2>1. /\ \A i \in 1..Len(parse) : parse[i] # s
        /\ \A p \in Parsers : hold[p] # s
    <3>1. CASE s \in pool
      BY <1>0, <3>1 DEF SingleOwner
    <3>2. CASE s \notin InUse
      BY <3>2 DEF InUse
    <3> QED BY <1>4, <3>1, <3>2 DEF Get
  <2>2. HoldsByStage'
    BY <1>4 DEF Get, HoldsByStage
  <2>3. SingleOwner'
    BY <1>0, <1>4, <2>1 DEF Get, SingleOwner
  <2> QED BY <2>2, <2>3
<1>5. CASE Read
  BY <1>5 DEF Read, HoldsByStage, SingleOwner
<1>6. CASE ReadClosed \/ ReadFails
  <2>1. ReadError
    BY <1>6 DEF ReadClosed, ReadFails
  <2>2. HoldsByStage'
    BY <2>1 DEF ReadError, HoldsByStage
  <2>3. SingleOwner'
    BY <1>0, <2>1 DEF ReadError, HoldsByStage, SingleOwner
  <2> QED BY <2>2, <2>3
<1>7. CASE Send
  <2>1. HoldsByStage'
    BY <1>7 DEF Send, HoldsByStage
  <2>2. /\ Len(parse') = Len(parse) + 1 /\ parse'[Len(parse) + 1] = msg /\ msg # NoSlot
        /\ \A i \in 1..Len(parse) : parse'[i] = parse[i]
        /\ Len(parse) \in Nat
    BY <1>0, <1>7 DEF Send, HoldsByStage
  <2>3. \A i \in 1..Len(parse') : i \in 1..Len(parse) \/ i = Len(parse) + 1
    BY <2>2
  <2>4. pool' = pool /\ hold' = hold /\ msg' = NoSlot
    BY <1>7 DEF Send
  <2>5. \A i \in 1..Len(parse') :
           /\ parse'[i] \in Slot /\ parse'[i] \notin pool
           /\ \A p \in Parsers : parse'[i] # hold[p]
    BY <1>0, <2>2, <2>3 DEF SingleOwner
  <2>6. \A i, j \in 1..Len(parse') : parse'[i] = parse'[j] => i = j
    BY <2>2, <2>3 DEF SingleOwner
  <2>7. \A p \in Parsers : hold[p] # NoSlot =>
           hold[p] \notin pool /\ \A q \in Parsers : hold[p] = hold[q] => p = q
    BY DEF SingleOwner
  <2>8. SingleOwner'
    BY <1>0, <2>4, <2>5, <2>6, <2>7 DEF SingleOwner
  <2> QED BY <2>1, <2>8
<1>8. CASE SendPanics
  BY <1>8 DEF SendPanics, HoldsByStage, SingleOwner
<1>9. CASE CleaningUp
  BY <1>1, <1>9 DEF CleaningUp, CloseConn, CloseParse, CloseDone
<1>10. ASSUME NEW p \in Parsers, Receive(p) PROVE HoldsByStage' /\ SingleOwner'
  <2>1. /\ Len(parse) \in Nat /\ 1 \in 1..Len(parse) /\ Head(parse) = parse[1]
        /\ Len(parse') = Len(parse) - 1 /\ parse[1] \in Slot
        /\ \A i \in 1..Len(parse') : i + 1 \in 1..Len(parse) /\ parse'[i] = parse[i + 1]
    BY <1>0, <1>10 DEF Receive
  <2>2. pool' = pool /\ msg' = msg /\ hold[p] = NoSlot
        /\ hold' = [hold EXCEPT ![p] = parse[1]]
    BY <1>10, <2>1 DEF Receive, HoldsByStage
  <2>3. HoldsByStage'
    BY <1>0, <1>10, <2>1 DEF Receive, HoldsByStage
  <2>4. \A q \in Parsers : hold'[q] = IF q = p THEN parse[1] ELSE hold[q]
    BY <1>0, <2>2
  <2>5. ASSUME NEW i \in 1..Len(parse')
        PROVE  /\ parse'[i] \notin pool /\ parse'[i] # msg
               /\ \A q \in Parsers : parse'[i] # hold'[q]
    <3>1. i + 1 \in 1..Len(parse) /\ i + 1 # 1 /\ parse'[i] = parse[i + 1]
      BY <2>1
    <3>2. parse[i + 1] # parse[1]
      BY <2>1, <3>1 DEF SingleOwner
    <3> QED BY <2>4, <3>1, <3>2 DEF SingleOwner
  <2>6. \A i, j \in 1..Len(parse') : parse'[i] = parse'[j] => i = j
    BY <2>1 DEF SingleOwner
  <2>7. \A q \in Parsers : hold'[q] # NoSlot =>
           /\ hold'[q] \notin pool /\ hold'[q] # msg
           /\ \A r \in Parsers : hold'[q] = hold'[r] => q = r
    BY <1>0, <2>1, <2>2 DEF SingleOwner
  <2>8. SingleOwner'
    BY <2>2, <2>5, <2>6, <2>7 DEF SingleOwner
  <2> QED BY <2>3, <2>8
<1>11. ASSUME NEW p \in Parsers, RangeEnds(p) PROVE HoldsByStage' /\ SingleOwner'
  BY <1>0, <1>11 DEF RangeEnds, HoldsByStage, SingleOwner
<1>12. ASSUME NEW p \in Parsers, Log(p) PROVE HoldsByStage' /\ SingleOwner'
  BY <1>0, <1>12 DEF Log, HoldsByStage, SingleOwner
<1>13. ASSUME NEW p \in Parsers, Put(p) PROVE HoldsByStage' /\ SingleOwner'
  <2>1. HoldsByStage'
    BY <1>0, <1>13 DEF Put, HoldsByStage
  <2>2. hold[p] \in Slot
    BY <1>0, <1>13 DEF Put, HoldsByStage
  <2>3. SingleOwner'
    BY <1>0, <1>13, <2>2 DEF Put, SingleOwner
  <2> QED BY <2>1, <2>3
<1>14. CASE Arrive \/ Cancel \/ UNCHANGED vars
  BY <1>1, <1>14 DEF Arrive, Cancel, vars
<1> QED
  BY <1>2, <1>3, <1>4, <1>5, <1>6, <1>7, <1>8, <1>9, <1>10, <1>11, <1>12,
     <1>13, <1>14 DEF Next, Running, Parsing

\* The inductive invariant holds in every behaviour of the receiver.
THEOREM OwnerInvHolds == Spec => []OwnerInv
<1>1. OwnerInv /\ [Next]_vars => OwnerInv'
  BY TypeStep, OwnerStep DEF OwnerInv
<1> QED BY OwnerInit, <1>1, PTL DEF Spec

\* The receiver's state keeps its types; the parse channel its capacity.
THEOREM TypeCorrect == Spec => []TypeOK
<1>1. OwnerInv => TypeOK
  BY DEF OwnerInv
<1> QED BY OwnerInvHolds, <1>1, PTL

\* No pooled message is ever shared by the pool, run, the parse channel and the
\* parsers, so no datagram is read into a buf that is still to be logged.
THEOREM OneOwner == Spec => []SingleOwner
<1>1. OwnerInv => SingleOwner
  BY DEF OwnerInv
<1> QED BY OwnerInvHolds, <1>1, PTL

-----------------------------------------------------------------------------
(* The receiver implements SyslogLog. *)

\* The socket gives datagrams in the order in which they were sent, none of them
\* read yet.
Fresh ==
    /\ LastGot \in 0..sent
    /\ \A i \in 1..Len(sock) : sock[i] > LastGot /\ sock[i] <= sent
    /\ \A i, j \in 1..Len(sock) : i < j => sock[i] < sock[j]

\* What is to be logged was read, and is in one message only.
Distinct ==
    /\ \A s \in Unlogged : content[s] \in 1..LastGot
    /\ \A s, t \in Unlogged : content[s] = content[t] => s = t

\* Parsers hold older datagrams than the channel, the channel is in order, and
\* run has the newest.
Aged ==
    /\ \A i, j \in 1..Len(parse) : i < j => content[parse[i]] < content[parse[j]]
    /\ \A p \in Parsers : parser[p] = "log" =>
         \A i \in 1..Len(parse) : content[hold[p]] < content[parse[i]]
    /\ run \in {"send", "panic"} =>
         /\ \A i \in 1..Len(parse) : content[parse[i]] < content[msg]
         /\ \A p \in Parsers : parser[p] = "log" => content[hold[p]] < content[msg]

\* The inductive invariant behind the refinement.
LogInv == OwnerInv /\ Fresh /\ Distinct /\ Aged

\* What an unlogged message is.
LEMMA UnloggedIs ==
    \A s : s \in Unlogged <=>
        \/ \E i \in 1..Len(parse) : s = parse[i]
        \/ \E p \in Parsers : parser[p] = "log" /\ s = hold[p]
        \/ run \in {"send", "panic"} /\ s = msg
BY DEF Unlogged

\* The same, of the next state.
LEMMA UnloggedIsNext ==
    \A s : s \in Unlogged' <=>
        \/ \E i \in 1..Len(parse') : s = parse'[i]
        \/ \E p \in Parsers : parser'[p] = "log" /\ s = hold'[p]
        \/ run' \in {"send", "panic"} /\ s = msg'
BY DEF Unlogged

\* A step that neither reads nor logs leaves what is to be logged as it is: a
\* message only moves from run over the channel to a parser.
Quiet ==
    /\ Unlogged' = Unlogged /\ \A s \in Unlogged : content'[s] = content[s]
    /\ got' = got /\ logged' = logged

\* Every step is quiet but those of Read and Log.
LEMMA QuietSteps ==
    ASSUME OwnerInv, [Next]_vars
    PROVE  \/ Read
           \/ \E p \in Parsers : Log(p)
           \/ Quiet /\ (Alive' = Alive \/ SendPanics)
<1> USE DEF socket, pooled, reader, channel, workers, ending
<1>0. /\ parse \in Seq(Slot) /\ msg \in Slot \cup {NoSlot} /\ pool \subseteq Slot
      /\ hold \in [Parsers -> Slot \cup {NoSlot}]
      /\ parser \in [Parsers -> {"idle", "recv", "log", "put", "exit"}]
      /\ content \in [Slot -> 0..MaxDatagrams]
  BY DEF OwnerInv, TypeOK
<1>1. CASE UNCHANGED <<parse, parser, hold, run, msg, content, got, logged>>
  BY <1>1 DEF Quiet, Unlogged, Alive
<1>2. CASE StartReceiver
  <2>1. \A p \in Parsers : parser[p] # "log" /\ parser'[p] # "log"
    BY <1>2 DEF StartReceiver, OwnerInv, HoldsByStage
  <2>2. run \notin {"send", "panic"} /\ run' \notin {"send", "panic"} /\ parse' = parse
    BY <1>2 DEF StartReceiver
  <2>3. \A s : s \in Unlogged' <=> s \in Unlogged
    BY <2>1, <2>2, UnloggedIs, UnloggedIsNext
  <2>4. Unlogged' = Unlogged
    BY <2>3
  <2> QED BY <1>2, <2>2, <2>4 DEF StartReceiver, Quiet, Alive
<1>3. ASSUME NEW s \in Slot, Get(s) PROVE Quiet /\ Alive' = Alive
  <2>1. run = "get" /\ run' = "read" /\ UNCHANGED <<parse, parser, hold, got, logged>>
    BY <1>3 DEF Get
  <2>2. Unlogged' = Unlogged
    BY <2>1 DEF Unlogged
  <2>3. ASSUME NEW t \in Unlogged PROVE content'[t] = content[t]
    <3>1. CASE s \in pool
      BY <1>0, <1>3, <3>1 DEF Get
    <3>2. CASE s \notin InUse
      <4>1. t # s
        BY <2>1, <3>2, UnloggedIs DEF InUse
      <4> QED BY <1>0, <1>3, <4>1 DEF Get
    <3> QED BY <1>3, <3>1, <3>2 DEF Get
  <2> QED BY <2>1, <2>2, <2>3 DEF Quiet, Alive
<1>4. CASE ReadClosed \/ ReadFails
  <2>1. /\ run = "read" /\ run' = "returned"
        /\ UNCHANGED <<parse, parser, hold, got, logged, content>>
    BY <1>4 DEF ReadClosed, ReadFails, ReadError
  <2>2. Unlogged' = Unlogged
    BY <2>1 DEF Unlogged
  <2> QED BY <2>1, <2>2 DEF Quiet, Alive
<1>5. CASE Send
  <2>1. /\ run = "send" /\ run' = "get" /\ parse' = Append(parse, msg) /\ msg \in Slot
        /\ UNCHANGED <<parser, hold, got, logged, content>>
    BY <1>0, <1>5 DEF Send, OwnerInv, HoldsByStage
  <2>2. /\ Len(parse') = Len(parse) + 1 /\ parse'[Len(parse) + 1] = msg
        /\ \A i \in 1..Len(parse) : parse'[i] = parse[i]
        /\ Len(parse) \in Nat
    BY <1>0, <2>1
  <2>3. \A s : (\E i \in 1..Len(parse') : s = parse'[i])
               <=> s = msg \/ \E i \in 1..Len(parse) : s = parse[i]
    BY <2>2
  <2>4. \A s : s \in Unlogged' <=> s \in Unlogged
    BY <2>1, <2>3, UnloggedIs, UnloggedIsNext
  <2>5. Unlogged' = Unlogged
    BY <2>4
  <2> QED BY <2>1, <2>5 DEF Quiet, Alive
<1>6. CASE SendPanics
  <2>1. run = "send" /\ run' = "panic"
        /\ UNCHANGED <<parse, parser, hold, msg, got, logged, content>>
    BY <1>6 DEF SendPanics
  <2>2. Unlogged' = Unlogged
    BY <2>1 DEF Unlogged
  <2> QED BY <1>6, <2>1, <2>2 DEF Quiet
<1>7. ASSUME NEW p \in Parsers, Receive(p) PROVE Quiet /\ Alive' = Alive
  <2>1. /\ parser[p] = "recv" /\ parser' = [parser EXCEPT ![p] = "log"]
        /\ hold' = [hold EXCEPT ![p] = Head(parse)]
        /\ parse # <<>> /\ parse' = Tail(parse)
        /\ UNCHANGED <<run, msg, got, logged, content>>
    BY <1>7 DEF Receive
  <2>2. /\ Len(parse) \in Nat /\ 1 \in 1..Len(parse) /\ Head(parse) = parse[1]
        /\ Len(parse') = Len(parse) - 1
        /\ \A i \in 1..Len(parse') : i + 1 \in 1..Len(parse) /\ parse'[i] = parse[i + 1]
    BY <1>0, <2>1
  <2>3. \A i \in 1..Len(parse) :
          i = 1 \/ (i - 1 \in 1..Len(parse') /\ parse'[i - 1] = parse[i])
    BY <2>2
  <2>4. \A s : (\E i \in 1..Len(parse) : s = parse[i])
               <=> s = parse[1] \/ \E i \in 1..Len(parse') : s = parse'[i]
    BY <2>2, <2>3
  <2>5. \A s : (\E q \in Parsers : parser'[q] = "log" /\ s = hold'[q])
               <=> s = parse[1] \/ \E q \in Parsers : parser[q] = "log" /\ s = hold[q]
    BY <1>0, <2>1, <2>2
  <2>6. \A s : s \in Unlogged' <=> s \in Unlogged
    <3>1. \A s : (run' \in {"send", "panic"} /\ s = msg')
                 <=> (run \in {"send", "panic"} /\ s = msg)
      BY <2>1
    <3> TAKE s
    <3>2. s \in Unlogged <=>
            \/ s = parse[1] \/ \E i \in 1..Len(parse') : s = parse'[i]
            \/ \E q \in Parsers : parser[q] = "log" /\ s = hold[q]
            \/ run \in {"send", "panic"} /\ s = msg
      BY <2>4, UnloggedIs, Zenon
    <3>3. s \in Unlogged' <=>
            \/ \E i \in 1..Len(parse') : s = parse'[i]
            \/ s = parse[1] \/ \E q \in Parsers : parser[q] = "log" /\ s = hold[q]
            \/ run \in {"send", "panic"} /\ s = msg
      BY <2>5, <3>1, UnloggedIsNext, Zenon
    <3> QED BY <3>2, <3>3
  <2>7. Unlogged' = Unlogged
    BY <2>6
  <2> QED BY <2>1, <2>7 DEF Quiet, Alive
<1>8. ASSUME NEW p \in Parsers, RangeEnds(p) \/ Put(p) PROVE Quiet /\ Alive' = Alive
  <2>1. /\ parser[p] # "log" /\ parser'[p] # "log"
        /\ \A q \in Parsers : q # p => parser'[q] = parser[q] /\ hold'[q] = hold[q]
        /\ UNCHANGED <<parse, run, msg, got, logged, content>>
    BY <1>0, <1>8 DEF RangeEnds, Put
  <2>2. \A s : (\E q \in Parsers : parser'[q] = "log" /\ s = hold'[q])
               <=> \E q \in Parsers : parser[q] = "log" /\ s = hold[q]
    BY <2>1
  <2>3. \A s : s \in Unlogged' <=> s \in Unlogged
    BY <2>1, <2>2, UnloggedIs, UnloggedIsNext
  <2>4. Unlogged' = Unlogged
    BY <2>3
  <2> QED BY <2>1, <2>4 DEF Quiet, Alive
<1>9. CASE Arrive \/ Cancel \/ PoolDrop \/ CleaningUp \/ UNCHANGED vars
  BY <1>1, <1>9 DEF Arrive, Cancel, PoolDrop, CleaningUp, CloseConn, CloseParse,
                    CloseDone, vars
<1> QED
  BY <1>1, <1>2, <1>3, <1>4, <1>5, <1>6, <1>7, <1>8, <1>9 DEF Next, Running, Parsing

\* Reading adds the datagram at the head of the socket, which is newer than all
\* that were read before.
LEMMA ReadStep ==
    ASSUME LogInv, Read
    PROVE  /\ Head(sock) \in Datagrams /\ Head(sock) > LastGot /\ LastGot' = Head(sock)
           /\ msg \notin Unlogged /\ msg' = msg /\ Unlogged' = Unlogged \cup {msg}
           /\ content'[msg] = Head(sock) /\ \A s \in Unlogged : content'[s] = content[s]
           /\ logged' = logged /\ Alive /\ Alive'
<1>0. /\ parse \in Seq(Slot) /\ msg \in Slot /\ hold \in [Parsers -> Slot \cup {NoSlot}]
      /\ content \in [Slot -> 0..MaxDatagrams] /\ sock \in Seq(1..MaxDatagrams)
      /\ got \in Seq(1..MaxDatagrams)
  BY DEF LogInv, OwnerInv, TypeOK, HoldsByStage, Read
<1>1. /\ run = "read" /\ run' = "send" /\ sock # <<>>
      /\ content' = [content EXCEPT ![msg] = Head(sock)]
      /\ got' = Append(got, Head(sock)) /\ sock' = Tail(sock)
      /\ UNCHANGED <<msg, parse, parser, hold, logged>>
  BY DEF Read, channel, workers
<1>2. 1 \in 1..Len(sock) /\ Head(sock) = sock[1] /\ Head(sock) \in Datagrams
  <2>1. sock \in Seq(1..MaxDatagrams) /\ sock # <<>>
    BY <1>0, <1>1
  <2>2. 1 \in 1..Len(sock) /\ Head(sock) = sock[1] /\ sock[1] \in 1..MaxDatagrams
    BY <2>1, BoundsAssumption
  <2> QED BY <2>2 DEF Datagrams
<1>3. Head(sock) > LastGot
  BY <1>2 DEF LogInv, Fresh
<1>4. LastGot' = Head(sock)
  <2>0. Len(got) \in Nat /\ Len(got') = Len(got) + 1 /\ got'[Len(got) + 1] = Head(sock)
    BY <1>0, <1>1, <1>2 DEF Datagrams
  <2>1. got' # <<>> /\ got'[Len(got')] = Head(sock)
    BY <2>0
  <2> QED BY <2>1 DEF LastGot
<1>5. msg \notin Unlogged
  <2>1. msg # NoSlot /\ run \notin {"send", "panic"} /\ SingleOwner
    BY <1>0, <1>1, NoSlotAssumption DEF LogInv, OwnerInv
  <2>2. \A i \in 1..Len(parse) : msg # parse[i]
    BY <2>1 DEF SingleOwner
  <2>3. \A p \in Parsers : msg # hold[p]
    BY <2>1 DEF SingleOwner
  <2> QED BY <2>1, <2>2, <2>3, UnloggedIs
<1>6. \A s : s \in Unlogged' <=> s \in Unlogged \/ s = msg
  BY <1>1, UnloggedIs, UnloggedIsNext
<1>7. Unlogged' = Unlogged \cup {msg}
  BY <1>6
<1>8. content'[msg] = Head(sock) /\ \A s \in Unlogged : content'[s] = content[s]
  <2>1. \A s \in Slot : s # msg => content'[s] = content[s]
    BY <1>0, <1>1
  <2>2. \A s \in Unlogged : s \in Slot
    <3>1. \A i \in 1..Len(parse) : parse[i] \in Slot
      BY <1>0
    <3>2. \A p \in Parsers : parser[p] = "log" => hold[p] \in Slot
      BY <1>0 DEF LogInv, OwnerInv, HoldsByStage
    <3>3. TAKE s \in Unlogged
    <3>4. CASE \E i \in 1..Len(parse) : s = parse[i]
      BY <3>1, <3>4
    <3>5. CASE \E p \in Parsers : parser[p] = "log" /\ s = hold[p]
      BY <3>2, <3>5
    <3>6. CASE s = msg
      BY <1>0, <3>6
    <3> QED BY <3>4, <3>5, <3>6, UnloggedIs
  <2> QED BY <1>0, <1>1, <1>5, <2>1, <2>2
<1> QED BY <1>1, <1>2, <1>3, <1>4, <1>5, <1>7, <1>8 DEF Alive

\* Logging takes one message away, and no other one has its datagram.
LEMMA LogStep ==
    ASSUME LogInv, NEW p \in Parsers, Log(p)
    PROVE  /\ hold[p] \in Unlogged /\ Unlogged' = Unlogged \ {hold[p]}
           /\ content' = content /\ got' = got
           /\ logged' = Append(logged, content[hold[p]]) /\ Alive /\ Alive'
<1>0. /\ parse \in Seq(Slot) /\ hold \in [Parsers -> Slot \cup {NoSlot}]
      /\ parser \in [Parsers -> {"idle", "recv", "log", "put", "exit"}]
  BY DEF LogInv, OwnerInv, TypeOK
<1>1. /\ Alive /\ parser[p] = "log" /\ parser' = [parser EXCEPT ![p] = "put"]
      /\ logged' = Append(logged, content[hold[p]])
      /\ UNCHANGED <<content, run, msg, got, parse, hold>>
  BY DEF Log, pooled, reader, channel
<1>2. hold[p] # NoSlot
  BY <1>1 DEF LogInv, OwnerInv, HoldsByStage
<1>3. hold[p] \in Unlogged
  BY <1>1, UnloggedIs
<1>4. /\ \A i \in 1..Len(parse) : hold[p] # parse[i]
      /\ hold[p] # msg
      /\ \A q \in Parsers : hold[p] = hold[q] => p = q
  BY <1>2 DEF LogInv, OwnerInv, SingleOwner
<1>5. \A q \in Parsers : parser'[q] = "log" <=> parser[q] = "log" /\ q # p
  BY <1>0, <1>1
<1>6. \A s : s \in Unlogged' <=> s \in Unlogged /\ s # hold[p]
  BY <1>1, <1>4, <1>5, UnloggedIs, UnloggedIsNext
<1>7. Unlogged' = Unlogged \ {hold[p]}
  BY <1>6
<1> QED BY <1>1, <1>3, <1>7 DEF Alive

\* Initially nothing has arrived.
LEMMA LogInit == Init => LogInv
<1> SUFFICES ASSUME Init PROVE LogInv
  OBVIOUS
<1>1. OwnerInv
  BY OwnerInit
<1>2. Unlogged = {}
  BY DEF Init, Unlogged
<1>3. Fresh
  BY DEF Init, Fresh, LastGot
<1>4. Distinct
  BY <1>2 DEF Distinct
<1>5. Aged
  BY DEF Init, Aged
<1> QED BY <1>1, <1>3, <1>4, <1>5 DEF LogInv

\* The socket stays in order.
LEMMA FreshStep == LogInv /\ [Next]_vars => Fresh'
<1> SUFFICES ASSUME LogInv, [Next]_vars PROVE Fresh'
  OBVIOUS
<1> USE DEF socket, pooled, reader, channel, workers, ending
<1>0. /\ sock \in Seq(1..MaxDatagrams) /\ sent \in Nat /\ LastGot \in Nat /\ LastGot <= sent
      /\ \A i \in 1..Len(sock) : sock[i] \in Nat /\ sock[i] > LastGot /\ sock[i] <= sent
      /\ \A i, j \in 1..Len(sock) : i < j => sock[i] < sock[j]
  BY BoundsAssumption DEF LogInv, OwnerInv, TypeOK, Fresh
<1>1. CASE UNCHANGED <<sent, sock, got>>
  BY <1>1 DEF LogInv, Fresh, LastGot
<1>2. CASE Arrive
  <2>1. sent' = sent + 1 /\ LastGot' = LastGot
    BY <1>2 DEF Arrive, LastGot
  <2>2. CASE sock' = sock
    BY <1>0, <2>1, <2>2 DEF Fresh
  <2>3. CASE sock' = Append(sock, sent')
    <3>1. /\ Len(sock) \in Nat /\ Len(sock') = Len(sock) + 1
          /\ sock'[Len(sock) + 1] = sent + 1
          /\ \A i \in 1..Len(sock) : sock'[i] = sock[i]
      BY <1>0, <2>1, <2>3
    <3>2. \A i \in 1..Len(sock') : i \in 1..Len(sock) \/ i = Len(sock) + 1
      BY <3>1
    <3>3. \A i \in 1..Len(sock') : sock'[i] > LastGot /\ sock'[i] <= sent + 1
      BY <1>0, <3>1, <3>2
    <3>4. \A i, j \in 1..Len(sock') : i < j => sock'[i] < sock'[j]
      BY <1>0, <3>1, <3>2
    <3> QED BY <1>0, <2>1, <3>3, <3>4 DEF Fresh
  <2> QED BY <1>2, <2>2, <2>3 DEF Arrive
<1>3. CASE Read
  <2>1. LastGot' = sock[1] /\ sent' = sent /\ sock' = Tail(sock) /\ sock # <<>>
    BY <1>0, <1>3, ReadStep DEF Read
  <2>2. /\ Len(sock) \in Nat /\ 1 \in 1..Len(sock) /\ Len(sock') = Len(sock) - 1
        /\ \A i \in 1..Len(sock') : i + 1 \in 1..Len(sock) /\ sock'[i] = sock[i + 1]
    BY <1>0, <2>1
  <2>3. \A i \in 1..Len(sock') : sock'[i] > LastGot' /\ sock'[i] <= sent'
    BY <1>0, <2>1, <2>2
  <2>4. ASSUME NEW i \in 1..Len(sock'), NEW j \in 1..Len(sock'), i < j
        PROVE  sock'[i] < sock'[j]
    <3>1. /\ i + 1 \in 1..Len(sock) /\ j + 1 \in 1..Len(sock) /\ i + 1 < j + 1
          /\ sock'[i] = sock[i + 1] /\ sock'[j] = sock[j + 1]
      BY <2>2, <2>4
    <3> QED BY <1>0, <3>1
  <2>5. LastGot' \in 0..sent'
    BY <1>0, <2>1, <2>2
  <2> QED BY <2>3, <2>4, <2>5 DEF Fresh
<1>4. CASE CloseConn
  <2>1. sock' = <<>> /\ LastGot' = LastGot /\ sent' = sent
    BY <1>4 DEF CloseConn, LastGot
  <2> QED BY <1>0, <2>1 DEF Fresh
<1>5. CASE ReadClosed \/ ReadFails
  BY <1>1, <1>5 DEF ReadClosed, ReadFails, ReadError
<1>6. ASSUME NEW s \in Slot, Get(s) PROVE Fresh'
  BY <1>1, <1>6 DEF Get
<1>7. ASSUME NEW p \in Parsers, Parsing(p) PROVE Fresh'
  BY <1>1, <1>7 DEF Parsing, Receive, RangeEnds, Log, Put
<1>8. CASE \/ Cancel \/ PoolDrop \/ StartReceiver \/ Send \/ SendPanics
           \/ CloseParse \/ CloseDone \/ UNCHANGED vars
  BY <1>1, <1>8 DEF Cancel, PoolDrop, StartReceiver, Send, SendPanics, CloseParse,
                    CloseDone, vars
<1> QED
  BY <1>2, <1>3, <1>4, <1>5, <1>6, <1>7, <1>8 DEF Next, Running, CleaningUp

\* No datagram is in two messages.
LEMMA DistinctStep == LogInv /\ [Next]_vars => Distinct'
<1> SUFFICES ASSUME LogInv, [Next]_vars PROVE Distinct'
  OBVIOUS
<1>0. /\ \A s \in Unlogged : content[s] \in 1..LastGot
      /\ \A s, t \in Unlogged : content[s] = content[t] => s = t
  BY DEF LogInv, Distinct
<1>1. CASE Quiet
  <2>1. LastGot' = LastGot
    BY <1>1 DEF Quiet, LastGot
  <2> QED BY <1>0, <1>1, <2>1 DEF Quiet, Distinct
<1>2. CASE Read
  <2>1. LastGot \in Nat /\ Head(sock) \in Nat
    BY <1>2, ReadStep, BoundsAssumption DEF LogInv, Fresh, Datagrams, OwnerInv, TypeOK
  <2>2. \A s \in Unlogged : content'[s] \in 1..LastGot /\ content'[s] < content'[msg]
    BY <1>0, <1>2, <2>1, ReadStep
  <2>3. \A s \in Unlogged' : content'[s] \in 1..LastGot'
    BY <1>2, <2>1, <2>2, ReadStep
  <2>4. \A s, t \in Unlogged' : content'[s] = content'[t] => s = t
    BY <1>0, <1>2, <2>1, <2>2, ReadStep
  <2> QED BY <2>3, <2>4 DEF Distinct
<1>3. ASSUME NEW p \in Parsers, Log(p) PROVE Distinct'
  <2>1. LastGot' = LastGot
    BY <1>3, LogStep DEF LastGot
  <2> QED BY <1>0, <1>3, <2>1, LogStep DEF Distinct
<1> QED BY <1>1, <1>2, <1>3, QuietSteps DEF LogInv

\* The messages stay in the order in which their datagrams were read.
LEMMA AgedStep == LogInv /\ [Next]_vars => Aged'
<1> SUFFICES ASSUME LogInv, [Next]_vars PROVE Aged'
  OBVIOUS
<1> USE DEF socket, pooled, reader, channel, workers, ending
<1>0. /\ parse \in Seq(Slot) /\ hold \in [Parsers -> Slot \cup {NoSlot}]
      /\ parser \in [Parsers -> {"idle", "recv", "log", "put", "exit"}]
      /\ \A s \in Unlogged : content[s] \in 1..LastGot
  BY DEF LogInv, OwnerInv, TypeOK, Distinct
<1>1. /\ \A i \in 1..Len(parse) : parse[i] \in Unlogged
      /\ \A p \in Parsers : parser[p] = "log" => hold[p] \in Unlogged
      /\ run \in {"send", "panic"} => msg \in Unlogged
  BY UnloggedIs
<1>2. /\ \A i, j \in 1..Len(parse) : i < j => content[parse[i]] < content[parse[j]]
      /\ \A p \in Parsers : parser[p] = "log" =>
           \A i \in 1..Len(parse) : content[hold[p]] < content[parse[i]]
      /\ run \in {"send", "panic"} =>
           /\ \A i \in 1..Len(parse) : content[parse[i]] < content[msg]
           /\ \A p \in Parsers : parser[p] = "log" => content[hold[p]] < content[msg]
  BY DEF LogInv, Aged
<1>3. ASSUME \A s \in Unlogged : content'[s] = content[s],
             UNCHANGED <<parse, hold>>,
             \A p \in Parsers : parser'[p] = "log" => parser[p] = "log",
             run' \in {"send", "panic"} => run \in {"send", "panic"} /\ msg' = msg
      PROVE  Aged'
  BY <1>1, <1>2, <1>3 DEF Aged
<1>4. CASE Read
  <2>1. /\ LastGot \in Nat /\ content'[msg] \in Nat /\ content'[msg] > LastGot
        /\ \A s \in Unlogged : content'[s] = content[s]
    BY <1>4, ReadStep, BoundsAssumption DEF LogInv, Fresh, Datagrams, OwnerInv, TypeOK
  <2>2. \A s \in Unlogged : content'[s] < content'[msg]
    BY <1>0, <2>1
  <2>3. UNCHANGED <<parse, hold, parser, msg>>
    BY <1>4 DEF Read
  <2> QED BY <1>1, <1>2, <2>1, <2>2, <2>3 DEF Aged
<1>5. CASE Send
  <2>1. /\ run = "send" /\ run' = "get" /\ parse' = Append(parse, msg) /\ msg \in Slot
        /\ UNCHANGED <<parser, hold, content>>
    BY <1>0, <1>5 DEF Send, LogInv, OwnerInv, TypeOK, HoldsByStage
  <2>2. /\ Len(parse) \in Nat /\ Len(parse') = Len(parse) + 1
        /\ parse'[Len(parse) + 1] = msg
        /\ \A i \in 1..Len(parse) : parse'[i] = parse[i]
    BY <1>0, <2>1
  <2>3. \A i \in 1..Len(parse') : i \in 1..Len(parse) \/ i = Len(parse) + 1
    BY <2>2
  <2>4. \A i, j \in 1..Len(parse') : i < j => content'[parse'[i]] < content'[parse'[j]]
    <3>1. TAKE i, j \in 1..Len(parse')
    <3>2. HAVE i < j
    <3>3. i \in 1..Len(parse)
      BY <2>2, <2>3, <3>2
    <3>4. CASE j \in 1..Len(parse)
      BY <1>2, <2>1, <2>2, <3>2, <3>3, <3>4
    <3>5. CASE j = Len(parse) + 1
      BY <1>2, <2>1, <2>2, <3>3, <3>5
    <3> QED BY <2>3, <3>4, <3>5
  <2>5. \A p \in Parsers : parser'[p] = "log" =>
           \A i \in 1..Len(parse') : content'[hold'[p]] < content'[parse'[i]]
    BY <1>2, <2>1, <2>2, <2>3
  <2> QED BY <2>1, <2>4, <2>5 DEF Aged
<1>6. ASSUME NEW p \in Parsers, Receive(p) PROVE Aged'
  <2>1. /\ parser[p] = "recv" /\ parser' = [parser EXCEPT ![p] = "log"]
        /\ hold' = [hold EXCEPT ![p] = Head(parse)]
        /\ parse # <<>> /\ parse' = Tail(parse)
        /\ UNCHANGED <<run, msg, content>>
    BY <1>6 DEF Receive
  <2>2. /\ Len(parse) \in Nat /\ 1 \in 1..Len(parse) /\ Head(parse) = parse[1]
        /\ Len(parse') = Len(parse) - 1
        /\ \A i \in 1..Len(parse') : i + 1 \in 1..Len(parse) /\ parse'[i] = parse[i + 1]
    BY <1>0, <2>1
  <2>3. \A q \in Parsers : parser'[q] = "log" =>
           \/ q = p /\ hold'[q] = parse[1]
           \/ parser[q] = "log" /\ hold'[q] = hold[q]
    BY <1>0, <2>1, <2>2
  <2>4. ASSUME NEW i \in 1..Len(parse'), NEW j \in 1..Len(parse'), i < j
        PROVE  content'[parse'[i]] < content'[parse'[j]]
    <3>1. /\ i + 1 \in 1..Len(parse) /\ j + 1 \in 1..Len(parse) /\ i + 1 < j + 1
          /\ parse'[i] = parse[i + 1] /\ parse'[j] = parse[j + 1]
      BY <2>2, <2>4
    <3> QED BY <1>2, <2>1, <3>1
  <2>5. ASSUME NEW q \in Parsers, parser'[q] = "log", NEW i \in 1..Len(parse')
        PROVE  content'[hold'[q]] < content'[parse'[i]]
    <3>1. /\ i + 1 \in 1..Len(parse) /\ 1 < i + 1 /\ parse'[i] = parse[i + 1]
      BY <2>2
    <3>2. content[parse[1]] < content[parse[i + 1]]
      BY <1>2, <2>2, <3>1
    <3> QED BY <1>2, <2>1, <2>3, <2>5, <3>1, <3>2
  <2>6. ASSUME run' \in {"send", "panic"}
        PROVE  /\ \A i \in 1..Len(parse') : content'[parse'[i]] < content'[msg']
               /\ \A q \in Parsers : parser'[q] = "log" => content'[hold'[q]] < content'[msg']
    BY <1>2, <2>1, <2>2, <2>3, <2>6
  <2> QED BY <2>4, <2>5, <2>6 DEF Aged
<1>7. ASSUME NEW p \in Parsers, Put(p) PROVE Aged'
  <2>1. /\ UNCHANGED <<parse, run, msg, content>>
        /\ \A q \in Parsers : parser'[q] = "log" => parser[q] = "log" /\ hold'[q] = hold[q]
    BY <1>0, <1>7 DEF Put
  <2> QED BY <1>2, <2>1 DEF Aged
<1>8. ASSUME NEW p \in Parsers, Log(p) \/ RangeEnds(p) PROVE Aged'
  <2>1. /\ UNCHANGED <<parse, hold, run, msg, content>>
        /\ \A q \in Parsers : parser'[q] = "log" => parser[q] = "log"
    BY <1>0, <1>8 DEF Log, RangeEnds
  <2> QED BY <1>3, <2>1
<1>9. ASSUME NEW s \in Slot, Get(s) PROVE Aged'
  <2>1. run' = "read" /\ run = "get" /\ UNCHANGED <<parse, hold, parser>>
    BY <1>9 DEF Get
  <2>2. \A t \in Unlogged : content'[t] = content[t]
    <3>1. ~Read /\ ~SendPanics /\ \A p \in Parsers : ~Log(p)
      BY <1>0, <1>9, <2>1 DEF Read, SendPanics, Log
    <3> QED BY <3>1, QuietSteps DEF LogInv, Quiet
  <2> QED BY <1>3, <2>1, <2>2
<1>10. CASE ReadClosed \/ ReadFails
  <2>1. run' = "returned" /\ UNCHANGED <<parse, hold, parser, content>>
    BY <1>10 DEF ReadClosed, ReadFails, ReadError
  <2> QED BY <1>3, <2>1
<1>11. CASE StartReceiver
  <2>1. /\ UNCHANGED <<parse, hold, content>> /\ run' \notin {"send", "panic"}
        /\ \A p \in Parsers : parser'[p] = "log" => parser[p] = "log"
    BY <1>11 DEF StartReceiver
  <2> QED BY <1>3, <2>1
<1>12. CASE SendPanics
  BY <1>3, <1>12 DEF SendPanics
<1>13. CASE Arrive \/ Cancel \/ PoolDrop \/ CleaningUp \/ UNCHANGED vars
  BY <1>3, <1>13 DEF Arrive, Cancel, PoolDrop, CleaningUp, CloseConn, CloseParse,
                     CloseDone, vars
<1> QED
  BY <1>4, <1>5, <1>6, <1>7, <1>8, <1>9, <1>10, <1>11, <1>12, <1>13
     DEF Next, Running, Parsing

\* The invariant behind the refinement holds in every behaviour.
THEOREM LogInvHolds == Spec => []LogInv
<1>1. LogInv /\ [Next]_vars => LogInv'
  BY TypeStep, OwnerStep, FreshStep, DistinctStep, AgedStep DEF LogInv, OwnerInv
<1> QED BY LogInit, <1>1, PTL DEF Spec

\* Every step of the receiver is one of the abstract server's or invisible to it.
LEMMA StepSimulation == LogInv /\ [Next]_vars => [Abstract!Next]_(Abstract!vars)
<1> SUFFICES ASSUME LogInv, [Next]_vars PROVE [Abstract!Next]_(Abstract!vars)
  OBVIOUS
<1> USE DEF Abstract!vars
<1>0. /\ \A s \in Unlogged : content[s] \in 1..LastGot
      /\ \A s, t \in Unlogged : content[s] = content[t] => s = t
  BY DEF LogInv, Distinct
<1>1. CASE Read
  <2>1. Pending' = Pending \cup {Head(sock)}
    <3>1. \A d : d \in Pending' <=> d \in Pending \/ d = Head(sock)
      BY <1>1, ReadStep DEF Pending
    <3> QED BY <3>1
  <2>2. Abstract!Accept(Head(sock))
    BY <1>1, <2>1, ReadStep DEF Abstract!Accept, Alive
  <2>3. Head(sock) \in Datagrams
    BY <1>1, ReadStep
  <2> QED BY <2>2, <2>3 DEF Abstract!Next
<1>2. ASSUME NEW p \in Parsers, Log(p) PROVE Abstract!Next
  <2> DEFINE d == content[hold[p]]
  <2>1. Pending' = Pending \ {d} /\ d \in Pending
    <3>1. \A e : e \in Pending' <=> e \in Pending /\ e # d
      BY <1>0, <1>2, LogStep DEF Pending
    <3>2. d \in Pending
      BY <1>2, LogStep DEF Pending
    <3> QED BY <3>1, <3>2
  <2>2. d \in Datagrams
    <3>1. LastGot \in 0..MaxDatagrams
      BY BoundsAssumption DEF LogInv, Fresh, OwnerInv, TypeOK
    <3>2. d \in 1..LastGot
      BY <1>0, <1>2, LogStep
    <3> QED BY <3>1, <3>2, BoundsAssumption DEF Datagrams
  <2>3. ASSUME Cardinality(Parsers) = 1, NEW e \in Pending PROVE d <= e
    <3>1. \A q \in Parsers : q = p
      BY <2>3, ParsersAssumption, FS_Singleton
    <3>2. PICK s \in Unlogged : e = content[s]
      BY DEF Pending
    <3>3. d \in Nat /\ e \in Nat /\ parser[p] = "log"
      <4>1. LastGot \in Nat
        BY BoundsAssumption DEF LogInv, Fresh, OwnerInv, TypeOK
      <4>2. d \in 1..LastGot /\ e \in 1..LastGot
        BY <1>0, <1>2, <3>2, LogStep
      <4>3. parser[p] = "log"
        BY <1>2 DEF Log
      <4> QED BY <4>1, <4>2, <4>3
    <3>4. CASE \E i \in 1..Len(parse) : s = parse[i]
      BY <3>2, <3>3, <3>4 DEF LogInv, Aged
    <3>5. CASE \E q \in Parsers : parser[q] = "log" /\ s = hold[q]
      BY <3>1, <3>2, <3>3, <3>5
    <3>6. CASE run \in {"send", "panic"} /\ s = msg
      BY <3>2, <3>3, <3>6 DEF LogInv, Aged
    <3> QED BY <3>4, <3>5, <3>6, UnloggedIs
  <2>4. LastGot' = LastGot
    BY <1>2, LogStep DEF LastGot
  <2>5. Abstract!Emit(d)
    BY <1>2, <2>1, <2>3, <2>4, LogStep DEF Abstract!Emit, Alive
  <2> QED BY <2>2, <2>5 DEF Abstract!Next
<1>3. ASSUME Quiet PROVE UNCHANGED <<LastGot, Pending, logged>>
  <2>1. LastGot' = LastGot /\ logged' = logged
    BY <1>3 DEF Quiet, LastGot
  <2>2. \A d : d \in Pending' <=> d \in Pending
    BY <1>3 DEF Quiet, Pending
  <2> QED BY <2>1, <2>2
<1>4. CASE Quiet /\ Alive' = Alive
  BY <1>3, <1>4
<1>5. CASE Quiet /\ SendPanics
  <2>1. Alive /\ ~Alive'
    BY <1>5 DEF SendPanics, Alive
  <2>2. Abstract!Crash
    BY <1>3, <1>5, <2>1 DEF Abstract!Crash
  <2> QED BY <2>2 DEF Abstract!Next
<1> QED BY <1>1, <1>2, <1>4, <1>5, QuietSteps DEF LogInv

\* The receiver implements the safety part of SyslogLog: through the pooled
\* buffers, the channel and the shutdown, every datagram logged is one that was
\* read, logged once and with the bytes that were read, and with one parser in
\* the order of arrival.
THEOREM ImplementsLog == Spec => Abstract!Safety
<1>1. Init => Abstract!Init
  BY DEF Init, Abstract!Init, LastGot, Pending, Unlogged, Alive
<1> QED BY <1>1, LogInvHolds, StepSimulation, PTL DEF Spec, Abstract!Safety
=============================================================================
