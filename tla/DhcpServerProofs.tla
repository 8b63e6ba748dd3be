-------------------------- MODULE DhcpServerProofs --------------------------
(***************************************************************************)
(* For any number of packets, clients, records and changes to the records, *)
(* the DHCP server's concurrent handlers answer each packet at most once,  *)
(* from the packet itself and from a record the backend really held.       *)
(***************************************************************************)
EXTENDS DhcpServer, SequenceTheorems, TLAPS

-----------------------------------------------------------------------------
(* What the handlers' replies are made of. *)

\* A reply has the type its packet's type calls for and goes where it came from.
LEMMA ReplyShape ==
    ASSUME NEW m, NEW p, NEW a, Reply(m, p, a) # NoReply
    PROVE  Reply(m, p, a).type = ReplyType(p.type) /\ Reply(m, p, a).to = ReplyDestination(p)
BY DEF Reply, ReservationReply, UpdateMsg, ProxyReply

\* The reservation handler answers from an enabled record, with its address.
LEMMA ReplyReserved ==
    ASSUME NEW p, NEW a, Reply("reservation", p, a) # NoReply
    PROVE  a.st = "ok" /\ ~a.hw.disabled /\ Reply("reservation", p, a).yiaddr = a.hw.ip
BY DEF Reply, ReservationReply, UpdateMsg, DHCPOpts

\* Outside auto-proxy, a binary or a script is named only under a record that
\* allows netboot.
LEMMA ReplyGate ==
    ASSUME NEW m \in Modes, m # "auto-proxy", NEW p, NEW a, Reply(m, p, a) # NoReply,
           IsBinary(Reply(m, p, a).boot.file) \/ IsScript(Reply(m, p, a).boot.file)
    PROVE  a.st = "ok" /\ a.hw.allow
<1>0. \A file \in {NetbootNotAllowed, NoURL} : ~IsBinary(file) /\ ~IsScript(file)
  <2>1. NetbootNotAllowed.what = "/netboot-not-allowed" /\ NoURL.what = ""
    BY DEF NetbootNotAllowed, NoURL, URL
  <2> QED BY <2>1 DEF IsBinary, IsScript
<1>1. CASE m = "reservation"
  <2>1. a.st = "ok" /\ Reply(m, p, a) = UpdateMsg(p, a.hw)
    BY <1>1 DEF Reply, ReservationReply
  <2>2. CASE NetbootEnabled /\ IsNetbootClient(p)
    <3>1. Reply(m, p, a).boot = NetworkBootOpts(p, a.hw)
      BY <2>1, <2>2 DEF UpdateMsg
    <3>2. ASSUME ~a.hw.allow PROVE FALSE
      <4>1. NetworkBootOpts(p, a.hw).file = NetbootNotAllowed
        BY <3>2 DEF NetworkBootOpts
      <4> QED BY <1>0, <3>1, <4>1
    <3> QED BY <2>1, <3>2
  <2>3. CASE ~(NetbootEnabled /\ IsNetbootClient(p))
    <3>1. Reply(m, p, a).boot = NoBootOpts
      BY <2>1, <2>3 DEF UpdateMsg
    <3>2. Reply(m, p, a).boot.file = NoURL
      <4>1. NoBootOpts.file = NoURL
        BY DEF NoBootOpts
      <4> QED BY <3>1, <4>1
    <3> QED BY <1>0, <3>2
  <2> QED BY <2>2, <2>3
<1>2. CASE m = "proxy"
  BY <1>2 DEF Reply, ProxyReply
<1> QED BY <1>1, <1>2 DEF Modes

-----------------------------------------------------------------------------
(* The inductive invariant. *)

\* A datagram in the socket's buffer has no handler yet and is there once.
Queued ==
    /\ \A i \in 1..Len(inbox) : inbox[i] \in 1..Len(arrived) /\ stage[inbox[i]] = "none"
    /\ \A i, j \in 1..Len(inbox) : inbox[i] = inbox[j] => i = j

\* A handler works on its own packet, whatever Serve has read since.
Begun ==
    \A h \in Handlers : stage[h] # "none" =>
        h \in 1..Len(arrived) /\ arrived[h] \in Pkt /\ pkt[h] = arrived[h]

\* A handler under way has seen, or can see, only what held[h] records.
Recorded ==
    \A h \in Handlers :
        /\ stage[h] \in {"new", "asked"} => db[arrived[h].mac] \in held[h]
        /\ stage[h] = "asked" => res[h] = BackendError \/ res[h] \in held[h]

\* Only a handler that is done has replied.
Replied == \A i \in 1..Len(replies) : stage[replies[i].from] = "done"

ServerInv ==
    /\ TypeOK /\ Queued /\ Begun /\ Recorded /\ Replied
    /\ ReplyToItsRequest /\ ReservedOnly /\ NetbootGate

\* The server starts with nothing received and nothing answered.
LEMMA ServerInit == Init => ServerInv
<1> SUFFICES ASSUME Init PROVE ServerInv
  OBVIOUS
<1> USE DEF Init
<1>0. open \in BOOLEAN /\ ctxDone \in BOOLEAN /\ broken \in BOOLEAN
  BY Zenon
<1>1. /\ inbox \in Seq(Handlers) /\ arrived \in Seq(Pkt \cup {Garbage})
      /\ replies \in Seq([from : Handlers, reply : Replies])
      /\ Len(arrived) <= MaxPackets /\ updates \in 0..MaxUpdates
  BY BoundsAssumption
<1>2. /\ db \in [Macs -> Answers] /\ held \in [Handlers -> SUBSET Answers]
      /\ res \in [Handlers -> Answers \cup {BackendError}]
      /\ pkt \in [Handlers -> Pkt \cup {Garbage}]
      /\ stage \in [Handlers -> {"none", "new", "asked", "done"}]
  OBVIOUS
<1>3. TypeOK
  BY <1>0, <1>1, <1>2 DEF TypeOK
<1>4. Queued /\ Begun /\ Recorded /\ Replied
  BY DEF Queued, Begun, Recorded, Replied
<1>5. ReplyToItsRequest /\ ReservedOnly /\ NetbootGate
  BY DEF ReplyToItsRequest, ReservedOnly, NetbootGate
<1> QED BY <1>3, <1>4, <1>5 DEF ServerInv
\* Every step keeps the state well typed.
LEMMA ServerTypeStep == ServerInv /\ [Next]_vars => TypeOK'
<1> SUFFICES ASSUME ServerInv, [Next]_vars PROVE TypeOK'
  OBVIOUS
<1> USE BoundsAssumption DEF ServerInv, TypeOK, net, server, handlers, backend
<1>1. ASSUME NEW p \in Pkt \cup {Garbage}, Arrive(p) PROVE TypeOK'
  <2>1. Len(arrived) \in Nat /\ Len(arrived') = Len(arrived) + 1
        /\ arrived' \in Seq(Pkt \cup {Garbage}) /\ Len(arrived') <= MaxPackets
    BY <1>1 DEF Arrive
  <2>2. inbox' \in Seq(Handlers)
    <3>1. Len(arrived') \in Handlers
      BY <2>1 DEF Handlers
    <3> QED BY <1>1, <3>1 DEF Arrive
  <2> QED BY <1>1, <2>1, <2>2 DEF Arrive
<1>2. ASSUME NEW m \in Macs, NEW a \in AnswersFor(m), Update(m, a) PROVE TypeOK'
  <2>1. a \in Answers
    BY DEF AnswersFor
  <2>2. held' \in [Handlers -> SUBSET Answers] /\ db' \in [Macs -> Answers]
    BY <1>2, <2>1 DEF Update
  <2>3. updates' \in 0..MaxUpdates
    BY <1>2 DEF Update
  <2> QED BY <1>2, <2>2, <2>3 DEF Update
<1>3. CASE Cancel
  BY <1>3 DEF Cancel
<1>4. CASE Setup
  BY <1>4 DEF Setup
<1>5. CASE Receive
  <2>1. Head(inbox) \in Handlers /\ inbox' \in Seq(Handlers)
    BY <1>5 DEF Receive
  <2>2. CASE arrived[Head(inbox)] = Garbage
    BY <1>5, <2>1, <2>2 DEF Receive
  <2>3. CASE arrived[Head(inbox)] # Garbage
    <3>1. 1 \in 1..Len(inbox) /\ Head(inbox) = inbox[1]
      BY <1>5 DEF Receive
    <3>2. Head(inbox) \in 1..Len(arrived)
      BY <3>1 DEF Queued
    <3>3. arrived[Head(inbox)] \in Pkt
      BY <2>3, <3>2
    <3>4. db[arrived[Head(inbox)].mac] \in Answers
      BY <3>3, PktAssumption
    <3>5. /\ pkt' \in [Handlers -> Pkt \cup {Garbage}]
          /\ stage' \in [Handlers -> {"none", "new", "asked", "done"}]
          /\ held' = [held EXCEPT ![Head(inbox)] = {db[arrived[Head(inbox)].mac]}]
      BY <1>5, <2>1, <2>3, <3>3 DEF Receive
    <3>6. held' \in [Handlers -> SUBSET Answers]
      BY <2>1, <3>4, <3>5
    <3> QED BY <1>5, <2>1, <3>5, <3>6 DEF Receive
  <2> QED BY <2>2, <2>3
<1>6. CASE ReadClosed \/ ReadFails
  <2>1. ReadError
    BY <1>6 DEF ReadClosed, ReadFails
  <2>2. open' \in BOOLEAN /\ broken' \in BOOLEAN
    BY <2>1, Zenon DEF ReadError
  <2> QED BY <2>1, <2>2 DEF ReadError
<1>7. CASE Close
  BY <1>7 DEF Close
<1>8. ASSUME NEW h \in Handlers, Ask(h) PROVE TypeOK'
  <2>1. PICK a \in IF AsksBackend(mode, pkt[h]) THEN {db[pkt[h].mac], BackendError}
                   ELSE {BackendError} : res' = [res EXCEPT ![h] = a]
    BY <1>8 DEF Ask
  <2>2. db[pkt[h].mac] \in Answers
    BY <1>8, PktAssumption DEF Ask, Begun
  <2>3. res' \in [Handlers -> Answers \cup {BackendError}]
    BY <2>1, <2>2
  <2> QED BY <1>8, <2>3 DEF Ask
<1>9. ASSUME NEW h \in Handlers, Answer(h) PROVE TypeOK'
  <2>1. Reply(mode, pkt[h], res[h]) \in Replies
    <3>1. pkt[h] \in Pkt /\ res[h] \in Answers \cup {BackendError} /\ mode \in Modes
      BY <1>9 DEF Answer, Begun
    <3>2. <<mode, pkt[h], res[h]>> \in Modes \X Pkt \X (Answers \cup {BackendError})
      BY <3>1
    <3> QED BY <3>2 DEF Replies
  <2>2. replies' \in Seq([from : Handlers, reply : Replies])
    <3>1. CASE replies' = replies
      BY <3>1
    <3>2. CASE replies' = Append(replies, [from |-> h, reply |-> Reply(mode, pkt[h], res[h])])
      BY <2>1, <3>2
    <3> QED BY <1>9, <3>1, <3>2 DEF Answer
  <2> QED BY <1>9, <2>2 DEF Answer
<1>10. CASE UNCHANGED vars
  BY <1>10 DEF vars
<1> QED
  BY <1>1, <1>2, <1>3, <1>4, <1>5, <1>6, <1>7, <1>8, <1>9, <1>10
     DEF Next, Serving, Handling

\* Every step keeps each handler with its own packet and the records it saw.
LEMMA ServerWorkStep ==
    ServerInv /\ [Next]_vars => Queued' /\ Begun' /\ Recorded' /\ Replied'
<1> SUFFICES ASSUME ServerInv, [Next]_vars PROVE Queued' /\ Begun' /\ Recorded' /\ Replied'
  OBVIOUS
<1> USE DEF ServerInv, net, server, handlers, backend
<1>0. /\ inbox \in Seq(Handlers) /\ arrived \in Seq(Pkt \cup {Garbage})
      /\ stage \in [Handlers -> {"none", "new", "asked", "done"}]
      /\ pkt \in [Handlers -> Pkt \cup {Garbage}]
      /\ res \in [Handlers -> Answers \cup {BackendError}]
      /\ replies \in Seq([from : Handlers, reply : Replies])
      /\ db \in [Macs -> Answers] /\ held \in [Handlers -> SUBSET Answers]
      /\ Handlers = 1..MaxPackets /\ MaxPackets \in Nat /\ Len(arrived) \in Nat
      /\ Len(inbox) \in Nat /\ Len(replies) \in Nat
      /\ \A i \in 1..Len(replies) : replies[i].from \in Handlers
  <2>1. replies \in Seq([from : Handlers, reply : Replies])
    BY DEF TypeOK
  <2>2. Len(replies) \in Nat /\ \A i \in 1..Len(replies) : replies[i].from \in Handlers
    <3>1. \A i \in 1..Len(replies) : replies[i] \in [from : Handlers, reply : Replies]
      BY <2>1, ElementOfSeq
    <3> QED BY <2>1, <3>1
  <2>3. Handlers = 1..MaxPackets
    BY DEF Handlers
  <2> QED BY <2>1, <2>2, <2>3, BoundsAssumption DEF TypeOK
<1>1. CASE UNCHANGED <<inbox, arrived, handlers, db, held>>
  BY <1>1 DEF Queued, Begun, Recorded, Replied
<1>2. ASSUME NEW p \in Pkt \cup {Garbage}, Arrive(p)
      PROVE  Queued' /\ Begun' /\ Recorded' /\ Replied'
  <2>1. /\ Len(arrived') = Len(arrived) + 1 /\ Len(arrived') \in Handlers
        /\ \A h \in 1..Len(arrived) : arrived'[h] = arrived[h] /\ h \in 1..Len(arrived')
        /\ Len(inbox') = Len(inbox) + 1 /\ inbox'[Len(inbox) + 1] = Len(arrived')
        /\ \A i \in 1..Len(inbox) : inbox'[i] = inbox[i]
        /\ \A i \in 1..Len(inbox') : i \in 1..Len(inbox) \/ i = Len(inbox) + 1
        /\ UNCHANGED <<stage, pkt, res, replies, db, held>>
    BY <1>0, <1>2 DEF Arrive
  <2>2. stage[Len(arrived')] = "none"
    BY <1>0, <2>1 DEF Begun
  <2>3. Queued'
    <3>1. \A i \in 1..Len(inbox') : inbox'[i] \in 1..Len(arrived') /\ stage'[inbox'[i]] = "none"
      <4> SUFFICES ASSUME NEW i \in 1..Len(inbox')
                   PROVE  inbox'[i] \in 1..Len(arrived') /\ stage'[inbox'[i]] = "none"
        OBVIOUS
      <4>1. CASE i \in 1..Len(inbox)
        BY <2>1, <4>1 DEF Queued
      <4>2. CASE i = Len(inbox) + 1
        BY <1>0, <2>1, <2>2, <4>2
      <4> QED BY <2>1, <4>1, <4>2
    <3>2. \A i \in 1..Len(inbox) : inbox[i] # Len(arrived')
      BY <1>0, <2>1 DEF Queued
    <3>3. \A i, j \in 1..Len(inbox') : inbox'[i] = inbox'[j] => i = j
      BY <1>0, <2>1, <3>2 DEF Queued
    <3> QED BY <3>1, <3>3 DEF Queued
  <2>4. Begun'
    BY <1>0, <2>1 DEF Begun
  <2>5. Recorded'
    BY <1>0, <2>1 DEF Begun, Recorded
  <2>6. Replied'
    BY <2>1 DEF Replied
  <2> QED BY <2>3, <2>4, <2>5, <2>6
<1>3. ASSUME NEW m \in Macs, NEW a \in AnswersFor(m), Update(m, a)
      PROVE  Queued' /\ Begun' /\ Recorded' /\ Replied'
  <2>1. Queued' /\ Begun' /\ Replied'
    BY <1>3 DEF Update, Queued, Begun, Replied
  <2>2. \A h \in Handlers :
           /\ held[h] \subseteq held'[h]
           /\ stage[h] \in {"new", "asked"} /\ arrived[h].mac = m => a \in held'[h]
    BY <1>0, <1>3 DEF Update
  <2>3. /\ db' = [db EXCEPT ![m] = a]
        /\ UNCHANGED <<stage, arrived, res>>
    BY <1>3 DEF Update
  <2>4. ASSUME NEW h \in Handlers, stage[h] \in {"new", "asked"}
        PROVE  db'[arrived[h].mac] \in held'[h]
    <3>1. arrived[h].mac \in Macs /\ db[arrived[h].mac] \in held[h]
      BY <2>4, PktAssumption DEF Begun, Recorded
    <3>2. CASE arrived[h].mac = m
      BY <1>0, <2>2, <2>3, <2>4, <3>2
    <3>3. CASE arrived[h].mac # m
      BY <1>0, <2>2, <2>3, <3>1, <3>3
    <3> QED BY <3>2, <3>3
  <2>5. Recorded'
    BY <2>2, <2>3, <2>4 DEF Recorded
  <2> QED BY <2>1, <2>5
<1>4. CASE Receive
  <2> DEFINE h0 == inbox[1]
  <2>1. /\ Head(inbox) = h0 /\ 1 \in 1..Len(inbox) /\ h0 \in Handlers
        /\ Len(inbox') = Len(inbox) - 1
        /\ \A i \in 1..Len(inbox') : i + 1 \in 1..Len(inbox) /\ inbox'[i] = inbox[i + 1]
        /\ UNCHANGED <<arrived, res, replies, db>>
    BY <1>0, <1>4 DEF Receive
  <2>2. h0 \in 1..Len(arrived) /\ stage[h0] = "none"
    BY <2>1 DEF Queued
  <2>3. \A i \in 1..Len(inbox') :
           /\ inbox'[i] # h0 /\ inbox'[i] \in Handlers
           /\ inbox'[i] \in 1..Len(arrived) /\ stage[inbox'[i]] = "none"
    <3> SUFFICES ASSUME NEW i \in 1..Len(inbox')
                 PROVE  /\ inbox'[i] # h0 /\ inbox'[i] \in Handlers
                        /\ inbox'[i] \in 1..Len(arrived) /\ stage[inbox'[i]] = "none"
      OBVIOUS
    <3>1. i + 1 \in 1..Len(inbox) /\ inbox'[i] = inbox[i + 1] /\ i + 1 # 1
      BY <1>0, <2>1
    <3>2. inbox[i + 1] # h0
      BY <2>1, <3>1 DEF Queued
    <3>3. /\ inbox[i + 1] \in Handlers /\ inbox[i + 1] \in 1..Len(arrived)
          /\ stage[inbox[i + 1]] = "none"
      BY <1>0, <3>1 DEF Queued
    <3> QED BY <3>1, <3>2, <3>3
  <2>6. \A i, j \in 1..Len(inbox') : inbox'[i] = inbox'[j] => i = j
    <3> SUFFICES ASSUME NEW i \in 1..Len(inbox'), NEW j \in 1..Len(inbox'),
                        inbox'[i] = inbox'[j]
                 PROVE  i = j
      OBVIOUS
    <3>1. /\ i + 1 \in 1..Len(inbox) /\ j + 1 \in 1..Len(inbox)
          /\ inbox[i + 1] = inbox[j + 1]
      BY <2>1
    <3>2. i + 1 = j + 1
      BY <3>1 DEF Queued
    <3> QED BY <1>0, <2>1, <3>2
  <2> HIDE DEF h0
  <2>4. CASE arrived[h0] = Garbage
    <3>1. UNCHANGED <<stage, pkt, held>>
      BY <1>4, <2>1, <2>4 DEF Receive
    <3>2. Queued'
      <4>1. \A i \in 1..Len(inbox') : inbox'[i] \in 1..Len(arrived') /\ stage'[inbox'[i]] = "none"
        BY <2>1, <2>3, <3>1
      <4> QED BY <2>6, <4>1 DEF Queued
    <3> QED BY <2>1, <3>1, <3>2 DEF Begun, Recorded, Replied
  <2>5. CASE arrived[h0] # Garbage
    <3>1. /\ stage' = [stage EXCEPT ![h0] = "new"]
          /\ pkt' = [pkt EXCEPT ![h0] = arrived[h0]]
          /\ held' = [held EXCEPT ![h0] = {db[arrived[h0].mac]}]
      BY <1>4, <2>1, <2>5 DEF Receive
    <3>2. Queued'
      <4>1. \A i \in 1..Len(inbox') : inbox'[i] \in 1..Len(arrived') /\ stage'[inbox'[i]] = "none"
        BY <1>0, <2>1, <2>3, <3>1
      <4> QED BY <2>6, <4>1 DEF Queued
    <3>3. arrived[h0] \in Pkt
      BY <1>0, <2>2, <2>5
    <3>4. Begun'
      BY <1>0, <2>1, <2>2, <3>1, <3>3 DEF Begun
    <3>5. Recorded'
      BY <1>0, <2>1, <3>1 DEF Recorded
    <3>6. Replied'
      BY <1>0, <2>1, <2>2, <3>1 DEF Replied
    <3> QED BY <3>2, <3>4, <3>5, <3>6
  <2> QED BY <2>4, <2>5
<1>5. ASSUME NEW h \in Handlers, Ask(h) PROVE Queued' /\ Begun' /\ Recorded' /\ Replied'
  <2>1. /\ stage[h] = "new" /\ stage' = [stage EXCEPT ![h] = "asked"]
        /\ UNCHANGED <<inbox, arrived, pkt, replies, db, held>>
    BY <1>5 DEF Ask
  <2>2. PICK a \in IF AsksBackend(mode, pkt[h]) THEN {db[pkt[h].mac], BackendError}
                   ELSE {BackendError} : res' = [res EXCEPT ![h] = a]
    BY <1>5 DEF Ask
  <2>3. a = BackendError \/ a \in held[h]
    BY <2>1, <2>2 DEF Begun, Recorded
  <2>4. Queued'
    BY <1>0, <2>1 DEF Queued
  <2>5. Begun' /\ Replied'
    BY <1>0, <2>1 DEF Begun, Replied
  <2>6. Recorded'
    BY <1>0, <2>1, <2>2, <2>3 DEF Recorded
  <2> QED BY <2>4, <2>5, <2>6
<1>6. ASSUME NEW h \in Handlers, Answer(h) PROVE Queued' /\ Begun' /\ Recorded' /\ Replied'
  <2>1. /\ stage[h] = "asked" /\ stage' = [stage EXCEPT ![h] = "done"]
        /\ UNCHANGED <<inbox, arrived, pkt, res, db, held>>
    BY <1>6 DEF Answer
  <2>2. Queued' /\ Begun' /\ Recorded'
    BY <1>0, <2>1 DEF Queued, Begun, Recorded
  <2>3. CASE replies' = replies
    BY <1>0, <2>1, <2>2, <2>3 DEF Replied
  <2>4. CASE replies' = Append(replies, [from |-> h, reply |-> Reply(mode, pkt[h], res[h])])
    <3>1. /\ Len(replies') = Len(replies) + 1 /\ replies'[Len(replies) + 1].from = h
          /\ \A i \in 1..Len(replies) : replies'[i] = replies[i]
          /\ \A i \in 1..Len(replies') : i \in 1..Len(replies) \/ i = Len(replies) + 1
      BY <1>0, <2>4
    <3>2. Replied'
      BY <1>0, <2>1, <3>1 DEF Replied
    <3> QED BY <2>2, <3>2
  <2> QED BY <1>6, <2>3, <2>4 DEF Answer
<1>7. CASE Cancel \/ Setup \/ ReadClosed \/ ReadFails \/ Close \/ UNCHANGED vars
  BY <1>1, <1>7 DEF Cancel, Setup, ReadClosed, ReadFails, ReadError, Close, vars
<1> QED
  BY <1>2, <1>3, <1>4, <1>5, <1>6, <1>7 DEF Next, Serving, Handling

\* Every step keeps the replies already sent backed by their packets and by
\* the records held, and a new reply is backed by its handler's.
LEMMA ServerReplyStep ==
    ServerInv /\ [Next]_vars => ReplyToItsRequest' /\ ReservedOnly' /\ NetbootGate'
<1> SUFFICES ASSUME ServerInv, [Next]_vars
             PROVE  ReplyToItsRequest' /\ ReservedOnly' /\ NetbootGate'
  OBVIOUS
<1> USE DEF ServerInv, net, server, handlers, backend
<1>0. /\ inbox \in Seq(Handlers) /\ arrived \in Seq(Pkt \cup {Garbage}) /\ mode \in Modes
      /\ held \in [Handlers -> SUBSET Answers] /\ Len(arrived) \in Nat
      /\ replies \in Seq([from : Handlers, reply : Replies])
  BY DEF TypeOK
<1>1. Len(replies) \in Nat /\ \A i \in 1..Len(replies) : replies[i].from \in Handlers
  <2>1. \A i \in 1..Len(replies) : replies[i] \in [from : Handlers, reply : Replies]
    BY <1>0, ElementOfSeq
  <2> QED BY <1>0, <2>1
<1>2. ASSUME replies' = replies, mode' = mode,
             \A i \in 1..Len(replies) : arrived'[replies[i].from] = arrived[replies[i].from],
             \A i \in 1..Len(replies) : held[replies[i].from] \subseteq held'[replies[i].from]
      PROVE  ReplyToItsRequest' /\ ReservedOnly' /\ NetbootGate'
  <2>1. ReplyToItsRequest'
    BY <1>2 DEF ReplyToItsRequest
  <2>2. ReservedOnly'
    BY <1>2 DEF ReservedOnly
  <2>3. NetbootGate'
    BY <1>2 DEF NetbootGate
  <2> QED BY <2>1, <2>2, <2>3
<1>3. ASSUME NEW p \in Pkt \cup {Garbage}, Arrive(p)
      PROVE  ReplyToItsRequest' /\ ReservedOnly' /\ NetbootGate'
  <2>1. /\ \A h \in 1..Len(arrived) : arrived'[h] = arrived[h]
        /\ UNCHANGED <<mode, replies, held>>
    BY <1>0, <1>3 DEF Arrive
  <2>2. \A i \in 1..Len(replies) : replies[i].from \in 1..Len(arrived)
    BY <1>1 DEF Replied, Begun
  <2> QED BY <1>2, <2>1, <2>2
<1>4. ASSUME NEW m \in Macs, NEW a \in AnswersFor(m), Update(m, a)
      PROVE  ReplyToItsRequest' /\ ReservedOnly' /\ NetbootGate'
  <2>1. /\ \A h \in Handlers : held[h] \subseteq held'[h]
        /\ UNCHANGED <<mode, replies, arrived>>
    BY <1>0, <1>4 DEF Update
  <2> QED BY <1>1, <1>2, <2>1
<1>5. CASE Receive
  <2>1. /\ Head(inbox) = inbox[1] /\ 1 \in 1..Len(inbox) /\ inbox[1] \in Handlers
        /\ UNCHANGED <<mode, replies, arrived>>
    BY <1>0, <1>5 DEF Receive
  <2>2. stage[inbox[1]] = "none"
    BY <2>1 DEF Queued
  <2>3. \A h \in Handlers : h # inbox[1] => held'[h] = held[h]
    BY <1>0, <1>5, <2>1 DEF Receive
  <2>4. \A i \in 1..Len(replies) : replies[i].from # inbox[1]
    BY <2>2 DEF Replied
  <2> QED BY <1>1, <1>2, <2>1, <2>3, <2>4
<1>6. ASSUME NEW h \in Handlers, Ask(h)
      PROVE  ReplyToItsRequest' /\ ReservedOnly' /\ NetbootGate'
  BY <1>2, <1>6 DEF Ask
<1>7. ASSUME NEW h \in Handlers, Answer(h)
      PROVE  ReplyToItsRequest' /\ ReservedOnly' /\ NetbootGate'
  <2> DEFINE r == Reply(mode, pkt[h], res[h])
  <2>1. UNCHANGED <<mode, arrived, held>>
    BY <1>7 DEF Answer
  <2>2. CASE replies' = replies
    BY <1>2, <2>1, <2>2
  <2>3. CASE r # NoReply /\ replies' = Append(replies, [from |-> h, reply |-> r])
    <3> DEFINE n == Len(replies) + 1
    <3>1. /\ stage[h] = "asked" /\ pkt[h] = arrived[h] /\ arrived[h] # Garbage
          /\ res[h] = BackendError \/ res[h] \in held[h]
      BY <1>7, PktAssumption DEF Answer, Begun, Recorded
    <3>2. /\ Len(replies') = n /\ replies'[n].from = h /\ replies'[n].reply = r
          /\ \A i \in 1..Len(replies) : replies'[i] = replies[i]
          /\ \A i \in 1..Len(replies') : i \in 1..Len(replies) \/ i = n
      BY <1>0, <1>1, <2>3
    <3>3. \A i \in 1..Len(replies) : replies[i].from # h
      BY <3>1 DEF Replied
    <3>4. r.type = ReplyType(arrived[h].type) /\ r.to = ReplyDestination(arrived[h])
      BY <2>3, <3>1, ReplyShape
    <3>5. res[h].st = "ok" => res[h] \in held[h]
      BY <3>1 DEF BackendError
    <3> HIDE DEF r, n
    <3>6. ReplyToItsRequest'
      <4>1. ASSUME NEW i \in 1..Len(replies')
            PROVE  /\ arrived[replies'[i].from] # Garbage
                   /\ replies'[i].reply.type = ReplyType(arrived[replies'[i].from].type)
                   /\ replies'[i].reply.to = ReplyDestination(arrived[replies'[i].from])
        <5>1. CASE i \in 1..Len(replies)
          BY <3>2, <5>1 DEF ReplyToItsRequest
        <5>2. CASE i = n
          BY <3>1, <3>2, <3>4, <5>2
        <5> QED BY <3>2, <5>1, <5>2
      <4>2. \A i, j \in 1..Len(replies') : replies'[i].from = replies'[j].from => i = j
        BY <3>2, <3>3 DEF ReplyToItsRequest
      <4> QED BY <2>1, <4>1, <4>2 DEF ReplyToItsRequest
    <3>7. ReservedOnly'
      <4> SUFFICES ASSUME mode = "reservation", NEW i \in 1..Len(replies')
                   PROVE  \E a \in held[replies'[i].from] :
                            /\ a.st = "ok" /\ ~a.hw.disabled
                            /\ replies'[i].reply.yiaddr = a.hw.ip
        BY <2>1 DEF ReservedOnly
      <4>1. CASE i \in 1..Len(replies)
        BY <3>2, <4>1 DEF ReservedOnly
      <4>2. CASE i = n
        <5>1. res[h].st = "ok" /\ ~res[h].hw.disabled /\ r.yiaddr = res[h].hw.ip
          BY <2>3, ReplyReserved DEF r
        <5> QED BY <3>2, <3>5, <4>2, <5>1
      <4> QED BY <3>2, <4>1, <4>2
    <3>8. NetbootGate'
      <4> SUFFICES ASSUME mode # "auto-proxy", NEW i \in 1..Len(replies'),
                          \/ IsBinary(replies'[i].reply.boot.file)
                          \/ IsScript(replies'[i].reply.boot.file)
                   PROVE  \E a \in held[replies'[i].from] : a.st = "ok" /\ a.hw.allow
        BY <2>1 DEF NetbootGate
      <4>1. CASE i \in 1..Len(replies)
        BY <3>2, <4>1 DEF NetbootGate
      <4>2. CASE i = n
        <5>1. IsBinary(r.boot.file) \/ IsScript(r.boot.file)
          BY <3>2, <4>2
        <5>2. res[h].st = "ok" /\ res[h].hw.allow
          BY <1>0, <2>3, <5>1, ReplyGate DEF r
        <5> QED BY <3>2, <3>5, <4>2, <5>2
      <4> QED BY <3>2, <4>1, <4>2
    <3> QED BY <3>6, <3>7, <3>8
  <2> QED BY <1>7, <2>2, <2>3 DEF Answer
<1>8. CASE Cancel \/ Setup \/ ReadClosed \/ ReadFails \/ Close \/ UNCHANGED vars
  <2>1. UNCHANGED <<mode, replies, arrived, held>>
    BY <1>8 DEF Cancel, Setup, ReadClosed, ReadFails, ReadError, Close, vars
  <2> QED BY <1>2, <2>1
<1> QED
  BY <1>3, <1>4, <1>5, <1>6, <1>7, <1>8 DEF Next, Serving, Handling

-----------------------------------------------------------------------------
(* The theorems. *)

\* The inductive invariant holds in every behaviour of the server.
THEOREM ServerInvHolds == Spec => []ServerInv
<1>1. ServerInv /\ [Next]_vars => ServerInv'
  BY ServerTypeStep, ServerWorkStep, ServerReplyStep DEF ServerInv
<1> QED BY ServerInit, <1>1, PTL DEF Spec

\* The server's state keeps its types.
THEOREM TypeCorrect == Spec => []TypeOK
<1>1. ServerInv => TypeOK
  BY DEF ServerInv
<1> QED BY ServerInvHolds, <1>1, PTL

\* However many handler goroutines run at once, Handle answers each packet at
\* most once, with the type and to the address that this packet calls for.
THEOREM AnswersItsRequest == Spec => []ReplyToItsRequest
<1>1. ServerInv => ReplyToItsRequest
  BY DEF ServerInv
<1> QED BY ServerInvHolds, <1>1, PTL

\* In mode reservation no address is handed out that the backend did not hold
\* in an enabled record of the client while its packet was being handled.
THEOREM AddressesReserved == Spec => []ReservedOnly
<1>1. ServerInv => ReservedOnly
  BY DEF ServerInv
<1> QED BY ServerInvHolds, <1>1, PTL

\* In modes reservation and proxy no client is told what to boot unless the
\* backend held a record allowing it while its packet was being handled.
THEOREM NetbootIsAllowed == Spec => []NetbootGate
<1>1. ServerInv => NetbootGate
  BY DEF ServerInv
<1> QED BY ServerInvHolds, <1>1, PTL

\* Only the end of the context closes the socket under a reading Serve.
ClosedByContext == serve = "read" /\ ~open => ctxDone

\* Serve returns a read error only if a read of the open socket failed: the
\* close that the end of its own context causes is never reported.
THEOREM StopIsClean == Spec => []CleanStop
<1> DEFINE I == ClosedByContext /\ CleanStop
<1>1. Init => I
  BY DEF Init, ClosedByContext, CleanStop
<1>2. I /\ [Next]_vars => I'
  <2> SUFFICES ASSUME I, [Next]_vars PROVE I'
    OBVIOUS
  <2> USE DEF net, server, handlers, backend, ClosedByContext, CleanStop
  <2>1. CASE Setup
    BY <2>1 DEF Setup
  <2>2. CASE ReadClosed \/ ReadFails
    BY <2>2, Zenon DEF ReadClosed, ReadFails, ReadError
  <2>3. CASE Close
    BY <2>3 DEF Close
  <2>4. CASE Cancel
    BY <2>4 DEF Cancel
  <2>5. CASE UNCHANGED <<serve, ret, broken, open, ctxDone>>
    BY <2>5
  <2>6. CASE Receive \/ UNCHANGED vars
    BY <2>5, <2>6 DEF Receive, vars
  <2>7. ASSUME NEW p \in Pkt \cup {Garbage}, Arrive(p) PROVE I'
    BY <2>5, <2>7 DEF Arrive
  <2>8. ASSUME NEW m \in Macs, NEW a \in AnswersFor(m), Update(m, a) PROVE I'
    BY <2>5, <2>8 DEF Update
  <2>9. ASSUME NEW h \in Handlers, Handling(h) PROVE I'
    BY <2>5, <2>9 DEF Handling, Ask, Answer
  <2> QED
    BY <2>1, <2>2, <2>3, <2>4, <2>6, <2>7, <2>8, <2>9 DEF Next, Serving
<1>3. I => CleanStop
  OBVIOUS
<1> QED BY <1>1, <1>2, <1>3, PTL DEF Spec
=============================================================================
