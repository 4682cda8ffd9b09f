---------------------------- MODULE RedisProofs ----------------------------
(***************************************************************************)
(* Proofs about RedisRelay, for any number of processes, sockets, tunnels  *)
(* and frames, and any processes that die: TypeOK, NoResidue,              *)
(* ExclusiveClaim and OnlyEarlyOvertaken.                                  *)
(*                                                                         *)
(* register and deregister are sequences of steps that nothing holds       *)
(* together, so the invariants go by the phase a socket is in: what its    *)
(* own steps have put somewhere stays its own until its own step takes it  *)
(* out, or another's does, which is the one thing evicted records.         *)
(***************************************************************************)
EXTENDS RedisRelay, TLAPS

\* The tables of a process lead only to sockets of that process, id and role,
\* which are between the insert and the removal of their own, or were dropped there.
InSlot(c)  == phase[c] \in {"slotted", "open", "leaving", "unclaimed", "undispatched",
                            "stranded"}
InEntry(c) == phase[c] \in {"open", "leaving", "unclaimed"}
Of(c, i, t, r) == InstOf[c] = i /\ IdOf[c] = t /\ RoleOf[c] = r

SlotsOwn ==
  \A i \in Instances, t \in Ids, r \in Roles :
    local[i][t][r] # NoConn => Of(local[i][t][r], i, t, r) /\ InSlot(local[i][t][r])
EntriesOwn ==
  \A i \in Instances, t \in Ids, r \in Roles :
    dispatch[i][t][r] # NoConn => Of(dispatch[i][t][r], i, t, r) /\ InEntry(dispatch[i][t][r])

\* No socket of a process that died goes on.
DownEnds == \A c \in Conns : ~up[InstOf[c]] => phase[c] \in {"gone", "rejected", "crashed"}

\* As long as nobody was evicted from its role, a socket between its SET and its
\* DEL has the key, and once open the entry by which the key is refreshed.
Evicted(c) == <<IdOf[c], RoleOf[c]>> \in evicted
ClaimKept ==
  \A c \in Conns :
    Holding(c) /\ ~Evicted(c) =>
      /\ Claim(c) = InstOf[c]
      /\ phase[c] \in {"open", "leaving"} => Entry(c) = c

----------------------------------------------------------------------------
(***************************************************************************)
(* Facts about the operators.                                              *)
(***************************************************************************)

LEMMA RoleFacts ==
  ASSUME NEW c \in Conns
  PROVE  /\ IdOf[c] \in Ids /\ RoleOf[c] \in Roles /\ InstOf[c] \in Instances
         /\ PeerRole(RoleOf[c]) \in Roles
  BY RedisAssumption DEF PeerRole, Roles

LEMMA DeliveryFacts ==
  ASSUME NEW d \in Delivery
  PROVE  /\ d = Close <=> d.from = NoConn
         /\ d # Close => d \in Frames /\ d.from \in Conns /\ d.n \in Nat
  BY RedisAssumption DEF Delivery, Frames, Close

LEMMA NothingType ==
  /\ Close \in Delivery
  /\ Nothing \in [to : Conns \cup {NoConn}, msg : Delivery]
  BY DEF Nothing, Delivery

LEMMA SetKeyType ==
  ASSUME NEW S, NEW f \in [Ids -> [Roles -> S]], NEW t \in Ids, NEW r \in Roles, NEW v \in S
  PROVE  [f EXCEPT ![t][r] = v] \in [Ids -> [Roles -> S]]
  OBVIOUS

LEMMA SetFieldType ==
  ASSUME NEW S, NEW f \in [Instances -> [Ids -> [Roles -> S]]],
         NEW i \in Instances, NEW t \in Ids, NEW r \in Roles, NEW v \in S
  PROVE  [f EXCEPT ![i][t][r] = v] \in [Instances -> [Ids -> [Roles -> S]]]
  OBVIOUS

LEMMA TableTypes ==
  ASSUME TypeOK, NEW c \in Conns
  PROVE  /\ Slot(c) \in Conns \cup {NoConn}
         /\ PeerSlot(c) \in Conns \cup {NoConn}
         /\ Entry(c) \in Conns \cup {NoConn}
         /\ Claim(c) \in Instances \cup {NoInst}
  BY RoleFacts DEF TypeOK, Slot, PeerSlot, Entry, Claim

LEMMA PushType ==
  ASSUME TypeOK, NEW c \in Conns, NEW d \in Delivery
  PROVE  Push(c, d) \in [Conns -> Seq(Delivery)]
  <1>1. inbox[c] \in Seq(Delivery)
    BY DEF TypeOK
  <1>2. Append(inbox[c], d) \in Seq(Delivery)
    BY <1>1
  <1> QED
    BY <1>2 DEF TypeOK, Push

Posts == [id : Ids, role : Roles, msg : Delivery]

LEMMA PublishedType ==
  ASSUME TypeOK, NEW c \in Conns, NEW d \in Delivery
  PROVE  Published(c, d) \in [Instances -> Seq(Posts)]
  <1> DEFINE m == [id |-> IdOf[c], role |-> PeerRole(RoleOf[c]), msg |-> d]
  <1>1. m \in Posts
    BY RoleFacts DEF Posts
  <1>2. \A i \in Instances : bus[i] \in Seq(Posts)
    BY DEF TypeOK, Posts
  <1> HIDE DEF m
  <1>3. \A i \in Instances : Append(bus[i], m) \in Seq(Posts)
    BY <1>1, <1>2
  <1>4. Published(c, d) = [i \in Instances |->
            IF Addressed(i, IdOf[c], PeerRole(RoleOf[c])) THEN Append(bus[i], m) ELSE bus[i]]
    BY DEF Published, m
  <1> QED
    BY <1>2, <1>3, <1>4

----------------------------------------------------------------------------
(***************************************************************************)
(* Types.                                                                  *)
(***************************************************************************)

\* Nobody has sent more than was read in all.
SentInTotal == \A c \in Conns : sent[c] <= total

LEMMA TypeInit == Init => TypeOK /\ SentInTotal
  <1> SUFFICES ASSUME Init PROVE TypeOK /\ SentInTotal
    OBVIOUS
  <1>1. NoSlot \in [Roles -> Conns \cup {NoConn}]
    BY DEF NoSlot
  <1>2. 0 \in 0..MaxFrames /\ {} \subseteq Ids \X Roles
    BY RedisAssumption
  <1>3. [c \in Conns |-> Nothing] \in [Conns -> [to : Conns \cup {NoConn}, msg : Delivery]]
    BY NothingType
  <1>4. presence \in [Ids -> [Roles -> Instances \cup {NoInst}]]
    BY DEF Init
  <1>5. /\ local \in [Instances -> [Ids -> [Roles -> Conns \cup {NoConn}]]]
        /\ dispatch \in [Instances -> [Ids -> [Roles -> Conns \cup {NoConn}]]]
    BY <1>1 DEF Init
  <1>6. /\ bus \in [Instances -> Seq([id : Ids, role : Roles, msg : Delivery])]
        /\ inbox \in [Conns -> Seq(Delivery)] /\ delivered \in [Conns -> Seq(Frames)]
    BY DEF Init
  <1>7. /\ phase \in [Conns -> Phases] /\ writer \in [Conns -> {"none", "waiting", "pump", "done"}]
        /\ up \in [Instances -> BOOLEAN]
    BY DEF Init, Phases
  <1>8. /\ sent \in [Conns -> 0..MaxFrames] /\ total \in 0..MaxFrames
        /\ evicted \subseteq Ids \X Roles /\ early \in [Conns -> [Conns -> 0..MaxFrames]]
        /\ pending \in [Conns -> [to : Conns \cup {NoConn}, msg : Delivery]]
    BY <1>2, <1>3 DEF Init
  <1>9. SentInTotal
    BY DEF Init, SentInTotal
  <1> QED
    BY <1>4, <1>5, <1>6, <1>7, <1>8, <1>9 DEF TypeOK

LEMMA GoType ==
  ASSUME TypeOK, NEW c \in Conns, NEW from, NEW to \in Phases, Go(c, from, to)
  PROVE  phase' \in [Conns -> Phases]
  BY DEF Go, TypeOK

LEMMA TypeRegistering ==
  ASSUME TypeOK, NEW c \in Conns, Registering(c)
  PROVE  TypeOK'
  <1>0. /\ {"new", "checked", "claimed", "slotted", "open", "leaving", "unclaimed",
            "undispatched", "closing", "gone", "rejected", "stranded", "crashed"} \subseteq Phases
        /\ RoleOf[c] \in Roles /\ IdOf[c] \in Ids /\ InstOf[c] \in Instances
    BY RoleFacts DEF Phases
  <1>1. CASE CheckCapacity(c)
    <2>1. phase' \in [Conns -> Phases]
      BY <1>0, <1>1, GoType DEF CheckCapacity
    <2> QED
      BY <1>1, <2>1 DEF CheckCapacity, TypeOK, tables, queues, reads, past
  <1>2. [presence EXCEPT ![IdOf[c]][RoleOf[c]] = ClaimBy(c)]
          \in [Ids -> [Roles -> Instances \cup {NoInst}]]
    BY <1>0, SetKeyType DEF TypeOK, ClaimBy
  <1>3. CASE SetPresence(c)
    <2>1. phase' \in [Conns -> Phases]
      BY <1>0, <1>3, GoType DEF SetPresence
    <2>2. presence' \in [Ids -> [Roles -> Instances \cup {NoInst}]]
      BY <1>2, <1>3 DEF SetPresence, TypeOK
    <2> QED
      BY <1>3, <2>1, <2>2 DEF SetPresence, TypeOK, queues, reads, past
  <1>4. CASE PresenceUnanswered(c)
    <2>1. phase' \in [Conns -> Phases]
      BY <1>0, <1>4, GoType DEF PresenceUnanswered
    <2>2. presence' \in [Ids -> [Roles -> Instances \cup {NoInst}]]
      BY <1>2, <1>4 DEF PresenceUnanswered, AfterSet, TypeOK
    <2> QED
      BY <1>4, <2>1, <2>2 DEF PresenceUnanswered, TypeOK, queues, reads, past
  <1>5. CASE PutLocal(c)
    <2>1. phase' \in [Conns -> Phases]
      BY <1>0, <1>5, GoType DEF PutLocal
    <2>2. local' \in [Instances -> [Ids -> [Roles -> Conns \cup {NoConn}]]]
      BY <1>0, <1>5, SetFieldType DEF PutLocal, TypeOK
    <2>3. early' \in [Conns -> [Conns -> 0..MaxFrames]]
      BY <1>5 DEF PutLocal, TypeOK
    <2>4. writer' \in [Conns -> {"none", "waiting", "pump", "done"}]
      BY <1>5 DEF PutLocal, TypeOK
    <2> QED
      BY <1>5, <2>1, <2>2, <2>3, <2>4 DEF PutLocal, TypeOK, queues, reads
  <1>6. CASE PutDispatch(c)
    <2>1. phase' \in [Conns -> Phases]
      BY <1>0, <1>6, GoType DEF PutDispatch
    <2>2. dispatch' \in [Instances -> [Ids -> [Roles -> Conns \cup {NoConn}]]]
      BY <1>0, <1>6, SetFieldType DEF PutDispatch, TypeOK
    <2> QED
      BY <1>6, <2>1, <2>2 DEF PutDispatch, TypeOK, queues, reads, past
  <1>7. CASE CancelRegister(c)
    <2>1. phase' \in [Conns -> Phases]
      BY <1>0, <1>7 DEF CancelRegister, TypeOK
    <2>2. presence' \in [Ids -> [Roles -> Instances \cup {NoInst}]]
      BY <1>2, <1>7 DEF CancelRegister, AfterSet, TypeOK
    <2>3. /\ inbox' \in [Conns -> Seq(Delivery)]
          /\ writer' \in [Conns -> {"none", "waiting", "pump", "done"}]
      BY <1>7 DEF CancelRegister, TypeOK
    <2> QED
      BY <1>7, <2>1, <2>2, <2>3 DEF CancelRegister, TypeOK, reads, past
  <1> QED
    BY <1>1, <1>3, <1>4, <1>5, <1>6, <1>7 DEF Registering

LEMMA DeliverType ==
  ASSUME TypeOK, NEW c \in Conns, Deliver(c)
  PROVE  /\ inbox' \in [Conns -> Seq(Delivery)]
         /\ bus' \in [Instances -> Seq(Posts)]
  <1>1. /\ pending[c].msg \in Delivery
        /\ pending[c].to # NoConn => pending[c].to \in Conns
    BY DEF TypeOK
  <1>2. inbox \in [Conns -> Seq(Delivery)] /\ bus \in [Instances -> Seq(Posts)]
    BY DEF TypeOK, Posts
  <1>3. CASE pending[c].to # NoConn
    <2>1. inbox' = Push(pending[c].to, pending[c].msg) /\ bus' = bus
      BY <1>3 DEF Deliver
    <2> QED
      BY <1>1, <1>2, <1>3, <2>1, PushType
  <1>4. CASE pending[c].to = NoConn
    <2>1. bus' \in {bus, Published(c, pending[c].msg)} /\ inbox' = inbox
      BY <1>4 DEF Deliver
    <2> QED
      BY <1>1, <1>2, <2>1, PublishedType
  <1> QED
    BY <1>3, <1>4

LEMMA TypeOpen ==
  ASSUME TypeOK, SentInTotal, NEW c \in Conns,
         ReadFrame(c) \/ SendToPeer(c) \/ ReaderEnd(c) \/ Cancel(c)
  PROVE  TypeOK'
  <1>1. CASE ReadFrame(c)
    <2>1. sent[c] \in Nat /\ total \in Nat /\ sent[c] <= total /\ MaxFrames \in Nat
      BY RedisAssumption DEF TypeOK, SentInTotal
    <2>2. sent[c] + 1 \in 0..MaxFrames /\ total + 1 \in 0..MaxFrames /\ sent[c] + 1 \in Nat
      BY <1>1, <2>1 DEF ReadFrame
    <2>3. sent' \in [Conns -> 0..MaxFrames] /\ total' \in 0..MaxFrames
      BY <1>1, <2>2 DEF ReadFrame, TypeOK
    <2>4. [from |-> c, n |-> sent[c] + 1] \in Delivery
      BY <2>2 DEF Delivery, Frames
    <2>5. pending' \in [Conns -> [to : Conns \cup {NoConn}, msg : Delivery]]
      BY <1>1, <2>4, TableTypes DEF ReadFrame, TypeOK
    <2> QED
      BY <1>1, <2>3, <2>5 DEF ReadFrame, TypeOK, tables, queues, past
  <1>2. CASE SendToPeer(c)
    <2>1. pending' \in [Conns -> [to : Conns \cup {NoConn}, msg : Delivery]]
      BY <1>2, NothingType DEF SendToPeer, TypeOK
    <2>2. /\ inbox' \in [Conns -> Seq(Delivery)]
          /\ bus' \in [Instances -> Seq([id : Ids, role : Roles, msg : Delivery])]
      BY <1>2, DeliverType DEF SendToPeer, Posts
    <2> QED
      BY <1>2, <2>1, <2>2 DEF SendToPeer, TypeOK, tables, reads, past
  <1>3. CASE ReaderEnd(c)
    <2>1. phase' \in [Conns -> Phases]
      BY <1>3, GoType DEF ReaderEnd, Phases
    <2>2. inbox' \in [Conns -> Seq(Delivery)] /\ writer' \in [Conns -> {"none", "waiting", "pump", "done"}]
      BY <1>3 DEF ReaderEnd, TypeOK
    <2> QED
      BY <1>3, <2>1, <2>2 DEF ReaderEnd, TypeOK, tables, reads, past
  <1>4. CASE Cancel(c)
    <2>1. phase' \in [Conns -> Phases]
      BY <1>4, GoType DEF Cancel, Phases
    <2> QED
      BY <1>4, <2>1 DEF Cancel, TypeOK, tables, queues, reads, past
  <1> QED
    BY <1>1, <1>2, <1>3, <1>4

LEMMA TypeLeaving ==
  ASSUME TypeOK, NEW c \in Conns, Leaving(c)
  PROVE  TypeOK'
  <1>0. /\ RoleOf[c] \in Roles /\ IdOf[c] \in Ids /\ InstOf[c] \in Instances
        /\ {"unclaimed", "undispatched", "closing", "gone"} \subseteq Phases
    BY RoleFacts DEF Phases
  <1>1. CASE DelPresence(c)
    <2>1. phase' \in [Conns -> Phases]
      BY <1>0, <1>1, GoType DEF DelPresence
    <2>2. [presence EXCEPT ![IdOf[c]][RoleOf[c]] = NoInst]
            \in [Ids -> [Roles -> Instances \cup {NoInst}]]
      BY <1>0, SetKeyType DEF TypeOK
    <2>3. presence' \in [Ids -> [Roles -> Instances \cup {NoInst}]]
      BY <1>1, <2>2 DEF DelPresence, TypeOK
    <2> QED
      BY <1>1, <2>1, <2>3 DEF DelPresence, TypeOK, queues, reads, past
  <1>2. CASE DropDispatch(c)
    <2>1. phase' \in [Conns -> Phases]
      BY <1>0, <1>2, GoType DEF DropDispatch
    <2>2. dispatch' \in [Instances -> [Ids -> [Roles -> Conns \cup {NoConn}]]]
      BY <1>0, <1>2, SetFieldType DEF DropDispatch, Dropped, TypeOK
    <2>3. evicted' \subseteq Ids \X Roles
      BY <1>0, <1>2 DEF DropDispatch, TypeOK
    <2> QED
      BY <1>2, <2>1, <2>2, <2>3 DEF DropDispatch, TypeOK, queues, reads
  <1>3. CASE ClearLocal(c)
    <2>1. phase' \in [Conns -> Phases]
      BY <1>0, <1>3, GoType DEF ClearLocal
    <2>2. local' \in [Instances -> [Ids -> [Roles -> Conns \cup {NoConn}]]]
      BY <1>0, <1>3, SetFieldType DEF ClearLocal, TypeOK
    <2>3. pending' \in [Conns -> [to : Conns \cup {NoConn}, msg : Delivery]]
      BY <1>3, TableTypes, NothingType DEF ClearLocal, TypeOK
    <2> QED
      BY <1>3, <2>1, <2>2, <2>3 DEF ClearLocal, TypeOK, queues, reads, past
  <1>4. CASE NotifyPeer(c)
    <2>1. phase' \in [Conns -> Phases]
      BY <1>0, <1>4, GoType DEF NotifyPeer
    <2>2. pending' \in [Conns -> [to : Conns \cup {NoConn}, msg : Delivery]]
      BY <1>4, NothingType DEF NotifyPeer, TypeOK
    <2>3. /\ inbox' \in [Conns -> Seq(Delivery)]
          /\ bus' \in [Instances -> Seq([id : Ids, role : Roles, msg : Delivery])]
      BY <1>4, DeliverType DEF NotifyPeer, Posts
    <2> QED
      BY <1>4, <2>1, <2>2, <2>3 DEF NotifyPeer, TypeOK, tables, reads, past
  <1> QED
    BY <1>1, <1>2, <1>3, <1>4 DEF Leaving

LEMMA TypePump ==
  ASSUME TypeOK, NEW c \in Conns, Pump(c)
  PROVE  TypeOK'
  <1>1. inbox[c] \in Seq(Delivery) /\ delivered[c] \in Seq(Frames)
    BY DEF TypeOK
  <1>2. CASE WriterDeliver(c)
    <2>1. Head(inbox[c]) \in Delivery /\ Tail(inbox[c]) \in Seq(Delivery)
      BY <1>1, <1>2 DEF WriterDeliver
    <2>2. Head(inbox[c]) \in Frames
      BY <1>2, <2>1, DeliveryFacts DEF WriterDeliver
    <2>3. Append(delivered[c], Head(inbox[c])) \in Seq(Frames)
      BY <1>1, <2>2
    <2>4. delivered' \in [Conns -> Seq(Frames)] /\ inbox' \in [Conns -> Seq(Delivery)]
      BY <1>2, <2>1, <2>3 DEF WriterDeliver, TypeOK
    <2> QED
      BY <1>2, <2>4 DEF WriterDeliver, TypeOK, tables, reads, past
  <1>3. CASE WriterStops(c)
    <2>1. inbox' \in [Conns -> Seq(Delivery)] /\ writer' \in [Conns -> {"none", "waiting", "pump", "done"}]
      BY <1>3 DEF WriterStops, TypeOK
    <2> QED
      BY <1>3, <2>1 DEF WriterStops, TypeOK, tables, reads, past
  <1> QED
    BY <1>2, <1>3 DEF Pump

\* What the subscriber does with the message it takes from its stream.
LEMMA RouteFacts ==
  ASSUME TypeOK, NEW i \in Instances, Route(i)
  PROVE  /\ bus[i] # <<>> /\ Head(bus[i]) \in Posts /\ Tail(bus[i]) \in Seq(Posts)
         /\ bus' = [bus EXCEPT ![i] = Tail(bus[i])]
         /\ LET m == Head(bus[i])
                c == dispatch[i][m.id][m.role]
            IN  /\ c \in Conns \cup {NoConn}
                /\ m.msg \in Delivery
                /\ inbox' = IF c = NoConn THEN inbox ELSE Push(c, m.msg)
  <1>1. bus[i] \in Seq(Posts)
    BY DEF TypeOK, Posts
  <1>2. bus[i] # <<>>
    BY DEF Route
  <1>3. Head(bus[i]) \in Posts /\ Tail(bus[i]) \in Seq(Posts)
    BY <1>1, <1>2
  <1>4. /\ Head(bus[i]).id \in Ids /\ Head(bus[i]).role \in Roles
        /\ Head(bus[i]).msg \in Delivery
    BY <1>3 DEF Posts
  <1>5. dispatch[i][Head(bus[i]).id][Head(bus[i]).role] \in Conns \cup {NoConn}
    BY <1>4 DEF TypeOK
  <1> QED
    BY <1>2, <1>3, <1>4, <1>5 DEF Route, TypeOK

LEMMA TypeOutside ==
  /\ \A i \in Instances : TypeOK /\ (Route(i) \/ Crash(i)) => TypeOK'
  /\ \A t \in Ids, r \in Roles : TypeOK /\ Expire(t, r) => TypeOK'
  <1>1. ASSUME NEW i \in Instances, TypeOK, Route(i) PROVE TypeOK'
    <2>1. PICK c \in Conns \cup {NoConn}, d \in Delivery :
            inbox' = IF c = NoConn THEN inbox ELSE Push(c, d)
      BY <1>1, RouteFacts
    <2>2. inbox' \in [Conns -> Seq(Delivery)]
      BY <1>1, <2>1, PushType DEF TypeOK
    <2>3. bus' \in [Instances -> Seq([id : Ids, role : Roles, msg : Delivery])]
      BY <1>1, RouteFacts DEF TypeOK, Posts
    <2> QED
      BY <1>1, <2>2, <2>3 DEF Route, TypeOK, tables, reads, past
  <1>2. ASSUME NEW i \in Instances, TypeOK, Crash(i) PROVE TypeOK'
    <2>1. [t \in Ids |-> NoSlot] \in [Ids -> [Roles -> Conns \cup {NoConn}]]
      BY DEF NoSlot
    <2>2. /\ local' \in [Instances -> [Ids -> [Roles -> Conns \cup {NoConn}]]]
          /\ dispatch' \in [Instances -> [Ids -> [Roles -> Conns \cup {NoConn}]]]
      BY <1>2, <2>1 DEF Crash, TypeOK
    <2>3. bus' \in [Instances -> Seq([id : Ids, role : Roles, msg : Delivery])]
      <3>1. bus \in [Instances -> Seq(Posts)]
        BY <1>2 DEF TypeOK, Posts
      <3>2. bus' = [bus EXCEPT ![i] = <<>>]
        BY <1>2 DEF Crash
      <3>3. <<>> \in Seq(Posts)
        OBVIOUS
      <3>4. bus' \in [Instances -> Seq(Posts)]
        BY <3>1, <3>2, <3>3
      <3> QED
        BY <3>4 DEF Posts
    <2>7. up' \in [Instances -> BOOLEAN]
      BY <1>2 DEF Crash, TypeOK
    <2>4. phase' \in [Conns -> Phases]
      BY <1>2 DEF Crash, TypeOK, Phases
    <2>5. /\ writer' \in [Conns -> {"none", "waiting", "pump", "done"}]
          /\ inbox' \in [Conns -> Seq(Delivery)]
      BY <1>2 DEF Crash, TypeOK
    <2>6. pending' \in [Conns -> [to : Conns \cup {NoConn}, msg : Delivery]]
      BY <1>2, NothingType DEF Crash, TypeOK
    <2> QED
      BY <1>2, <2>2, <2>3, <2>4, <2>5, <2>6, <2>7 DEF Crash, TypeOK, reads, past
  <1>3. ASSUME NEW t \in Ids, NEW r \in Roles, TypeOK, Expire(t, r) PROVE TypeOK'
    <2>1. presence' \in [Ids -> [Roles -> Instances \cup {NoInst}]]
      BY <1>3, SetKeyType DEF Expire, TypeOK
    <2> QED
      BY <1>3, <2>1 DEF Expire, TypeOK, queues, reads, past
  <1> QED
    BY <1>1, <1>2, <1>3

LEMMA SentStep == TypeOK /\ SentInTotal /\ [Next]_vars => SentInTotal'
  <1> SUFFICES ASSUME TypeOK, SentInTotal, [Next]_vars PROVE SentInTotal'
    OBVIOUS
  <1>1. \A c \in Conns : sent[c] \in Nat /\ total \in Nat
    BY RedisAssumption DEF TypeOK
  <1>2. ASSUME NEW c \in Conns, ReadFrame(c) PROVE SentInTotal'
    <2>1. total' = total + 1 /\ sent' = [sent EXCEPT ![c] = sent[c] + 1]
      BY <1>2 DEF ReadFrame
    <2>2. \A d \in Conns : sent'[d] \in {sent[d], sent[d] + 1}
      BY <2>1 DEF TypeOK
    <2> QED
      BY <1>1, <2>1, <2>2 DEF SentInTotal
  <1>3. CASE UNCHANGED <<sent, total>>
    BY <1>3 DEF SentInTotal
  <1>4. (\E c \in Conns : ReadFrame(c)) \/ UNCHANGED <<sent, total>>
    <2>1. ASSUME NEW c \in Conns, Registering(c)
          PROVE  UNCHANGED <<sent, total>>
      BY <2>1 DEF Registering, reads, CheckCapacity, SetPresence, PresenceUnanswered, PutLocal,
                  PutDispatch, CancelRegister
    <2>2. ASSUME NEW c \in Conns, SendToPeer(c) \/ ReaderEnd(c) \/ Cancel(c)
          PROVE  UNCHANGED <<sent, total>>
      BY <2>2 DEF reads, SendToPeer, ReaderEnd, Cancel
    <2>3. ASSUME NEW c \in Conns, Leaving(c) \/ Pump(c)
          PROVE  UNCHANGED <<sent, total>>
      BY <2>3 DEF Leaving, Pump, reads, DelPresence, DropDispatch, ClearLocal, NotifyPeer,
                  WriterDeliver, WriterStops
    <2>4. ASSUME \/ \E i \in Instances : Route(i)
                 \/ \E i \in MayCrash : Crash(i)
                 \/ \E t \in Ids, r \in Roles : Expire(t, r)
                 \/ Quiescent \/ UNCHANGED vars
          PROVE  UNCHANGED <<sent, total>>
      BY <2>4 DEF Route, Crash, Expire, Quiescent, vars, reads
    <2> QED
      BY <2>1, <2>2, <2>3, <2>4, Zenon DEF Next
  <1> QED
    BY <1>2, <1>3, <1>4

LEMMA TypeStep == TypeOK /\ SentInTotal /\ [Next]_vars => TypeOK'
  <1> SUFFICES ASSUME TypeOK, SentInTotal, [Next]_vars PROVE TypeOK'
    OBVIOUS
  <1>1. CASE UNCHANGED vars
    BY <1>1 DEF vars, TypeOK
  <1>2. ASSUME NEW i \in MayCrash, Crash(i) PROVE TypeOK'
    BY <1>2, TypeOutside, RedisAssumption
  <1> QED
    BY <1>1, <1>2, TypeRegistering, TypeOpen, TypeLeaving, TypePump, TypeOutside
       DEF Next, Quiescent

\* Every state of the processes, Redis and the messages on their way is well typed.
THEOREM TypeCorrect == Spec => []TypeOK
  BY TypeInit, TypeStep, SentStep, PTL DEF Spec

----------------------------------------------------------------------------
(***************************************************************************)
(* The tables of a process.                                                *)
(***************************************************************************)

Owned == SlotsOwn /\ EntriesOwn /\ DownEnds

LEMMA OwnedInit == Init => Owned
  BY RedisAssumption DEF Init, Owned, SlotsOwn, EntriesOwn, DownEnds, NoSlot

\* A socket that goes from one phase to another without touching a table is as
\* much in the tables as it was.
LEMMA OwnedGo ==
  ASSUME TypeOK, Owned, UNCHANGED <<local, dispatch, up>>, NEW c \in Conns, NEW from, NEW to,
         Go(c, from, to), from = "new" => up[InstOf[c]],
         <<from, to>> \in {<<"new", "checked">>, <<"new", "rejected">>, <<"checked", "rejected">>,
                          <<"checked", "claimed">>, <<"open", "leaving">>, <<"checked", "gone">>,
                          <<"claimed", "gone">>, <<"slotted", "stranded">>,
                          <<"leaving", "unclaimed">>, <<"closing", "gone">>}
  PROVE  Owned'
  <1>1. \A x \in Conns : phase'[x] = IF x = c THEN to ELSE phase[x]
    BY DEF Go, TypeOK
  <1>2. \A x \in Conns : (InSlot(x) => InSlot(x)') /\ (InEntry(x) => InEntry(x)')
    BY <1>1 DEF InSlot, InEntry, Go
  <1>3. \A i \in Instances, t \in Ids, r \in Roles :
          local[i][t][r] \in Conns \cup {NoConn} /\ dispatch[i][t][r] \in Conns \cup {NoConn}
    BY DEF TypeOK
  <1>4. SlotsOwn' /\ EntriesOwn'
    BY <1>2, <1>3 DEF Owned, SlotsOwn, EntriesOwn, Of
  <1>5. up[InstOf[c]]
    BY DEF Owned, DownEnds, Go
  <1>6. DownEnds'
    BY <1>1, <1>5 DEF Owned, DownEnds
  <1> QED
    BY <1>4, <1>6 DEF Owned

LEMMA OwnedStep == TypeOK /\ Owned /\ [Next]_vars => Owned'
  <1> SUFFICES ASSUME TypeOK, Owned, [Next]_vars PROVE Owned'
    OBVIOUS
  <1>0. \A i \in Instances, t \in Ids, r \in Roles :
          local[i][t][r] \in Conns \cup {NoConn} /\ dispatch[i][t][r] \in Conns \cup {NoConn}
    BY DEF TypeOK
  <1>1. CASE UNCHANGED <<local, dispatch, phase, up>>
    BY <1>1 DEF Owned, SlotsOwn, EntriesOwn, DownEnds, Of, InSlot, InEntry
  <1>2. ASSUME NEW c \in Conns,
               CheckCapacity(c) \/ SetPresence(c) \/ PresenceUnanswered(c) \/ ReaderEnd(c)
                 \/ Cancel(c) \/ CancelRegister(c) \/ DelPresence(c) \/ NotifyPeer(c)
        PROVE  Owned'
    <2>1. UNCHANGED <<local, dispatch, up>>
      BY <1>2 DEF CheckCapacity, SetPresence, PresenceUnanswered, ReaderEnd, Cancel,
                  CancelRegister, DelPresence, NotifyPeer, tables
    <2>2. CASE CheckCapacity(c)
      <3>1. up[InstOf[c]]
        BY <2>2 DEF CheckCapacity
      <3> QED
        BY <2>1, <2>2, <3>1, OwnedGo DEF CheckCapacity
    <2>3. CASE SetPresence(c) \/ PresenceUnanswered(c)
      BY <2>1, <2>3, OwnedGo DEF SetPresence, PresenceUnanswered
    <2>4. CASE ReaderEnd(c) \/ Cancel(c) \/ DelPresence(c) \/ NotifyPeer(c)
      BY <2>1, <2>4, OwnedGo DEF ReaderEnd, Cancel, DelPresence, NotifyPeer
    <2>5. CASE CancelRegister(c)
      <3>1. Go(c, "checked", "gone") \/ Go(c, "claimed", "gone") \/ Go(c, "slotted", "stranded")
        BY <2>5 DEF CancelRegister, Go
      <3> QED
        BY <2>1, <3>1, OwnedGo
    <2> QED
      BY <1>2, <2>2, <2>3, <2>4, <2>5
  <1>3. ASSUME NEW c \in Conns, PutLocal(c) PROVE Owned'
    <2>1. /\ \A x \in Conns : phase'[x] = IF x = c THEN "slotted" ELSE phase[x]
          /\ phase[c] = "claimed"
      BY <1>3 DEF PutLocal, Go, TypeOK
    <2>2. \A i \in Instances, t \in Ids, r \in Roles :
            local'[i][t][r] = IF i = InstOf[c] /\ t = IdOf[c] /\ r = RoleOf[c]
                              THEN c ELSE local[i][t][r]
      BY <1>3, RoleFacts DEF PutLocal, TypeOK
    <2>3. SlotsOwn'
      BY <1>0, <2>1, <2>2 DEF Owned, SlotsOwn, Of, InSlot
    <2>4. dispatch' = dispatch /\ up' = up
      BY <1>3 DEF PutLocal
    <2>5. EntriesOwn'
      BY <1>0, <2>1, <2>4 DEF Owned, EntriesOwn, Of, InEntry
    <2>6. DownEnds'
      BY <2>1, <2>4 DEF Owned, DownEnds
    <2> QED
      BY <2>3, <2>5, <2>6 DEF Owned
  <1>4. ASSUME NEW c \in Conns, PutDispatch(c) PROVE Owned'
    <2>1. /\ \A x \in Conns : phase'[x] = IF x = c THEN "open" ELSE phase[x]
          /\ phase[c] = "slotted"
      BY <1>4 DEF PutDispatch, Go, TypeOK
    <2>2. \A i \in Instances, t \in Ids, r \in Roles :
            dispatch'[i][t][r] = IF i = InstOf[c] /\ t = IdOf[c] /\ r = RoleOf[c]
                                 THEN c ELSE dispatch[i][t][r]
      BY <1>4, RoleFacts DEF PutDispatch, TypeOK
    <2>3. EntriesOwn'
      BY <1>0, <2>1, <2>2 DEF Owned, EntriesOwn, Of, InEntry
    <2>4. local' = local /\ up' = up
      BY <1>4 DEF PutDispatch
    <2>5. SlotsOwn'
      BY <1>0, <2>1, <2>4 DEF Owned, SlotsOwn, Of, InSlot
    <2>6. DownEnds'
      BY <2>1, <2>4 DEF Owned, DownEnds
    <2> QED
      BY <2>3, <2>5, <2>6 DEF Owned
  <1>5. ASSUME NEW c \in Conns, DropDispatch(c) PROVE Owned'
    <2>1. /\ \A x \in Conns : phase'[x] = IF x = c THEN "undispatched" ELSE phase[x]
          /\ phase[c] = "unclaimed"
      BY <1>5 DEF DropDispatch, Go, TypeOK
    <2>2. \A i \in Instances, t \in Ids, r \in Roles :
            dispatch'[i][t][r] = IF i = InstOf[c] /\ t = IdOf[c] /\ r = RoleOf[c]
                                 THEN NoConn ELSE dispatch[i][t][r]
      BY <1>5, RoleFacts DEF DropDispatch, Dropped, TypeOK
    <2>3. EntriesOwn'
      BY <1>0, <2>1, <2>2 DEF Owned, EntriesOwn, Of, InEntry
    <2>4. local' = local /\ up' = up
      BY <1>5 DEF DropDispatch
    <2>5. SlotsOwn'
      BY <1>0, <2>1, <2>4 DEF Owned, SlotsOwn, Of, InSlot
    <2>6. DownEnds'
      BY <2>1, <2>4 DEF Owned, DownEnds
    <2> QED
      BY <2>3, <2>5, <2>6 DEF Owned
  <1>6. ASSUME NEW c \in Conns, ClearLocal(c) PROVE Owned'
    <2>1. /\ \A x \in Conns : phase'[x] = IF x = c THEN "closing" ELSE phase[x]
          /\ phase[c] = "undispatched"
      BY <1>6 DEF ClearLocal, Go, TypeOK
    <2>2. \A i \in Instances, t \in Ids, r \in Roles :
            local'[i][t][r] = IF i = InstOf[c] /\ t = IdOf[c] /\ r = RoleOf[c]
                              THEN NoConn ELSE local[i][t][r]
      BY <1>6, RoleFacts DEF ClearLocal, TypeOK
    <2>3. SlotsOwn'
      BY <1>0, <2>1, <2>2 DEF Owned, SlotsOwn, Of, InSlot
    <2>4. dispatch' = dispatch /\ up' = up
      BY <1>6 DEF ClearLocal
    <2>5. EntriesOwn'
      BY <1>0, <2>1, <2>4 DEF Owned, EntriesOwn, Of, InEntry
    <2>6. DownEnds'
      BY <2>1, <2>4 DEF Owned, DownEnds
    <2> QED
      BY <2>3, <2>5, <2>6 DEF Owned
  <1>7. ASSUME NEW i \in MayCrash, Crash(i) PROVE Owned'
    <2>1. i \in Instances
      BY RedisAssumption
    <2>2. \A x \in Conns : InstOf[x] # i => phase'[x] = phase[x]
      BY <1>7 DEF Crash
    <2>3. \A x \in Conns : InstOf[x] = i => phase'[x] \in {"gone", "rejected", "crashed"}
      BY <1>7 DEF Crash
    <2>4. \A j \in Instances : up'[j] = IF j = i THEN FALSE ELSE up[j]
      BY <1>7 DEF Crash, TypeOK
    <2>5. \A j \in Instances, t \in Ids, r \in Roles :
            /\ local'[j][t][r] = IF j = i THEN NoConn ELSE local[j][t][r]
            /\ dispatch'[j][t][r] = IF j = i THEN NoConn ELSE dispatch[j][t][r]
      BY <1>7 DEF Crash, TypeOK, NoSlot
    <2>6. SlotsOwn'
      BY <1>0, <2>2, <2>5 DEF Owned, SlotsOwn, Of, InSlot
    <2>7. EntriesOwn'
      BY <1>0, <2>2, <2>5 DEF Owned, EntriesOwn, Of, InEntry
    <2>8. DownEnds'
      <3> SUFFICES ASSUME NEW x \in Conns, ~up'[InstOf[x]]
                   PROVE  phase'[x] \in {"gone", "rejected", "crashed"}
        BY DEF DownEnds
      <3>1. CASE InstOf[x] = i
        BY <2>3, <3>1
      <3>2. CASE InstOf[x] # i
        BY <2>2, <2>4, <3>2, RoleFacts DEF Owned, DownEnds
      <3> QED
        BY <3>1, <3>2
    <2> QED
      BY <2>6, <2>7, <2>8 DEF Owned
  <1>8. \/ UNCHANGED <<local, dispatch, phase, up>>
        \/ \E c \in Conns : \/ CheckCapacity(c) \/ SetPresence(c) \/ PresenceUnanswered(c)
                            \/ ReaderEnd(c) \/ Cancel(c) \/ CancelRegister(c)
                            \/ DelPresence(c) \/ NotifyPeer(c)
                            \/ PutLocal(c) \/ PutDispatch(c) \/ DropDispatch(c) \/ ClearLocal(c)
        \/ \E i \in MayCrash : Crash(i)
    BY DEF Next, Registering, Leaving, Pump, Quiescent, vars, tables, ReadFrame, SendToPeer,
           WriterDeliver, WriterStops, Route, Expire
  <1> QED
    BY <1>1, <1>2, <1>3, <1>4, <1>5, <1>6, <1>7, <1>8

\* However registrations and deregistrations overlap, a process whose sockets are
\* all out keeps nothing of them in its tables, but for the slot of one that was
\* dropped in the middle of register.
THEOREM NoResidueLeft == Spec => []NoResidue
  <1>1. TypeOK /\ Owned => NoResidue
    <2> SUFFICES ASSUME TypeOK, Owned, NEW i \in Instances,
                        \A c \in Conns : InstOf[c] = i => Out(c),
                        NEW t \in Ids, NEW r \in Roles
                 PROVE  /\ dispatch[i][t][r] = NoConn
                        /\ local[i][t][r] # NoConn => phase[local[i][t][r]] = "stranded"
      BY DEF NoResidue
    <2>1. /\ local[i][t][r] \in Conns \cup {NoConn}
          /\ dispatch[i][t][r] \in Conns \cup {NoConn}
      BY DEF TypeOK
    <2>2. ASSUME NEW c \in Conns, InstOf[c] = i
          PROVE  ~InEntry(c) /\ (InSlot(c) => phase[c] = "stranded")
      BY <2>2 DEF Out, InSlot, InEntry
    <2> QED
      BY <2>1, <2>2 DEF Owned, SlotsOwn, EntriesOwn, Of
  <1> QED
    BY <1>1, TypeCorrect, OwnedInit, OwnedStep, PTL DEF Spec

----------------------------------------------------------------------------
(***************************************************************************)
(* One claim on a role.                                                    *)
(***************************************************************************)

SameRole(c, d) == IdOf[c] = IdOf[d] /\ RoleOf[c] = RoleOf[d]

ClaimInv == ClaimKept /\ ExclusiveClaim

LEMMA ClaimInit == Init => ClaimInv
  BY DEF Init, ClaimInv, ClaimKept, ExclusiveClaim, Holding

\* As long as nobody is evicted, what keeps the key, the entries and what each
\* socket holds keeps the claims.
LEMMA ClaimSame ==
  ASSUME ClaimInv, evicted' = evicted,
         \A c \in Conns : Holding(c)' =>
            /\ Holding(c) /\ Claim(c)' = Claim(c) /\ Entry(c)' = Entry(c)
            /\ phase'[c] \in {"open", "leaving"} => phase[c] \in {"open", "leaving"}
  PROVE  ClaimInv'
  <1>1. \A c \in Conns : Evicted(c)' = Evicted(c)
    BY DEF Evicted
  <1>2. ClaimKept'
    BY <1>1 DEF ClaimInv, ClaimKept
  <1>3. ExclusiveClaim'
    BY <1>1 DEF ClaimInv, ExclusiveClaim, Evicted
  <1> QED
    BY <1>2, <1>3 DEF ClaimInv

LEMMA ClaimTakenStep ==
  ASSUME TypeOK, Owned, ClaimInv, NEW c \in Conns,
         \/ SetPresence(c) \/ PresenceUnanswered(c)
         \/ CancelRegister(c) /\ phase[c] = "checked"
  PROVE  ClaimInv'
  <1>1. /\ phase[c] = "checked" /\ evicted' = evicted /\ dispatch' = dispatch
        /\ \A d \in Conns : d # c => phase'[d] = phase[d]
    BY DEF SetPresence, PresenceUnanswered, CancelRegister, Go, TypeOK, past
  <1>2. CASE presence' = presence
    <2>1. phase'[c] \in {"rejected", "gone"}
      BY <1>2, RoleFacts, RedisAssumption
         DEF SetPresence, PresenceUnanswered, CancelRegister, Go, TypeOK, Taken, Claim, ClaimBy
    <2> QED
      BY <1>1, <1>2, <2>1, ClaimSame DEF Holding, Claim, Entry
  <1>3. CASE presence' # presence
    <2>1. /\ Claim(c) = NoInst
          /\ presence' = [presence EXCEPT ![IdOf[c]][RoleOf[c]] = InstOf[c]]
      BY <1>1, <1>3 DEF SetPresence, PresenceUnanswered, CancelRegister, AfterSet, Taken, ClaimBy
    <2>2. /\ Claim(c)' = InstOf[c]
          /\ \A d \in Conns : ~SameRole(c, d) => Claim(d)' = Claim(d)
      BY <2>1, RoleFacts DEF TypeOK, Claim, SameRole
    <2>3. \A d \in Conns : SameRole(c, d) /\ Holding(d) => Evicted(d)
      BY <2>1, RoleFacts, RedisAssumption DEF ClaimInv, ClaimKept, Claim, SameRole
    <2>4. phase'[c] \in {"claimed", "rejected", "gone"}
      BY <1>1 DEF SetPresence, PresenceUnanswered, CancelRegister, Go, TypeOK
    <2>5. \A d \in Conns : Entry(d)' = Entry(d) /\ (Evicted(d)' <=> Evicted(d))
      BY <1>1 DEF Entry, Evicted
    <2>6. \A d \in Conns : Holding(d)' => d = c \/ Holding(d)
      BY <1>1 DEF Holding
    <2>7. ClaimKept'
      <3> SUFFICES ASSUME NEW d \in Conns, Holding(d)', ~Evicted(d)'
                   PROVE  /\ Claim(d)' = InstOf[d]
                          /\ phase'[d] \in {"open", "leaving"} => Entry(d)' = d
        BY DEF ClaimKept
      <3>1. CASE d = c
        BY <2>2, <2>4, <3>1
      <3>2. CASE d # c
        BY <1>1, <2>2, <2>3, <2>5, <2>6, <3>2 DEF ClaimInv, ClaimKept
      <3> QED
        BY <3>1, <3>2
    <2>8. ExclusiveClaim'
      <3> SUFFICES ASSUME NEW d \in Conns, NEW e \in Conns, Holding(d)', Holding(e)',
                          SameRole(d, e), d # e
                   PROVE  Evicted(d)'
        BY DEF ExclusiveClaim, SameRole, Evicted
      <3>1. Holding(d) \/ Holding(e)
        BY <2>6
      <3>2. CASE Holding(d) /\ Holding(e)
        BY <2>5, <3>2 DEF ClaimInv, ExclusiveClaim, SameRole, Evicted
      <3>3. CASE d = c \/ e = c
        BY <2>3, <2>5, <3>1, <3>3, <1>1 DEF SameRole, Evicted, Holding
      <3> QED
        BY <2>6, <3>2, <3>3
    <2> QED
      BY <2>7, <2>8 DEF ClaimInv
  <1> QED
    BY <1>2, <1>3

LEMMA ClaimDispatch ==
  ASSUME TypeOK, Owned, ClaimInv, NEW c \in Conns, PutDispatch(c)
  PROVE  ClaimInv'
  <1>1. /\ phase[c] = "slotted" /\ phase'[c] = "open"
        /\ evicted' = evicted /\ presence' = presence
        /\ \A d \in Conns : d # c => phase'[d] = phase[d]
    BY DEF PutDispatch, Go, TypeOK, past
  <1>2. /\ Entry(c)' = c
        /\ \A d \in Conns : ~SameRole(c, d) => Entry(d)' = Entry(d)
    BY RoleFacts DEF PutDispatch, TypeOK, Entry, SameRole
  <1>3. \A d \in Conns : Claim(d)' = Claim(d) /\ (Evicted(d)' <=> Evicted(d))
    BY <1>1 DEF Claim, Evicted
  <1>4. \A d \in Conns : Holding(d)' <=> Holding(d)
    BY <1>1 DEF Holding
  <1>5. \A d \in Conns : SameRole(c, d) /\ Holding(d) /\ d # c => Evicted(d)
    BY <1>1 DEF ClaimInv, ExclusiveClaim, Holding, SameRole, Evicted
  <1>6. ClaimKept'
    BY <1>1, <1>2, <1>3, <1>4, <1>5 DEF ClaimInv, ClaimKept
  <1>7. ExclusiveClaim'
    BY <1>3, <1>4 DEF ClaimInv, ExclusiveClaim, Evicted
  <1> QED
    BY <1>6, <1>7 DEF ClaimInv

LEMMA ClaimDeleted ==
  ASSUME TypeOK, Owned, ClaimInv, NEW c \in Conns, DelPresence(c)
  PROVE  ClaimInv'
  <1>1. /\ phase[c] = "leaving" /\ phase'[c] = "unclaimed"
        /\ evicted' = evicted /\ dispatch' = dispatch
        /\ \A d \in Conns : d # c => phase'[d] = phase[d]
    BY DEF DelPresence, Go, TypeOK, past
  <1>2. \A d \in Conns : ~SameRole(c, d) => Claim(d)' = Claim(d)
    BY RoleFacts DEF DelPresence, TypeOK, Claim, SameRole
  <1>3. \A d \in Conns : SameRole(c, d) /\ Holding(d) /\ d # c => Evicted(d)
    BY <1>1 DEF ClaimInv, ExclusiveClaim, Holding, SameRole, Evicted
  <1>4. \A d \in Conns : Entry(d)' = Entry(d) /\ (Evicted(d)' <=> Evicted(d))
    BY <1>1 DEF Entry, Evicted
  <1>5. \A d \in Conns : Holding(d)' => d # c /\ Holding(d)
    BY <1>1 DEF Holding
  <1>6. ClaimKept'
    BY <1>1, <1>2, <1>3, <1>4, <1>5 DEF ClaimInv, ClaimKept
  <1>7. ExclusiveClaim'
    BY <1>4, <1>5 DEF ClaimInv, ExclusiveClaim, Evicted
  <1> QED
    BY <1>6, <1>7 DEF ClaimInv

\* The step that may evict: the entry removed is the leaver's, or the role of
\* whoever it is of is noted.
LEMMA ClaimDropped ==
  ASSUME TypeOK, Owned, ClaimInv, NEW c \in Conns, DropDispatch(c)
  PROVE  ClaimInv'
  <1>1. /\ phase[c] = "unclaimed" /\ phase'[c] = "undispatched" /\ presence' = presence
        /\ \A d \in Conns : d # c => phase'[d] = phase[d]
    BY DEF DropDispatch, Go, TypeOK
  <1>2. /\ Entry(c) \in Conns \cup {NoConn}
        /\ evicted \subseteq evicted'
        /\ Entry(c) \notin {c, NoConn} => Evicted(c)'
    BY TableTypes DEF DropDispatch, Evicted
  <1>3. \A d \in Conns : ~(SameRole(c, d) /\ InstOf[c] = InstOf[d]) => Entry(d)' = Entry(d)
    BY RoleFacts DEF DropDispatch, Dropped, TypeOK, Entry, SameRole
  <1>4. \A d \in Conns : Claim(d)' = Claim(d) /\ (Evicted(d) => Evicted(d)')
    BY <1>1, <1>2 DEF Claim, Evicted
  <1>5. \A d \in Conns : Holding(d)' => d # c /\ Holding(d)
    BY <1>1 DEF Holding
  <1>6. ClaimKept'
    <2> SUFFICES ASSUME NEW d \in Conns, Holding(d)', ~Evicted(d)'
                 PROVE  /\ Claim(d)' = InstOf[d]
                        /\ phase'[d] \in {"open", "leaving"} => Entry(d)' = d
      BY DEF ClaimKept
    <2>1. /\ Claim(d)' = InstOf[d] /\ d # c /\ phase'[d] = phase[d]
          /\ phase[d] \in {"open", "leaving"} => Entry(d) = d
      BY <1>1, <1>4, <1>5 DEF ClaimInv, ClaimKept
    <2>2. CASE SameRole(c, d) /\ InstOf[c] = InstOf[d] /\ phase[d] \in {"open", "leaving"}
      <3>1. Entry(c) = d
        BY <2>1, <2>2 DEF Entry, SameRole
      <3>2. Evicted(d)' = Evicted(c)'
        BY <2>2 DEF SameRole, Evicted
      <3> QED
        BY <1>2, <2>1, <3>1, <3>2, RedisAssumption
    <2>3. CASE ~(SameRole(c, d) /\ InstOf[c] = InstOf[d])
      BY <1>3, <2>1, <2>3
    <2> QED
      BY <2>1, <2>2, <2>3
  <1>7. ExclusiveClaim'
    BY <1>4, <1>5 DEF ClaimInv, ExclusiveClaim, Evicted
  <1> QED
    BY <1>6, <1>7 DEF ClaimInv

LEMMA ClaimExpired ==
  ASSUME TypeOK, Owned, ClaimInv, NEW t \in Ids, NEW r \in Roles, Expire(t, r)
  PROVE  ClaimInv'
  <1>1. phase' = phase /\ evicted' = evicted /\ dispatch' = dispatch
    BY DEF Expire, past
  <1>2. \A d \in Conns : ~(IdOf[d] = t /\ RoleOf[d] = r) => Claim(d)' = Claim(d)
    BY RoleFacts DEF Expire, TypeOK, Claim
  <1>3. ASSUME NEW d \in Conns, IdOf[d] = t, RoleOf[d] = r, Holding(d) PROVE Evicted(d)
    <2>1. phase[d] \in {"open", "leaving"}
      BY <1>3 DEF Expire, Young, Holding
    <2>2. up[InstOf[d]]
      BY <2>1 DEF Owned, DownEnds
    <2>3. dispatch[InstOf[d]][t][r] = NoConn
      BY <2>2, RoleFacts DEF Expire, Refreshed
    <2> QED
      BY <1>3, <2>1, <2>3, RedisAssumption DEF ClaimInv, ClaimKept, Entry
  <1>4. \A d \in Conns : Entry(d)' = Entry(d) /\ (Evicted(d)' <=> Evicted(d))
    BY <1>1 DEF Entry, Evicted
  <1>5. \A d \in Conns : Holding(d)' <=> Holding(d)
    BY <1>1 DEF Holding
  <1>6. ClaimKept'
    BY <1>1, <1>2, <1>3, <1>4, <1>5 DEF ClaimInv, ClaimKept
  <1>7. ExclusiveClaim'
    BY <1>4, <1>5 DEF ClaimInv, ExclusiveClaim, Evicted
  <1> QED
    BY <1>6, <1>7 DEF ClaimInv

LEMMA ClaimStep == TypeOK /\ Owned /\ ClaimInv /\ [Next]_vars => ClaimInv'
  <1> SUFFICES ASSUME TypeOK, Owned, ClaimInv, [Next]_vars PROVE ClaimInv'
    OBVIOUS
  <1>1. CASE UNCHANGED <<presence, dispatch, phase, evicted>>
    BY <1>1, ClaimSame DEF Holding, Claim, Entry
  <1>2. ASSUME NEW c \in Conns,
               \/ CheckCapacity(c) \/ PutLocal(c) \/ ReaderEnd(c) \/ Cancel(c)
               \/ ClearLocal(c) \/ NotifyPeer(c)
        PROVE  ClaimInv'
    <2>1. UNCHANGED <<presence, dispatch, evicted>>
      BY <1>2 DEF CheckCapacity, PutLocal, ReaderEnd, Cancel, ClearLocal, NotifyPeer, tables, past
    <2>2. <<phase[c], phase'[c]>> \in {<<"new", "checked">>, <<"new", "rejected">>,
             <<"claimed", "slotted">>, <<"open", "leaving">>, <<"undispatched", "closing">>,
             <<"closing", "gone">>}
      BY <1>2 DEF CheckCapacity, PutLocal, ReaderEnd, Cancel, ClearLocal, NotifyPeer, Go, TypeOK
    <2>3. \A d \in Conns : d # c => phase'[d] = phase[d]
      BY <1>2 DEF CheckCapacity, PutLocal, ReaderEnd, Cancel, ClearLocal, NotifyPeer, Go, TypeOK
    <2> QED
      BY <2>1, <2>2, <2>3, ClaimSame DEF Holding, Claim, Entry
  <1>3. ASSUME NEW i \in MayCrash, Crash(i) PROVE ClaimInv'
    <2>1. UNCHANGED <<presence, evicted>>
      BY <1>3 DEF Crash, past
    <2>2. \A d \in Conns : Holding(d)' => InstOf[d] # i /\ phase'[d] = phase[d]
      BY <1>3 DEF Crash, Holding
    <2>3. \A d \in Conns : InstOf[d] # i => Entry(d)' = Entry(d)
      BY <1>3, RoleFacts DEF Crash, Entry, TypeOK
    <2> QED
      BY <2>1, <2>2, <2>3, ClaimSame DEF Holding, Claim
  <1>4. ASSUME NEW c \in Conns, CancelRegister(c), phase[c] # "checked" PROVE ClaimInv'
    <2>1. UNCHANGED <<presence, dispatch, evicted>>
      BY <1>4 DEF CancelRegister, past
    <2>2. phase'[c] \in {"gone", "stranded"} /\ \A d \in Conns : d # c => phase'[d] = phase[d]
      BY <1>4 DEF CancelRegister, TypeOK
    <2> QED
      BY <2>1, <2>2, ClaimSame DEF Holding, Claim, Entry
  <1>5. \/ UNCHANGED <<presence, dispatch, phase, evicted>>
        \/ \E c \in Conns : \/ CheckCapacity(c) \/ PutLocal(c) \/ ReaderEnd(c) \/ Cancel(c)
                            \/ CancelRegister(c)
                            \/ ClearLocal(c) \/ NotifyPeer(c)
                            \/ SetPresence(c) \/ PresenceUnanswered(c) \/ PutDispatch(c)
                            \/ DelPresence(c) \/ DropDispatch(c)
        \/ \E i \in MayCrash : Crash(i)
        \/ \E t \in Ids, r \in Roles : Expire(t, r)
    BY DEF Next, Registering, Leaving, Pump, Quiescent, vars, tables, past, ReadFrame,
           SendToPeer, WriterDeliver, WriterStops, Route
  <1> QED
    BY <1>1, <1>2, <1>3, <1>4, <1>5, ClaimTakenStep, ClaimDispatch, ClaimDeleted, ClaimDropped,
       ClaimExpired

\* Two sockets of a role are never both between their SET and their DEL, on
\* whatever processes, unless a deregister has removed a successor's entry.
THEOREM ClaimsExclude == Spec => []ExclusiveClaim
  <1>1. ClaimInv => ExclusiveClaim
    BY DEF ClaimInv
  <1> QED
    BY <1>1, TypeInit, TypeStep, SentStep, OwnedInit, OwnedStep, ClaimInit, ClaimStep, PTL
       DEF Spec

----------------------------------------------------------------------------
(***************************************************************************)
(* Order of delivery.  A frame that is about to be sent is the last of its *)
(* sender, and frames of one sender are in order on every stream.  A       *)
(* sender of the same process takes the short way into a line only while   *)
(* the slot of the socket leads there, so that of two of its frames on     *)
(* different ways the one on the stream was read before the slot was put,  *)
(* or after it was cleared, when all that took the short way had arrived.  *)
(***************************************************************************)

PendingOwn ==
  \A c \in Conns :
    /\ pending[c].to # NoConn => InstOf[pending[c].to] = InstOf[c]
    /\ pending[c].msg # Close => pending[c].msg = [from |-> c, n |-> sent[c]]

\* The line of a socket: what has been written to it, and what is queued.
Line(c) == delivered[c] \o inbox[c]

Behind(d) ==
  d.from # NoConn => /\ d.n <= sent[d.from]
                     /\ pending[d.from].msg # Close => d.n < sent[d.from]
StreamsBehind == \A i \in Instances : \A k \in 1..Len(bus[i]) : Behind(bus[i][k].msg)
LinesBehind   == \A c \in Conns : \A k \in 1..Len(Line(c)) : Behind(Line(c)[k])

\* Of two deliveries of one sender, d before e, the first was sent first, or e was
\* sent before the slot of the socket was put and d, from next to it, after.
Precedes(d, e) == d.from # NoConn /\ d.from = e.from => d.n < e.n
Overtook(c, d, e) == /\ InstOf[d.from] = InstOf[c]
                     /\ e.n <= early[c][d.from] /\ early[c][d.from] < d.n
InOrder(c, d, e) ==
  d.from # NoConn /\ d.from = e.from => d.n < e.n \/ Overtook(c, d, e)

StreamsOrdered ==
  \A i \in Instances : \A j, k \in 1..Len(bus[i]) :
    j < k => Precedes(bus[i][j].msg, bus[i][k].msg)
LinesOrdered ==
  \A c \in Conns : \A j, k \in 1..Len(Line(c)) :
    j < k => InOrder(c, Line(c)[j], Line(c)[k])
LinesFirst ==
  \A c \in Conns : \A j \in 1..Len(Line(c)), k \in 1..Len(bus[InstOf[c]]) :
    InOrder(c, Line(c)[j], bus[InstOf[c]][k].msg)
Ordered == StreamsOrdered /\ LinesOrdered /\ LinesFirst

\* While the slot leads from d to c, or d has a frame for c in hand, what is on the
\* stream of d was sent early; so was what d has in hand for the stream, and what
\* it has in hand for c was not.
Faces(d, c) == InstOf[d] = InstOf[c] /\ IdOf[d] = IdOf[c] /\ RoleOf[c] = PeerRole(RoleOf[d])
Holds(d, c) == pending[d].to = c /\ pending[d].msg # Close
Leads(d, c) == Slot(c) = c /\ Faces(d, c)

EarlySent == \A c, d \in Conns : early[c][d] <= sent[d]
EarlyInHand ==
  \A c, d \in Conns :
    /\ Holds(d, c) => early[c][d] < pending[d].msg.n
    /\ Leads(d, c) /\ pending[d].msg # Close /\ pending[d].to # c
         => pending[d].msg.n <= early[c][d]
EarlyOnStream ==
  \A c, d \in Conns :
    Holds(d, c) \/ Leads(d, c) =>
      \A k \in 1..Len(bus[InstOf[c]]) :
        bus[InstOf[c]][k].msg.from = d => bus[InstOf[c]][k].msg.n <= early[c][d]

\* Nothing is on its way to a socket that has no channel yet.
Unborn(c) == phase[c] \in {"new", "checked", "claimed"}
Blank ==
  \A c \in Conns : Unborn(c) =>
    /\ writer[c] = "none" /\ inbox[c] = <<>> /\ delivered[c] = <<>>
    /\ \A d \in Conns : pending[d].to # c

Ways   == EarlySent /\ EarlyInHand /\ EarlyOnStream /\ Blank
Sorted == PendingOwn /\ StreamsBehind /\ LinesBehind /\ Ordered /\ Ways

LEMMA LineType ==
  ASSUME TypeOK, NEW c \in Conns
  PROVE  /\ Line(c) \in Seq(Delivery) /\ Len(Line(c)) \in Nat
         /\ \A k \in 1..Len(Line(c)) : Line(c)[k] \in Delivery
         /\ delivered[c] \in Seq(Delivery) /\ inbox[c] \in Seq(Delivery)
  <1>1. delivered[c] \in Seq(Frames) /\ inbox[c] \in Seq(Delivery)
    BY DEF TypeOK
  <1>2. delivered[c] \in Seq(Delivery)
    BY <1>1 DEF Delivery
  <1>3. Line(c) \in Seq(Delivery)
    BY <1>1, <1>2 DEF Line
  <1> QED
    BY <1>1, <1>2, <1>3

LEMMA MoveHead ==
  ASSUME NEW a \in Seq(Delivery), NEW b \in Seq(Delivery), b # <<>>
  PROVE  Append(a, Head(b)) \o Tail(b) = a \o b
  OBVIOUS

LEMMA PutLast ==
  ASSUME NEW a \in Seq(Delivery), NEW b \in Seq(Delivery), NEW d \in Delivery
  PROVE  a \o Append(b, d) = Append(a \o b, d)
  OBVIOUS

Prefix(s, t) == Len(s) <= Len(t) /\ \A k \in 1..Len(s) : s[k] = t[k]

LEMMA PrefixAt ==
  ASSUME NEW a \in Seq(Delivery), NEW b \in Seq(Delivery)
  PROVE  /\ Prefix(a \o b, a \o b) /\ Prefix(a, a \o b)
         /\ a \o <<>> = a
         /\ Len(a) \in Nat
  BY DEF Prefix

LEMMA LinePrefix ==
  ASSUME TypeOK, NEW c \in Conns
  PROVE  /\ Prefix(Line(c), Line(c)) /\ Prefix(delivered[c], Line(c))
         /\ delivered[c] \o <<>> = delivered[c]
         /\ Len(delivered[c]) \in Nat
  BY LineType, PrefixAt DEF Line

LEMMA AppendAt ==
  ASSUME NEW S, NEW s \in Seq(S), NEW e \in S
  PROVE  /\ Len(s) \in Nat /\ Len(Append(s, e)) = Len(s) + 1
         /\ \A k \in 1..Len(s) : Append(s, e)[k] = s[k]
         /\ Append(s, e)[Len(s) + 1] = e
  OBVIOUS

LEMMA TailAt ==
  ASSUME NEW S, NEW s \in Seq(S), s # <<>>
  PROVE  /\ Len(s) \in Nat \ {0} /\ Len(Tail(s)) = Len(s) - 1
         /\ \A k \in 1..Len(Tail(s)) : Tail(s)[k] = s[k + 1]
         /\ Head(s) = s[1]
  OBVIOUS

LEMMA StreamType ==
  ASSUME TypeOK, NEW i \in Instances
  PROVE  /\ bus[i] \in Seq(Posts) /\ Len(bus[i]) \in Nat
         /\ \A k \in 1..Len(bus[i]) : bus[i][k] \in Posts /\ bus[i][k].msg \in Delivery
  <1>1. bus[i] \in Seq(Posts)
    BY DEF TypeOK, Posts
  <1>2. \A k \in 1..Len(bus[i]) : bus[i][k] \in Posts
    BY <1>1
  <1>3. \A p \in Posts : p.msg \in Delivery
    BY DEF Posts
  <1> QED
    BY <1>1, <1>2, <1>3

Queued(c, d) == Line(c)' = Append(Line(c), d)

LEMMA PushLine ==
  ASSUME TypeOK, NEW p \in Conns, NEW d \in Delivery, UNCHANGED delivered,
         inbox' = Push(p, d), NEW c \in Conns
  PROVE  Line(c)' = Line(c) \/ (c = p /\ Queued(c, d))
  <1>1. CASE c = p /\ CanHear(p)
    <2>1. inbox'[c] = Append(inbox[c], d)
      BY <1>1 DEF Push, TypeOK
    <2>2. delivered[c] \o Append(inbox[c], d) = Append(delivered[c] \o inbox[c], d)
      BY PutLast, LineType
    <2> QED
      BY <1>1, <2>1, <2>2 DEF Line, Queued
  <1>2. CASE ~(c = p /\ CanHear(p))
    BY <1>2 DEF Push, TypeOK, Line
  <1> QED
    BY <1>1, <1>2

LEMMA SortedInit == Init => Sorted
  <1> SUFFICES ASSUME Init PROVE Sorted
    OBVIOUS
  <1>1. \A c \in Conns : Line(c) = <<>>
    BY DEF Init, Line
  <1>2. \A i \in Instances : bus[i] = <<>>
    BY DEF Init
  <1>3. StreamsBehind /\ LinesBehind /\ Ordered
    BY <1>1, <1>2, RoleFacts
       DEF StreamsBehind, LinesBehind, Ordered, StreamsOrdered, LinesOrdered, LinesFirst
  <1>4. PendingOwn
    BY DEF Init, PendingOwn, Nothing
  <1>5. Ways
    BY <1>2, RoleFacts, RedisAssumption
       DEF Init, Ways, EarlySent, EarlyInHand, EarlyOnStream, Blank, Holds, Nothing
  <1> QED
    BY <1>3, <1>4, <1>5 DEF Sorted

\* What is behind stays behind when another frame is read, or a clone is used.
LEMMA StaysBehind ==
  ASSUME TypeOK, PendingOwn, NEW d \in Delivery, Behind(d),
         \/ sent' = sent /\ \A c \in Conns : pending'[c].msg \in {pending[c].msg, Close}
         \/ \E c \in Conns : ReadFrame(c)
  PROVE  Behind(d)'
  <1>0. d.from # NoConn => d.from \in Conns /\ d.n \in Nat
    BY DeliveryFacts
  <1>1. CASE sent' = sent /\ \A c \in Conns : pending'[c].msg \in {pending[c].msg, Close}
    BY <1>0, <1>1 DEF Behind
  <1>2. ASSUME NEW c \in Conns, ReadFrame(c) PROVE Behind(d)'
    <2>1. sent' = [sent EXCEPT ![c] = sent[c] + 1]
      BY <1>2 DEF ReadFrame
    <2>2. \A x \in Conns : sent[x] \in Nat /\ sent'[x] = IF x = c THEN sent[c] + 1 ELSE sent[x]
      BY <2>1 DEF TypeOK
    <2>3. \A x \in Conns : x # c => pending'[x] = pending[x]
      BY <1>2 DEF ReadFrame, TypeOK
    <2> QED
      BY <1>0, <2>2, <2>3 DEF Behind
  <1> QED
    BY <1>1, <1>2

\* The order on the lines and on the streams, told without what a step leaves alone.
LEMMA LinesFirstNext ==
  ASSUME early' = early,
         \A x \in Conns : \A j \in 1..Len(Line(x)'), k \in 1..Len(bus'[InstOf[x]]) :
           InOrder(x, Line(x)'[j], bus'[InstOf[x]][k].msg)
  PROVE  LinesFirst'
  <1>1. \A x, d, e : InOrder(x, d, e) => InOrder(x, d, e)'
    BY DEF InOrder, Overtook
  <1> QED
    BY <1>1 DEF LinesFirst

\* Lines and streams that lose what is at their end, or nothing, stay in order.
LEMMA ShrinkSorted ==
  ASSUME TypeOK, TypeOK', Sorted, UNCHANGED early,
         \A i \in Instances : Prefix(bus'[i], bus[i]),
         \A c \in Conns : Prefix(Line(c)', Line(c)),
         \A d \in Delivery : Behind(d) => Behind(d)'
  PROVE  StreamsBehind' /\ LinesBehind' /\ Ordered'
  <1>1. ASSUME NEW i \in Instances
        PROVE  /\ Len(bus'[i]) \in Nat /\ Len(bus[i]) \in Nat /\ Len(bus'[i]) <= Len(bus[i])
               /\ \A k \in 1..Len(bus'[i]) :
                    k \in 1..Len(bus[i]) /\ bus'[i][k] = bus[i][k] /\ bus[i][k].msg \in Delivery
    <2>1. Len(bus'[i]) \in Nat /\ Len(bus[i]) \in Nat
      BY DEF TypeOK
    <2> QED
      BY <2>1, StreamType DEF Prefix
  <1>2. ASSUME NEW c \in Conns
        PROVE  /\ Len(Line(c)') \in Nat /\ Len(Line(c)) \in Nat /\ Len(Line(c)') <= Len(Line(c))
               /\ \A k \in 1..Len(Line(c)') :
                    k \in 1..Len(Line(c)) /\ Line(c)'[k] = Line(c)[k] /\ Line(c)[k] \in Delivery
    <2>1. Line(c) \in Seq(Delivery)
      BY LineType
    <2>2. delivered'[c] \in Seq(Frames) /\ inbox'[c] \in Seq(Delivery)
      BY DEF TypeOK
    <2>3. delivered'[c] \in Seq(Delivery)
      BY <2>2 DEF Delivery
    <2>4. Line(c)' \in Seq(Delivery)
      BY <2>2, <2>3 DEF Line
    <2> QED
      BY <2>1, <2>4 DEF Prefix
  <1>3. StreamsBehind'
    BY <1>1 DEF Sorted, StreamsBehind
  <1>4. LinesBehind'
    BY <1>2 DEF Sorted, LinesBehind
  <1>5. StreamsOrdered'
    BY <1>1 DEF Sorted, Ordered, StreamsOrdered
  <1>6. LinesOrdered'
    BY <1>2 DEF Sorted, Ordered, LinesOrdered, InOrder, Overtook
  <1>7. LinesFirst'
    <2> SUFFICES ASSUME NEW c \in Conns, NEW j \in 1..Len(Line(c)'),
                        NEW k \in 1..Len(bus'[InstOf[c]])
                 PROVE  InOrder(c, Line(c)'[j], bus'[InstOf[c]][k].msg)
      BY LinesFirstNext
    <2>1. j \in 1..Len(Line(c)) /\ Line(c)'[j] = Line(c)[j]
      BY <1>2
    <2>2. k \in 1..Len(bus[InstOf[c]]) /\ bus'[InstOf[c]][k] = bus[InstOf[c]][k]
      BY <1>1, RoleFacts
    <2>3. InOrder(c, Line(c)[j], bus[InstOf[c]][k].msg)
      BY <2>1, <2>2 DEF Sorted, Ordered, LinesFirst
    <2> QED
      BY <2>1, <2>2, <2>3
  <1> QED
    BY <1>3, <1>4, <1>5, <1>6, <1>7 DEF Ordered

\* What a socket had to send is sent, over the short way or the long one.
LEMMA DeliverSorted ==
  ASSUME TypeOK, Sorted, NEW c \in Conns, Deliver(c), UNCHANGED <<sent, delivered, early>>,
         pending' = [pending EXCEPT ![c] = Nothing]
  PROVE  StreamsBehind' /\ LinesBehind' /\ Ordered'
  <1>1. PICK m \in Delivery : m = pending[c].msg
    BY DEF TypeOK
  <1>2. /\ m.from # NoConn => m.from = c /\ m.n = sent[c] /\ pending[c].msg # Close
        /\ sent[c] \in Nat
    <2>1. m # Close => m = [from |-> c, n |-> sent[c]]
      BY <1>1 DEF Sorted, PendingOwn
    <2>2. sent[c] \in 0..MaxFrames
      BY DEF TypeOK
    <2> QED
      BY <1>1, <2>1, <2>2, DeliveryFacts
  <1>3. ASSUME NEW d \in Delivery, Behind(d) PROVE Behind(d)'
    BY <1>3, StaysBehind DEF Sorted, TypeOK, Nothing
  <1>4. Behind(m)'
    BY <1>2 DEF Behind, TypeOK, Nothing
  <1>5. ASSUME NEW p \in Conns, p = pending[c].to PROVE StreamsBehind' /\ LinesBehind' /\ Ordered'
    <2>1. inbox' = Push(p, m) /\ bus' = bus /\ InstOf[p] = InstOf[c]
      BY <1>1, <1>5, RedisAssumption DEF Deliver, Sorted, PendingOwn
    <2>2. ASSUME NEW k \in 1..Len(bus[InstOf[p]]) PROVE InOrder(p, m, bus[InstOf[p]][k].msg)
      <3> DEFINE e == bus[InstOf[p]][k].msg
      <3>1. e \in Delivery /\ Behind(e)
        BY StreamType, RoleFacts DEF Sorted, StreamsBehind
      <3>2. CASE m.from # NoConn /\ m.from = e.from
        <4>1. m.from = c /\ e.from = c /\ Holds(c, p) /\ m = pending[c].msg
          BY <1>1, <1>2, <1>5, <3>2 DEF Holds
        <4>2. e.n <= early[p][c] /\ early[p][c] < m.n
          BY <4>1 DEF Sorted, Ways, EarlyOnStream, EarlyInHand
        <4> QED
          BY <2>1, <4>1, <4>2 DEF InOrder, Overtook
      <3> HIDE DEF e
      <3> QED
        BY <3>2 DEF InOrder, e
    <2>9. ASSUME NEW d \in Delivery, Behind(d) PROVE InOrder(p, d, m)
      BY <1>2, <2>9 DEF Behind, InOrder
    <2>3. StreamsBehind' /\ StreamsOrdered'
      BY <1>3, <2>1, StreamType DEF Sorted, Ordered, StreamsBehind, StreamsOrdered, Precedes
    <2>4. ASSUME NEW x \in Conns
          PROVE  /\ Len(Line(x)) \in Nat
                 /\ \A k \in 1..Len(Line(x)) : Line(x)[k] \in Delivery
                 /\ \/ Line(x)' = Line(x)
                    \/ /\ x = p /\ Len(Line(x)') = Len(Line(x)) + 1
                       /\ \A k \in 1..Len(Line(x)) : Line(x)'[k] = Line(x)[k]
                       /\ Line(x)'[Len(Line(x)) + 1] = m
      <3>1. Line(x)' = Line(x) \/ (x = p /\ Queued(x, m))
        BY <2>1, PushLine
      <3>2. CASE Line(x)' = Line(x)
        BY <3>2, LineType
      <3>3. CASE x = p /\ Line(x)' = Append(Line(x), m)
        BY <3>3, LineType, AppendAt
      <3> QED
        BY <3>1, <3>2, <3>3 DEF Queued
    <2>5. LinesBehind'
      BY <1>3, <1>4, <2>4 DEF Sorted, LinesBehind
    <2>6. LinesOrdered'
      <3> SUFFICES ASSUME NEW x \in Conns, NEW j \in 1..Len(Line(x)'), NEW k \in 1..Len(Line(x)'),
                          j < k
                   PROVE  InOrder(x, Line(x)'[j], Line(x)'[k])
        BY DEF LinesOrdered, InOrder, Overtook
      <3>1. CASE Line(x)' = Line(x)
        BY <3>1 DEF Sorted, Ordered, LinesOrdered
      <3>2. CASE /\ x = p /\ Len(Line(x)') = Len(Line(x)) + 1
                 /\ \A n \in 1..Len(Line(x)) : Line(x)'[n] = Line(x)[n]
                 /\ Line(x)'[Len(Line(x)) + 1] = m
        <4>1. j \in 1..Len(Line(x)) /\ Line(x)'[j] = Line(x)[j]
          BY <2>4, <3>2
        <4>2. CASE k \in 1..Len(Line(x))
          BY <3>2, <4>1, <4>2 DEF Sorted, Ordered, LinesOrdered
        <4>3. CASE k = Len(Line(x)) + 1
          BY <2>4, <2>9, <3>2, <4>1, <4>3 DEF Sorted, LinesBehind
        <4> QED
          BY <2>4, <3>2, <4>2, <4>3
      <3> QED
        BY <2>4, <3>1, <3>2
    <2>7. LinesFirst'
      <3> SUFFICES ASSUME NEW x \in Conns, NEW j \in 1..Len(Line(x)'),
                          NEW k \in 1..Len(bus[InstOf[x]])
                   PROVE  InOrder(x, Line(x)'[j], bus[InstOf[x]][k].msg)
        BY <2>1, LinesFirstNext
      <3>1. CASE Line(x)' = Line(x)
        BY <3>1 DEF Sorted, Ordered, LinesFirst
      <3>2. CASE /\ x = p /\ Len(Line(x)') = Len(Line(x)) + 1
                 /\ \A n \in 1..Len(Line(x)) : Line(x)'[n] = Line(x)[n]
                 /\ Line(x)'[Len(Line(x)) + 1] = m
        <4>1. CASE j = Len(Line(x)) + 1
          BY <2>2, <3>2, <4>1
        <4>2. CASE j \in 1..Len(Line(x)) /\ Line(x)'[j] = Line(x)[j]
          BY <4>2 DEF Sorted, Ordered, LinesFirst
        <4> QED
          BY <2>4, <3>2, <4>1, <4>2
      <3> QED
        BY <2>4, <3>1, <3>2
    <2> QED
      BY <2>3, <2>5, <2>6, <2>7 DEF Ordered
  <1>6. CASE pending[c].to = NoConn
    <2>1. inbox' = inbox /\ \A x \in Conns : Line(x)' = Line(x)
      BY <1>6 DEF Deliver, Line
    <2>2. ASSUME NEW i \in Instances
          PROVE  /\ Len(bus[i]) \in Nat
                 /\ \A k \in 1..Len(bus[i]) : bus[i][k].msg \in Delivery
                 /\ \/ bus'[i] = bus[i]
                    \/ /\ Len(bus'[i]) = Len(bus[i]) + 1
                       /\ \A k \in 1..Len(bus[i]) : bus'[i][k] = bus[i][k]
                       /\ bus'[i][Len(bus[i]) + 1].msg = m
      <3>1. bus' = bus \/ bus' = Published(c, m)
        BY <1>1, <1>6 DEF Deliver
      <3>2. PICK post \in Posts : post.msg = m /\ bus'[i] \in {bus[i], Append(bus[i], post)}
        <4> DEFINE q == [id |-> IdOf[c], role |-> PeerRole(RoleOf[c]), msg |-> m]
        <4>1. q \in Posts /\ q.msg = m
          BY RoleFacts DEF Posts
        <4>2. bus'[i] \in {bus[i], Append(bus[i], q)}
          BY <3>1 DEF Published
        <4> HIDE DEF q
        <4> QED
          BY <4>1, <4>2
      <3> QED
        BY <3>2, StreamType, AppendAt
    <2>3. StreamsBehind'
      BY <1>3, <1>4, <2>2, SMTT(30) DEF Sorted, StreamsBehind
    <2>4. ASSUME NEW d \in Delivery, Behind(d) PROVE Precedes(d, m)
      BY <1>2, <2>4 DEF Behind, Precedes
    <2>5. StreamsOrdered'
      <3> SUFFICES ASSUME NEW i \in Instances, NEW j \in 1..Len(bus'[i]), NEW k \in 1..Len(bus'[i]),
                          j < k
                   PROVE  Precedes(bus'[i][j].msg, bus'[i][k].msg)
        BY DEF StreamsOrdered, Precedes
      <3>1. CASE bus'[i] = bus[i]
        BY <3>1 DEF Sorted, Ordered, StreamsOrdered
      <3>2. CASE /\ Len(bus'[i]) = Len(bus[i]) + 1
                 /\ \A n \in 1..Len(bus[i]) : bus'[i][n] = bus[i][n]
                 /\ bus'[i][Len(bus[i]) + 1].msg = m
        <4>1. j \in 1..Len(bus[i]) /\ bus'[i][j] = bus[i][j]
          BY <2>2, <3>2
        <4>2. CASE k \in 1..Len(bus[i])
          BY <3>2, <4>1, <4>2 DEF Sorted, Ordered, StreamsOrdered
        <4>3. CASE k = Len(bus[i]) + 1
          BY <2>2, <2>4, <3>2, <4>1, <4>3 DEF Sorted, StreamsBehind
        <4> QED
          BY <2>2, <3>2, <4>2, <4>3
      <3> QED
        BY <2>2, <3>1, <3>2
    <2>6. LinesBehind'
      BY <1>3, <2>1, LineType DEF Sorted, LinesBehind
    <2>8. LinesOrdered'
      BY <2>1 DEF Sorted, Ordered, LinesOrdered, InOrder, Overtook
    <2>7. LinesFirst'
      <3> SUFFICES ASSUME NEW x \in Conns, NEW j \in 1..Len(Line(x)),
                          NEW k \in 1..Len(bus'[InstOf[x]])
                   PROVE  InOrder(x, Line(x)[j], bus'[InstOf[x]][k].msg)
        BY <2>1, LinesFirstNext
      <3>1. Line(x)[j] \in Delivery /\ Behind(Line(x)[j])
        BY LineType DEF Sorted, LinesBehind
      <3>2. CASE k \in 1..Len(bus[InstOf[x]]) /\ bus'[InstOf[x]][k] = bus[InstOf[x]][k]
        BY <3>2 DEF Sorted, Ordered, LinesFirst
      <3>3. CASE bus'[InstOf[x]][k].msg = m
        BY <2>4, <3>1, <3>3 DEF Precedes, InOrder
      <3>4. \/ k \in 1..Len(bus[InstOf[x]]) /\ bus'[InstOf[x]][k] = bus[InstOf[x]][k]
            \/ bus'[InstOf[x]][k].msg = m
        <4>1. CASE bus'[InstOf[x]] = bus[InstOf[x]]
          BY <4>1
        <4>2. CASE bus'[InstOf[x]] # bus[InstOf[x]]
          <5>1. InstOf[x] \in Instances
            BY RoleFacts
          <5> DEFINE b == bus[InstOf[x]]
                     e == bus'[InstOf[x]]
          <5>2. /\ Len(b) \in Nat /\ Len(e) = Len(b) + 1
                /\ \A n \in 1..Len(b) : e[n] = b[n]
                /\ e[Len(b) + 1].msg = m
            BY <2>2, <4>2, <5>1
          <5>3. k \in 1..Len(e)
            OBVIOUS
          <5> HIDE DEF b, e
          <5>4. (k \in 1..Len(b) /\ e[k] = b[k]) \/ e[k].msg = m
            BY <5>2, <5>3
          <5> QED
            BY <5>4 DEF b, e
        <4> QED
          BY <4>1, <4>2
      <3> QED
        BY <3>2, <3>3, <3>4
    <2> QED
      BY <2>3, <2>5, <2>6, <2>7, <2>8 DEF Ordered
  <1> QED
    BY <1>5, <1>6 DEF TypeOK

\* The subscriber takes the next message of its stream, and may put it at the
\* end of the line of a socket of its own process.
LEMMA RouteSorted ==
  ASSUME TypeOK, Owned, Sorted, NEW i \in Instances, Route(i)
  PROVE  StreamsBehind' /\ LinesBehind' /\ Ordered'
  <1>1. /\ bus[i] # <<>> /\ bus' = [bus EXCEPT ![i] = Tail(bus[i])]
        /\ Head(bus[i]) \in Posts
    BY RouteFacts
  <1>2. PICK m \in Delivery : m = Head(bus[i]).msg
    BY RouteFacts
  <1>3. UNCHANGED <<sent, pending, delivered, early>>
    BY DEF Route, reads, past
  <1>4. \A d : Behind(d)' <=> Behind(d)
    BY <1>3 DEF Behind
  <1>5. /\ \A k \in Instances : Len(bus[k]) \in Nat /\ (k # i => bus'[k] = bus[k])
        /\ Len(bus[i]) \in Nat \ {0} /\ Len(bus'[i]) = Len(bus[i]) - 1
        /\ \A n \in 1..Len(bus'[i]) : bus'[i][n] = bus[i][n + 1]
        /\ bus[i][1].msg = m
    <2>1. \A k \in Instances : Len(bus[k]) \in Nat /\ (k # i => bus'[k] = bus[k])
      BY <1>1, StreamType DEF TypeOK
    <2>2. bus'[i] = Tail(bus[i])
      BY <1>1 DEF TypeOK
    <2>3. bus[i] \in Seq(Posts)
      BY StreamType
    <2>4. /\ Len(bus[i]) \in Nat \ {0} /\ Len(Tail(bus[i])) = Len(bus[i]) - 1
          /\ \A n \in 1..Len(Tail(bus[i])) : Tail(bus[i])[n] = bus[i][n + 1]
          /\ Head(bus[i]) = bus[i][1]
      BY <1>1, <2>3, TailAt
    <2> QED
      BY <1>2, <2>1, <2>2, <2>4
  <1>6. PICK p \in Conns \cup {NoConn} :
          /\ p # NoConn => InstOf[p] = i
          /\ inbox' = IF p = NoConn THEN inbox ELSE Push(p, m)
    <2> DEFINE h == Head(bus[i])
               q == dispatch[i][h.id][h.role]
    <2>1. q \in Conns \cup {NoConn} /\ inbox' = IF q = NoConn THEN inbox ELSE Push(q, m)
      BY <1>2, RouteFacts
    <2>2. q # NoConn => InstOf[q] = i
      <3>1. h.id \in Ids /\ h.role \in Roles
        BY <1>1 DEF Posts
      <3> QED
        BY <3>1 DEF Owned, EntriesOwn, Of
    <2> HIDE DEF q
    <2> QED
      BY <2>1, <2>2
  <1>7. ASSUME NEW x \in Conns
        PROVE  /\ Len(Line(x)) \in Nat
               /\ \/ Line(x)' = Line(x)
                  \/ /\ InstOf[x] = i /\ Len(Line(x)') = Len(Line(x)) + 1
                     /\ \A k \in 1..Len(Line(x)) : Line(x)'[k] = Line(x)[k]
                     /\ Line(x)'[Len(Line(x)) + 1] = m
    <2>1. CASE p = NoConn
      BY <1>3, <1>6, <2>1, LineType DEF Line
    <2>2. CASE p \in Conns /\ p # NoConn
      <3>1. Line(x)' = Line(x) \/ (x = p /\ Queued(x, m))
        BY <1>3, <1>6, <2>2, PushLine
      <3>2. CASE x = p /\ Line(x)' = Append(Line(x), m)
        BY <1>6, <2>2, <3>2, LineType, AppendAt
      <3> QED
        BY <3>1, <3>2, LineType DEF Queued
    <2> QED
      BY <1>6, <2>1, <2>2
  <1>8. Behind(m)
    <2>1. 1 \in 1..Len(bus[i]) /\ bus[i][1].msg = m
      BY <1>5
    <2> QED
      BY <2>1 DEF Sorted, StreamsBehind
  <1>9. StreamsBehind'
    <2> SUFFICES ASSUME NEW k \in Instances, NEW n \in 1..Len(bus'[k]) PROVE Behind(bus'[k][n].msg)
      BY <1>4 DEF StreamsBehind
    <2>1. CASE k = i
      <3>1. n + 1 \in 1..Len(bus[i]) /\ bus'[k][n] = bus[i][n + 1]
        BY <1>5, <2>1
      <3> QED
        BY <3>1 DEF Sorted, StreamsBehind
    <2>2. CASE k # i
      BY <1>5, <2>2 DEF Sorted, StreamsBehind
    <2> QED
      BY <2>1, <2>2
  <1>10. LinesBehind'
    <2> SUFFICES ASSUME NEW x \in Conns, NEW k \in 1..Len(Line(x)') PROVE Behind(Line(x)'[k])
      BY <1>4 DEF LinesBehind
    <2>1. k \in 1..Len(Line(x)) \/ k = Len(Line(x)) + 1 \/ Line(x)' = Line(x)
      BY <1>7
    <2> QED
      BY <1>7, <1>8, <2>1 DEF Sorted, LinesBehind
  <1>11. StreamsOrdered'
    <2> SUFFICES ASSUME NEW k \in Instances, NEW a \in 1..Len(bus'[k]), NEW b \in 1..Len(bus'[k]),
                        a < b
                 PROVE  Precedes(bus'[k][a].msg, bus'[k][b].msg)
      BY DEF StreamsOrdered, Precedes
    <2>1. CASE k = i
      <3>1. /\ a + 1 \in 1..Len(bus[i]) /\ b + 1 \in 1..Len(bus[i]) /\ a + 1 < b + 1
            /\ bus'[k][a] = bus[i][a + 1] /\ bus'[k][b] = bus[i][b + 1]
        BY <1>5, <2>1
      <3> QED
        BY <3>1 DEF Sorted, Ordered, StreamsOrdered
    <2>2. CASE k # i
      BY <1>5, <2>2 DEF Sorted, Ordered, StreamsOrdered
    <2> QED
      BY <2>1, <2>2
  <1>12. LinesOrdered'
    <2> SUFFICES ASSUME NEW x \in Conns, NEW j \in 1..Len(Line(x)'), NEW k \in 1..Len(Line(x)'),
                        j < k
                 PROVE  InOrder(x, Line(x)'[j], Line(x)'[k])
      BY <1>3 DEF LinesOrdered, InOrder, Overtook
    <2>1. CASE Line(x)' = Line(x)
      BY <2>1 DEF Sorted, Ordered, LinesOrdered
    <2>2. CASE /\ InstOf[x] = i /\ Len(Line(x)') = Len(Line(x)) + 1
               /\ \A n \in 1..Len(Line(x)) : Line(x)'[n] = Line(x)[n]
               /\ Line(x)'[Len(Line(x)) + 1] = m
      <3>1. j \in 1..Len(Line(x)) /\ Line(x)'[j] = Line(x)[j]
        BY <1>7, <2>2
      <3>2. CASE k \in 1..Len(Line(x))
        BY <2>2, <3>1, <3>2 DEF Sorted, Ordered, LinesOrdered
      <3>3. CASE k = Len(Line(x)) + 1
        <4>1. 1 \in 1..Len(bus[InstOf[x]]) /\ bus[InstOf[x]][1].msg = m
          BY <1>5, <2>2
        <4>2. InOrder(x, Line(x)[j], m)
          BY <3>1, <4>1 DEF Sorted, Ordered, LinesFirst
        <4> QED
          BY <2>2, <3>1, <3>3, <4>2
      <3> QED
        BY <1>7, <2>2, <3>2, <3>3
    <2> QED
      BY <1>7, <2>1, <2>2
  <1>13. LinesFirst'
    <2> SUFFICES ASSUME NEW x \in Conns, NEW j \in 1..Len(Line(x)'),
                        NEW k \in 1..Len(bus'[InstOf[x]])
                 PROVE  InOrder(x, Line(x)'[j], bus'[InstOf[x]][k].msg)
      BY <1>3, LinesFirstNext
    <2>1. PICK l \in 1..Len(bus[InstOf[x]]) :
            /\ bus'[InstOf[x]][k] = bus[InstOf[x]][l]
            /\ InstOf[x] = i => l > 1
      <3>1. CASE InstOf[x] = i
        <4>1. k + 1 \in 1..Len(bus[i]) /\ bus'[i][k] = bus[i][k + 1] /\ k + 1 > 1
          BY <1>5, <3>1
        <4> QED
          BY <3>1, <4>1
      <3>2. CASE InstOf[x] # i
        BY <1>5, <3>2, RoleFacts
      <3> QED
        BY <3>1, <3>2
    <2>2. CASE j \in 1..Len(Line(x)) /\ Line(x)'[j] = Line(x)[j]
      BY <2>1, <2>2 DEF Sorted, Ordered, LinesFirst
    <2>3. CASE InstOf[x] = i /\ Line(x)'[j] = m
      <3>1. 1 \in 1..Len(bus[i]) /\ bus[i][1].msg = m /\ l \in 1..Len(bus[i]) /\ 1 < l
        BY <1>5, <2>1, <2>3
      <3>2. Precedes(bus[i][1].msg, bus[i][l].msg)
        BY <3>1 DEF Sorted, Ordered, StreamsOrdered
      <3> QED
        BY <2>1, <2>3, <3>1, <3>2 DEF Precedes, InOrder
    <2>4. \/ j \in 1..Len(Line(x)) /\ Line(x)'[j] = Line(x)[j]
          \/ InstOf[x] = i /\ Line(x)'[j] = m
      <3>1. CASE Line(x)' = Line(x)
        BY <3>1
      <3>2. CASE /\ InstOf[x] = i /\ Len(Line(x)') = Len(Line(x)) + 1
                 /\ \A n \in 1..Len(Line(x)) : Line(x)'[n] = Line(x)[n]
                 /\ Line(x)'[Len(Line(x)) + 1] = m
        BY <1>7, <3>2
      <3> QED
        BY <1>7, <3>1, <3>2
    <2> QED
      BY <2>2, <2>3, <2>4
  <1> QED
    BY <1>9, <1>10, <1>11, <1>12, <1>13 DEF Ordered

LEMMA PendingStep == TypeOK /\ Owned /\ PendingOwn /\ [Next]_vars => PendingOwn'
  <1> SUFFICES ASSUME TypeOK, Owned, PendingOwn, [Next]_vars PROVE PendingOwn'
    OBVIOUS
  <1>1. CASE UNCHANGED <<pending, sent>>
    BY <1>1 DEF PendingOwn
  <1>2. ASSUME NEW c \in Conns, ReadFrame(c) \/ ClearLocal(c) PROVE PendingOwn'
    <2>1. PeerSlot(c) # NoConn => InstOf[PeerSlot(c)] = InstOf[c]
      BY RoleFacts DEF Owned, SlotsOwn, Of, PeerSlot
    <2>2. CASE ReadFrame(c)
      <3>1. sent' = [sent EXCEPT ![c] = sent[c] + 1]
        BY <2>2 DEF ReadFrame
      <3>2. /\ sent'[c] = sent[c] + 1
            /\ pending'[c] = [to |-> PeerSlot(c), msg |-> [from |-> c, n |-> sent[c] + 1]]
            /\ \A x \in Conns : x # c => pending'[x] = pending[x] /\ sent'[x] = sent[x]
        BY <2>2, <3>1 DEF ReadFrame, TypeOK
      <3> QED
        BY <2>1, <3>2 DEF PendingOwn
    <2>3. CASE ClearLocal(c)
      <3>1. /\ pending'[c] = [to |-> PeerSlot(c), msg |-> Close] /\ sent' = sent
            /\ \A x \in Conns : x # c => pending'[x] = pending[x]
        BY <2>3 DEF ClearLocal, TypeOK, reads
      <3> QED
        BY <2>1, <3>1 DEF PendingOwn
    <2> QED
      BY <1>2, <2>2, <2>3
  <1>3. ASSUME NEW c \in Conns, SendToPeer(c) \/ NotifyPeer(c) PROVE PendingOwn'
    <2>1. sent' = sent /\ \A x \in Conns : pending'[x] \in {pending[x], Nothing}
      BY <1>3 DEF SendToPeer, NotifyPeer, TypeOK, reads
    <2> QED
      BY <2>1 DEF PendingOwn, Nothing
  <1>4. ASSUME NEW i \in MayCrash, Crash(i) PROVE PendingOwn'
    <2>1. sent' = sent /\ \A x \in Conns : pending'[x] \in {pending[x], Nothing}
      BY <1>4 DEF Crash, reads
    <2> QED
      BY <2>1 DEF PendingOwn, Nothing
  <1>5. \/ UNCHANGED <<pending, sent>>
        \/ \E c \in Conns : ReadFrame(c) \/ ClearLocal(c) \/ SendToPeer(c) \/ NotifyPeer(c)
        \/ \E i \in MayCrash : Crash(i)
    BY ZenonT(40) DEF Next, Registering, Leaving, Pump, Quiescent, vars, reads, CheckCapacity, SetPresence,
           PresenceUnanswered, PutLocal, PutDispatch, CancelRegister, ReaderEnd, Cancel,
           DelPresence, DropDispatch, WriterDeliver, WriterStops, Route, Expire
  <1> QED
    BY <1>1, <1>2, <1>3, <1>4, <1>5

LEMMA EarlySentStep == TypeOK /\ EarlySent /\ [Next]_vars => EarlySent'
  <1> SUFFICES ASSUME TypeOK, EarlySent, [Next]_vars PROVE EarlySent'
    OBVIOUS
  <1>1. \A x \in Conns : sent[x] \in Nat /\ \A y \in Conns : early[x][y] \in Nat
    BY RedisAssumption DEF TypeOK
  <1>2. ASSUME NEW c \in Conns, ReadFrame(c) PROVE EarlySent'
    <2>1. early' = early /\ sent' = [sent EXCEPT ![c] = sent[c] + 1]
      BY <1>2 DEF ReadFrame, past
    <2>2. \A x \in Conns : sent'[x] \in {sent[x], sent[x] + 1}
      BY <2>1 DEF TypeOK
    <2> QED
      BY <1>1, <2>1, <2>2 DEF EarlySent
  <1>3. ASSUME NEW c \in Conns, PutLocal(c) PROVE EarlySent'
    <2>1. sent' = sent /\ \A x \in Conns : early'[x] \in {early[x], sent}
      BY <1>3 DEF PutLocal, TypeOK, reads
    <2> QED
      BY <1>1, <2>1 DEF EarlySent
  <1>4. CASE UNCHANGED <<sent, early>>
    BY <1>4 DEF EarlySent
  <1>5. (\E c \in Conns : ReadFrame(c) \/ PutLocal(c)) \/ UNCHANGED <<sent, early>>
    BY ZenonT(40) DEF Next, Registering, Leaving, Pump, Quiescent, vars, reads, past, CheckCapacity,
           SetPresence, PresenceUnanswered, PutDispatch, CancelRegister, SendToPeer, ReaderEnd,
           Cancel, DelPresence, DropDispatch, ClearLocal, NotifyPeer, WriterDeliver, WriterStops,
           Route, Crash, Expire
  <1> QED
    BY <1>2, <1>3, <1>4, <1>5

\* Whoever has no channel yet had none before, and there it can hear nothing.
LEMMA BlankSame ==
  ASSUME TypeOK, Owned, Blank,
         \A x \in Conns : Unborn(x)' =>
           /\ Unborn(x) /\ writer'[x] = writer[x] /\ delivered'[x] = delivered[x]
           /\ inbox'[x] = inbox[x] \/ CanHear(x),
         \A d \in Conns : \/ pending'[d].to \in {pending[d].to, NoConn}
                          \/ ~Unborn(pending'[d].to)
  PROVE  Blank'
  <1> SUFFICES ASSUME NEW x \in Conns, Unborn(x)'
               PROVE  /\ writer'[x] = "none" /\ inbox'[x] = <<>> /\ delivered'[x] = <<>>
                      /\ \A d \in Conns : pending'[d].to # x
    BY DEF Blank
  <1>1. /\ Unborn(x) /\ writer[x] = "none" /\ inbox[x] = <<>> /\ delivered[x] = <<>>
        /\ \A d \in Conns : pending[d].to # x
    BY DEF Blank
  <1>2. ~CanHear(x)
    BY <1>1 DEF CanHear
  <1> QED
    BY <1>1, <1>2, RedisAssumption

LEMMA BlankStep == TypeOK /\ Owned /\ Blank /\ [Next]_vars => Blank'
  <1> SUFFICES ASSUME TypeOK, Owned, Blank, [Next]_vars PROVE Blank'
    OBVIOUS
  <1>0. ASSUME NEW p \in Conns, NEW m, NEW x \in Conns
        PROVE  Push(p, m)[x] = inbox[x] \/ CanHear(x)
    BY DEF Push, TypeOK
  <1>1. ASSUME NEW c \in Conns, Registering(c) PROVE Blank'
    <2>1. UNCHANGED <<delivered, pending>>
      BY <1>1 DEF Registering, CheckCapacity, SetPresence, PresenceUnanswered, PutLocal,
                  PutDispatch, CancelRegister
    <2>2. /\ Unborn(c)
             \/ ~Unborn(c)'
          /\ \A x \in Conns : x # c =>
               phase'[x] = phase[x] /\ writer'[x] = writer[x] /\ inbox'[x] = inbox[x]
          /\ Unborn(c)' => writer'[c] = writer[c] /\ inbox'[c] = inbox[c]
      <3>1. CASE CheckCapacity(c) \/ SetPresence(c) \/ PresenceUnanswered(c)
        <4>1. UNCHANGED <<writer, inbox>> /\ Unborn(c)
          BY <3>1 DEF CheckCapacity, SetPresence, PresenceUnanswered, queues, Go, Unborn
        <4>2. \A x \in Conns : x # c => phase'[x] = phase[x]
          BY <3>1 DEF CheckCapacity, SetPresence, PresenceUnanswered, Go, TypeOK
        <4> QED
          BY <4>1, <4>2
      <3>2. CASE PutLocal(c) \/ PutDispatch(c) \/ CancelRegister(c)
        <4>1. phase'[c] \in {"slotted", "open", "gone", "stranded"}
          BY <3>2 DEF PutLocal, PutDispatch, CancelRegister, Go, TypeOK
        <4>2. \A x \in Conns : x # c =>
                phase'[x] = phase[x] /\ writer'[x] = writer[x] /\ inbox'[x] = inbox[x]
          BY <3>2 DEF PutLocal, PutDispatch, CancelRegister, Go, TypeOK, queues
        <4> QED
          BY <4>1, <4>2 DEF Unborn
      <3> QED
        BY <1>1, <3>1, <3>2 DEF Registering
    <2> QED
      BY <2>1, <2>2, BlankSame DEF Unborn
  <1>2. ASSUME NEW c \in Conns, ReadFrame(c) \/ ClearLocal(c) PROVE Blank'
    <2>1. PeerSlot(c) \in Conns \cup {NoConn} /\ (PeerSlot(c) # NoConn => InSlot(PeerSlot(c)))
      BY TableTypes, RoleFacts DEF Owned, SlotsOwn, PeerSlot
    <2>2. /\ UNCHANGED <<writer, inbox, delivered>>
          /\ \A d \in Conns : pending'[d].to \in {pending[d].to, PeerSlot(c)}
      <3>1. CASE ReadFrame(c)
        BY <3>1 DEF ReadFrame, TypeOK, queues
      <3>2. CASE ClearLocal(c)
        BY <3>2 DEF ClearLocal, TypeOK, queues
      <3> QED
        BY <1>2, <3>1, <3>2
    <2>3. \A x \in Conns : Unborn(x)' => Unborn(x)
      BY <1>2 DEF ReadFrame, ClearLocal, Go, Unborn, TypeOK
    <2> QED
      BY <2>1, <2>2, <2>3, BlankSame DEF InSlot, Unborn
  <1>3. ASSUME NEW c \in Conns, SendToPeer(c) \/ NotifyPeer(c) PROVE Blank'
    <2>1. /\ UNCHANGED <<writer, delivered>> /\ Deliver(c)
          /\ \A d \in Conns : pending'[d] \in {pending[d], Nothing}
      BY <1>3 DEF SendToPeer, NotifyPeer, TypeOK
    <2>2. \A x \in Conns : Unborn(x)' => Unborn(x)
      BY <1>3 DEF SendToPeer, NotifyPeer, Go, Unborn, TypeOK
    <2>3. inbox' = inbox \/ inbox' = Push(pending[c].to, pending[c].msg)
      BY <2>1 DEF Deliver
    <2>4. pending[c].to = NoConn => inbox' = inbox
      BY <2>1 DEF Deliver
    <2>5. pending[c].to \in Conns \cup {NoConn}
      BY DEF TypeOK
    <2>6. \A x \in Conns : inbox'[x] = inbox[x] \/ CanHear(x)
      BY <1>0, <2>3, <2>4, <2>5
    <2> QED
      BY <2>1, <2>2, <2>6, BlankSame DEF Nothing
  <1>4. ASSUME NEW i \in Instances, Route(i) PROVE Blank'
    <2>1. UNCHANGED <<phase, writer, delivered, pending>>
      BY <1>4 DEF Route
    <2>2. \A x \in Conns : inbox'[x] = inbox[x] \/ CanHear(x)
      BY <1>0, <1>4, RouteFacts
    <2> QED
      BY <2>1, <2>2, BlankSame DEF Unborn
  <1>5. ASSUME NEW c \in Conns, Pump(c) \/ ReaderEnd(c) PROVE Blank'
    <2>1. UNCHANGED pending /\ ~Unborn(c)
      <3>1. CASE Pump(c)
        BY <3>1 DEF Pump, WriterDeliver, WriterStops, Blank
      <3>2. CASE ReaderEnd(c)
        BY <3>2 DEF ReaderEnd, Go, Unborn
      <3> QED
        BY <1>5, <3>1, <3>2
    <2>2. /\ \A x \in Conns : x # c => /\ writer'[x] = writer[x] /\ delivered'[x] = delivered[x]
                                       /\ inbox'[x] = inbox[x]
          /\ \A x \in Conns : Unborn(x)' => Unborn(x)
      <3>1. CASE Pump(c)
        BY <3>1 DEF Pump, WriterDeliver, WriterStops, Unborn, TypeOK
      <3>2. CASE ReaderEnd(c)
        BY <3>2 DEF ReaderEnd, Go, Unborn, TypeOK
      <3> QED
        BY <1>5, <3>1, <3>2
    <2> QED
      BY <2>1, <2>2, BlankSame
  <1>6. ASSUME NEW c \in Conns, Cancel(c) \/ DelPresence(c) \/ DropDispatch(c) PROVE Blank'
    <2>1. UNCHANGED <<writer, inbox, delivered, pending>>
      BY <1>6 DEF Cancel, DelPresence, DropDispatch, queues
    <2>2. \A x \in Conns : Unborn(x)' => Unborn(x)
      BY <1>6 DEF Cancel, DelPresence, DropDispatch, Go, Unborn, TypeOK
    <2> QED
      BY <2>1, <2>2, BlankSame
  <1>7. ASSUME NEW i \in MayCrash, Crash(i) PROVE Blank'
    <2>1. /\ delivered' = delivered /\ \A d \in Conns : pending'[d] \in {pending[d], Nothing}
          /\ \A x \in Conns : Unborn(x)' => Unborn(x) /\ InstOf[x] # i
      BY <1>7 DEF Crash, Unborn
    <2>2. \A x \in Conns : InstOf[x] # i => writer'[x] = writer[x] /\ inbox'[x] = inbox[x]
      BY <1>7 DEF Crash
    <2> QED
      BY <2>1, <2>2, BlankSame DEF Nothing
  <1>8. CASE UNCHANGED <<phase, writer, inbox, delivered, pending>>
    BY <1>8 DEF Blank, Unborn
  <1>9. \/ UNCHANGED <<phase, writer, inbox, delivered, pending>>
        \/ \E c \in Conns : \/ Registering(c) \/ ReadFrame(c) \/ ClearLocal(c) \/ SendToPeer(c)
                            \/ NotifyPeer(c) \/ Pump(c) \/ ReaderEnd(c) \/ Cancel(c)
                            \/ DelPresence(c) \/ DropDispatch(c)
        \/ \E i \in Instances : Route(i)
        \/ \E i \in MayCrash : Crash(i)
    BY DEF Next, Leaving, Quiescent, vars, queues, Expire
  <1> QED
    BY <1>1, <1>2, <1>3, <1>4, <1>5, <1>6, <1>7, <1>8, <1>9

\* Slots that are cleared, clones that are used and streams that are read leave
\* fewer to say anything of.
LEMMA WaysSame ==
  ASSUME Sorted, UNCHANGED early,
         \A c \in Conns : Slot(c)' = c => Slot(c) = c,
         \A d \in Conns : pending'[d] = pending[d] \/ pending'[d].msg = Close,
         \A i \in Instances : \A k \in 1..Len(bus'[i]) :
           \E l \in 1..Len(bus[i]) : bus'[i][k] = bus[i][l]
  PROVE  EarlyInHand' /\ EarlyOnStream'
  <1>1. ASSUME NEW c \in Conns, NEW d \in Conns
        PROVE  /\ Holds(d, c)' => Holds(d, c) /\ pending'[d] = pending[d]
               /\ Leads(d, c)' => Leads(d, c)
    BY DEF Holds, Leads, Faces
  <1>2. EarlyInHand'
    BY <1>1 DEF Sorted, Ways, EarlyInHand
  <1>3. EarlyOnStream'
    <2> SUFFICES ASSUME NEW c \in Conns, NEW d \in Conns, Holds(d, c)' \/ Leads(d, c)',
                        NEW k \in 1..Len(bus'[InstOf[c]]), bus'[InstOf[c]][k].msg.from = d
                 PROVE  bus'[InstOf[c]][k].msg.n <= early[c][d]
      BY DEF EarlyOnStream
    <2>1. PICK l \in 1..Len(bus[InstOf[c]]) : bus'[InstOf[c]][k] = bus[InstOf[c]][l]
      BY RoleFacts
    <2> QED
      BY <1>1, <2>1 DEF Sorted, Ways, EarlyOnStream
  <1> QED
    BY <1>2, <1>3

\* The slot is put: whatever its peers have sent by then they have sent early.
LEMMA WaysPut ==
  ASSUME TypeOK, Sorted, NEW c \in Conns, PutLocal(c)
  PROVE  EarlyInHand' /\ EarlyOnStream'
  <1>1. UNCHANGED <<bus, pending>> /\ Unborn(c)
    BY DEF PutLocal, queues, Go, Unborn
  <1>2. early'[c] = sent /\ \A x \in Conns : x # c => early'[x] = early[x]
    BY DEF PutLocal, TypeOK
  <1>3. \A x \in Conns : x # c /\ Slot(x)' = x => Slot(x) = x
    BY RoleFacts DEF PutLocal, TypeOK, Slot
  <1>4. \A d \in Conns : ~Holds(d, c) /\ (pending[d].msg # Close => pending[d].msg.n = sent[d])
    <2>1. \A d \in Conns : pending[d].msg # Close => pending[d].msg = [from |-> d, n |-> sent[d]]
      BY DEF Sorted, PendingOwn
    <2>2. \A d \in Conns : pending[d].to # c
      BY <1>1 DEF Sorted, Ways, Blank
    <2>3. ASSUME NEW d \in Conns, pending[d].msg # Close PROVE pending[d].msg.n = sent[d]
      <3>1. pending[d].msg = [from |-> d, n |-> sent[d]]
        BY <2>1, <2>3
      <3> QED
        BY <3>1
    <2> QED
      BY <2>2, <2>3 DEF Holds
  <1>5. \A d \in Conns : sent[d] \in Nat
    BY DEF TypeOK
  <1>6. EarlyInHand'
    <2> SUFFICES ASSUME NEW x \in Conns, NEW d \in Conns
                 PROVE  /\ Holds(d, x) => early'[x][d] < pending[d].msg.n
                        /\ Leads(d, x)' /\ pending[d].msg # Close /\ pending[d].to # x
                             => pending[d].msg.n <= early'[x][d]
      BY <1>1 DEF EarlyInHand, Holds
    <2>1. CASE x = c
      BY <1>2, <1>4, <1>5, <2>1
    <2>2. CASE x # c
      BY <1>2, <1>3, <2>2 DEF Sorted, Ways, EarlyInHand, Leads, Faces
    <2> QED
      BY <2>1, <2>2
  <1>7. EarlyOnStream'
    <2> SUFFICES ASSUME NEW x \in Conns, NEW d \in Conns, Holds(d, x) \/ Leads(d, x)',
                        NEW k \in 1..Len(bus[InstOf[x]]), bus[InstOf[x]][k].msg.from = d
                 PROVE  bus[InstOf[x]][k].msg.n <= early'[x][d]
      BY <1>1 DEF EarlyOnStream, Holds
    <2>1. CASE x = c
      <3>1. Behind(bus[InstOf[x]][k].msg) /\ d # NoConn
        BY RoleFacts, RedisAssumption DEF Sorted, StreamsBehind
      <3> QED
        BY <1>2, <2>1, <3>1 DEF Behind
    <2>2. CASE x # c
      BY <1>2, <1>3, <2>2 DEF Sorted, Ways, EarlyOnStream, Leads, Faces
    <2> QED
      BY <2>1, <2>2
  <1> QED
    BY <1>6, <1>7

\* The next frame is read for the one the slot leads to.
LEMMA WaysRead ==
  ASSUME TypeOK, Owned, Sorted, NEW c \in Conns, ReadFrame(c)
  PROVE  EarlyInHand' /\ EarlyOnStream'
  <1>1. UNCHANGED <<bus, local, early>>
    BY DEF ReadFrame, tables, queues, past
  <1>2. /\ pending'[c].to = PeerSlot(c) /\ pending'[c].msg.n = sent[c] + 1
        /\ \A d \in Conns : d # c => pending'[d] = pending[d]
    BY DEF ReadFrame, TypeOK
  <1>3. ASSUME NEW x \in Conns, PeerSlot(c) = x PROVE Leads(c, x)
    <2>1. Of(x, InstOf[c], IdOf[c], PeerRole(RoleOf[c]))
      BY <1>3, RoleFacts, RedisAssumption DEF Owned, SlotsOwn, PeerSlot
    <2> QED
      BY <1>3, <2>1 DEF Of, Leads, Faces, Slot, PeerSlot
  <1>4. ASSUME NEW x \in Conns, Leads(c, x) PROVE PeerSlot(c) = x
    BY <1>4 DEF Leads, Faces, Slot, PeerSlot
  <1>5. \A x, d \in Conns : /\ Leads(d, x)' <=> Leads(d, x)
                            /\ Holds(d, x)' => Holds(d, x) \/ (d = c /\ Leads(c, x))
    BY <1>1, <1>2, <1>3 DEF Leads, Faces, Slot, Holds
  <1>6. \A x, d \in Conns : early[x][d] \in Nat /\ sent[d] \in Nat /\ early[x][d] <= sent[d]
    BY RedisAssumption DEF TypeOK, Sorted, Ways, EarlySent
  <1>7. EarlyInHand'
    <2> SUFFICES ASSUME NEW x \in Conns, NEW d \in Conns
                 PROVE  /\ Holds(d, x)' => early[x][d] < pending'[d].msg.n
                        /\ Leads(d, x)' /\ pending'[d].msg # Close /\ pending'[d].to # x
                             => pending'[d].msg.n <= early[x][d]
      BY <1>1 DEF EarlyInHand
    <2>1. CASE d = c
      BY <1>2, <1>4, <1>5, <1>6, <2>1
    <2>2. CASE d # c
      BY <1>2, <1>5, <2>2 DEF Sorted, Ways, EarlyInHand, Holds
    <2> QED
      BY <2>1, <2>2
  <1>8. EarlyOnStream'
    BY <1>1, <1>5 DEF Sorted, Ways, EarlyOnStream
  <1> QED
    BY <1>7, <1>8

\* What is published behind the back of a slot that leads from its sender was read
\* before the slot was put.
LEMMA WaysSent ==
  ASSUME TypeOK, Sorted, NEW c \in Conns, SendToPeer(c) \/ NotifyPeer(c)
  PROVE  EarlyInHand' /\ EarlyOnStream'
  <1>1. /\ UNCHANGED <<local, early>> /\ Deliver(c)
        /\ pending' = [pending EXCEPT ![c] = Nothing]
    BY DEF SendToPeer, NotifyPeer, tables, past
  <1>2. /\ pending'[c].msg = Close /\ \A d \in Conns : d # c => pending'[d] = pending[d]
        /\ \A x \in Conns : Slot(x)' = Slot(x)
    BY <1>1 DEF TypeOK, Nothing, Slot
  <1>3. CASE bus' = bus
    BY <1>1, <1>2, <1>3, WaysSame
  <1>4. CASE bus' # bus
    <2>1. PICK m \in Delivery : m = pending[c].msg
      BY DEF TypeOK
    <2>2. pending[c].to = NoConn /\ bus' = Published(c, m)
      BY <1>1, <1>4, <2>1 DEF Deliver
    <2>3. ASSUME NEW i \in Instances, NEW k \in 1..Len(bus'[i])
          PROVE  \/ \E l \in 1..Len(bus[i]) : bus'[i][k] = bus[i][l]
                 \/ bus'[i][k].msg = m
      <3>1. PICK post \in Posts : post.msg = m /\ bus'[i] \in {bus[i], Append(bus[i], post)}
        <4> DEFINE q == [id |-> IdOf[c], role |-> PeerRole(RoleOf[c]), msg |-> m]
        <4>1. q \in Posts /\ q.msg = m
          BY RoleFacts DEF Posts
        <4>2. bus'[i] \in {bus[i], Append(bus[i], q)}
          BY <2>2 DEF Published
        <4> HIDE DEF q
        <4> QED
          BY <4>1, <4>2
      <3>2. CASE bus'[i] = bus[i]
        BY <3>2
      <3>3. CASE bus'[i] = Append(bus[i], post)
        <4>1. /\ Len(bus[i]) \in Nat /\ Len(bus'[i]) = Len(bus[i]) + 1
              /\ \A l \in 1..Len(bus[i]) : bus'[i][l] = bus[i][l]
              /\ bus'[i][Len(bus[i]) + 1] = post
          BY <3>3, StreamType, AppendAt
        <4>2. k \in 1..Len(bus[i]) \/ k = Len(bus[i]) + 1
          BY <4>1
        <4> QED
          BY <3>1, <4>1, <4>2
      <3> QED
        BY <3>1, <3>2, <3>3
    <2>4. m.from = NoConn \/ (m.from = c /\ m # Close)
      <3>1. m # Close => m = [from |-> c, n |-> sent[c]]
        BY <2>1 DEF Sorted, PendingOwn
      <3> QED
        BY <3>1 DEF Close
    <2>5. \A x, d \in Conns : /\ Leads(d, x)' <=> Leads(d, x)
                              /\ Holds(d, x)' => Holds(d, x) /\ d # c
      BY <1>2 DEF Leads, Faces, Holds
    <2>6. EarlyInHand'
      BY <1>1, <1>2, <2>5 DEF Sorted, Ways, EarlyInHand, Holds
    <2>7. EarlyOnStream'
      <3> SUFFICES ASSUME NEW x \in Conns, NEW d \in Conns, Holds(d, x)' \/ Leads(d, x)',
                          NEW k \in 1..Len(bus'[InstOf[x]]), bus'[InstOf[x]][k].msg.from = d
                   PROVE  bus'[InstOf[x]][k].msg.n <= early[x][d]
        BY <1>1 DEF EarlyOnStream
      <3>1. CASE bus'[InstOf[x]][k].msg = m
        <4>1. d = c /\ m # Close
          BY <2>4, <3>1, RedisAssumption
        <4>2. Leads(c, x) /\ pending[c].to # x
          BY <2>2, <2>5, <4>1, RedisAssumption
        <4> QED
          BY <2>1, <3>1, <4>1, <4>2 DEF Sorted, Ways, EarlyInHand
      <3>2. ASSUME NEW l \in 1..Len(bus[InstOf[x]]), bus'[InstOf[x]][k] = bus[InstOf[x]][l]
            PROVE  bus'[InstOf[x]][k].msg.n <= early[x][d]
        BY <2>5, <3>2 DEF Sorted, Ways, EarlyOnStream
      <3> QED
        BY <2>3, <3>1, <3>2, RoleFacts
    <2> QED
      BY <2>6, <2>7
  <1> QED
    BY <1>3, <1>4

LEMMA WaysStep == TypeOK /\ Owned /\ Sorted /\ [Next]_vars => Ways'
  <1> SUFFICES ASSUME TypeOK, Owned, Sorted, [Next]_vars PROVE Ways'
    OBVIOUS
  <1>1. EarlySent' /\ Blank'
    BY EarlySentStep, BlankStep DEF Sorted, Ways
  <1>2. ASSUME NEW c \in Conns, PutLocal(c) \/ ReadFrame(c) \/ SendToPeer(c) \/ NotifyPeer(c)
        PROVE  EarlyInHand' /\ EarlyOnStream'
    BY <1>2, WaysPut, WaysRead, WaysSent
  <1>3. ASSUME NEW c \in Conns, ClearLocal(c) PROVE EarlyInHand' /\ EarlyOnStream'
    <2>1. UNCHANGED <<bus, early>>
      BY <1>3 DEF ClearLocal, queues, past
    <2>2. \A x \in Conns : Slot(x)' \in {Slot(x), NoConn}
      <3>1. \A i \in Instances, t \in Ids, r \in Roles :
              local'[i][t][r] \in {local[i][t][r], NoConn}
        BY <1>3, RoleFacts DEF ClearLocal, TypeOK
      <3> QED
        BY <3>1, RoleFacts DEF Slot
    <2>3. \A d \in Conns : pending'[d] = pending[d] \/ pending'[d].msg = Close
      BY <1>3 DEF ClearLocal, TypeOK
    <2> QED
      BY <2>1, <2>2, <2>3, WaysSame, RedisAssumption
  <1>4. ASSUME NEW i \in Instances, Route(i) PROVE EarlyInHand' /\ EarlyOnStream'
    <2>1. UNCHANGED <<local, pending, early>>
      BY <1>4 DEF Route, tables, past
    <2>2. ASSUME NEW j \in Instances, NEW k \in 1..Len(bus'[j])
          PROVE  \E l \in 1..Len(bus[j]) : bus'[j][k] = bus[j][l]
      <3>1. CASE j = i
        <4>1. bus'[i] = Tail(bus[i]) /\ bus[i] \in Seq(Posts) /\ bus[i] # <<>>
          <5>1. bus[i] # <<>> /\ bus' = [bus EXCEPT ![i] = Tail(bus[i])]
            BY <1>4, RouteFacts
          <5>2. bus[i] \in Seq(Posts)
            BY StreamType
          <5>3. bus \in [Instances -> Seq(Posts)]
            BY DEF TypeOK, Posts
          <5> QED
            BY <5>1, <5>2, <5>3
        <4>2. /\ Len(bus[i]) \in Nat \ {0} /\ Len(bus'[i]) = Len(bus[i]) - 1
              /\ \A n \in 1..Len(bus'[i]) : bus'[i][n] = bus[i][n + 1]
          BY <4>1, TailAt
        <4>3. k + 1 \in 1..Len(bus[i]) /\ bus'[i][k] = bus[i][k + 1]
          BY <3>1, <4>2
        <4> QED
          BY <3>1, <4>3
      <3>2. CASE j # i
        BY <1>4, <3>2, RouteFacts DEF TypeOK
      <3> QED
        BY <3>1, <3>2
    <2>3. \A x \in Conns : Slot(x)' = Slot(x)
      BY <2>1 DEF Slot
    <2> QED
      BY <2>1, <2>2, <2>3, WaysSame
  <1>5. ASSUME NEW i \in MayCrash, Crash(i) PROVE EarlyInHand' /\ EarlyOnStream'
    <2>1. early' = early /\ \A d \in Conns : pending'[d] \in {pending[d], Nothing}
      BY <1>5 DEF Crash, past
    <2>2. \A x \in Conns : Slot(x)' \in {Slot(x), NoConn}
      BY <1>5, RoleFacts DEF Crash, TypeOK, Slot, NoSlot
    <2>3. \A j \in Instances : bus'[j] \in {bus[j], <<>>}
      BY <1>5 DEF Crash, TypeOK
    <2> QED
      BY <2>1, <2>2, <2>3, WaysSame, RedisAssumption DEF Nothing
  <1>6. ASSUME UNCHANGED <<local, bus, pending, early>> PROVE EarlyInHand' /\ EarlyOnStream'
    BY <1>6, WaysSame DEF Slot
  <1>7. \/ UNCHANGED <<local, bus, pending, early>>
        \/ \E c \in Conns : PutLocal(c) \/ ReadFrame(c) \/ SendToPeer(c) \/ NotifyPeer(c)
                            \/ ClearLocal(c)
        \/ \E i \in Instances : Route(i)
        \/ \E i \in MayCrash : Crash(i)
    <2>1. ASSUME NEW c \in Conns, \/ CheckCapacity(c) \/ SetPresence(c) \/ PresenceUnanswered(c)
                                  \/ PutDispatch(c) \/ CancelRegister(c)
          PROVE  UNCHANGED <<local, bus, pending, early>>
      BY <2>1 DEF CheckCapacity, SetPresence, PresenceUnanswered, PutDispatch, CancelRegister,
                  tables, queues, past
    <2>2. ASSUME NEW c \in Conns, \/ ReaderEnd(c) \/ Cancel(c) \/ DelPresence(c)
                                  \/ DropDispatch(c) \/ WriterDeliver(c) \/ WriterStops(c)
          PROVE  UNCHANGED <<local, bus, pending, early>>
      BY <2>2 DEF ReaderEnd, Cancel, DelPresence, DropDispatch, WriterDeliver, WriterStops,
                  tables, queues, past
    <2>3. ASSUME \/ \E t \in Ids, r \in Roles : Expire(t, r)
                 \/ Quiescent \/ UNCHANGED vars
          PROVE  UNCHANGED <<local, bus, pending, early>>
      BY <2>3 DEF Expire, Quiescent, vars, tables, queues, past
    <2> QED
      BY <2>1, <2>2, <2>3, Zenon DEF Next, Registering, Leaving, Pump
  <1> QED
    BY <1>1, <1>2, <1>3, <1>4, <1>5, <1>6, <1>7 DEF Ways

LEMMA SortedStep ==
  TypeOK /\ TypeOK' /\ Owned /\ Sorted /\ [Next]_vars => Sorted'
  <1> SUFFICES ASSUME TypeOK, TypeOK', Owned, Sorted, [Next]_vars PROVE Sorted'
    OBVIOUS
  <1>0. PendingOwn' /\ Ways'
    BY PendingStep, WaysStep DEF Sorted
  <1>1. ASSUME NEW c \in Conns, SendToPeer(c) \/ NotifyPeer(c)
        PROVE  StreamsBehind' /\ LinesBehind' /\ Ordered'
    BY <1>1, DeliverSorted DEF SendToPeer, NotifyPeer, reads, past
  <1>2. ASSUME NEW i \in Instances, Route(i) PROVE StreamsBehind' /\ LinesBehind' /\ Ordered'
    BY <1>2, RouteSorted
  <1>3. ASSUME NEW c \in Conns,
               \/ WriterDeliver(c) \/ WriterStops(c) \/ ReaderEnd(c) \/ CancelRegister(c)
        PROVE  StreamsBehind' /\ LinesBehind' /\ Ordered'
    <2>1. UNCHANGED <<bus, sent, pending, early>>
      BY <1>3 DEF WriterDeliver, WriterStops, ReaderEnd, CancelRegister, reads, past
    <2>2. ASSUME NEW x \in Conns PROVE Line(x)' = Line(x) \/ Line(x)' = delivered[x]
      <3>1. CASE WriterDeliver(c)
        <4>1. x = c => delivered'[x] = Append(delivered[x], Head(inbox[x]))
                       /\ inbox'[x] = Tail(inbox[x]) /\ inbox[x] # <<>>
          BY <3>1 DEF WriterDeliver, TypeOK
        <4>2. x # c => delivered'[x] = delivered[x] /\ inbox'[x] = inbox[x]
          BY <3>1 DEF WriterDeliver, TypeOK
        <4> QED
          BY <4>1, <4>2, LineType, MoveHead DEF Line
      <3>2. CASE WriterStops(c) \/ ReaderEnd(c) \/ CancelRegister(c)
        <4>1. delivered' = delivered /\ inbox'[x] \in {inbox[x], <<>>}
          BY <3>2 DEF WriterStops, ReaderEnd, CancelRegister, TypeOK
        <4> QED
          BY <4>1, LinePrefix DEF Line
      <3> QED
        BY <1>3, <3>1, <3>2
    <2>3. \A x \in Conns : Prefix(Line(x)', Line(x))
      <3> SUFFICES ASSUME NEW x \in Conns PROVE Prefix(Line(x)', Line(x))
        OBVIOUS
      <3>1. Prefix(Line(x), Line(x)) /\ Prefix(delivered[x], Line(x))
        BY LinePrefix
      <3> QED
        BY <2>2, <3>1
    <2>4. \A i \in Instances : Prefix(bus'[i], bus[i])
      BY <2>1, StreamType DEF Prefix
    <2>5. \A d \in Delivery : Behind(d) => Behind(d)'
      BY <2>1 DEF Behind
    <2> QED
      BY <2>1, <2>3, <2>4, <2>5, ShrinkSorted
  <1>4. ASSUME NEW i \in MayCrash, Crash(i) PROVE StreamsBehind' /\ LinesBehind' /\ Ordered'
    <2>1. /\ UNCHANGED <<delivered, sent, early>>
          /\ \A x \in Conns : inbox'[x] \in {inbox[x], <<>>} /\ pending'[x] \in {pending[x], Nothing}
          /\ \A k \in Instances : bus'[k] \in {bus[k], <<>>}
      BY <1>4 DEF Crash, reads, past, TypeOK
    <2>2. \A x \in Conns : Prefix(Line(x)', Line(x))
      <3> SUFFICES ASSUME NEW x \in Conns PROVE Prefix(Line(x)', Line(x))
        OBVIOUS
      <3>1. Prefix(Line(x), Line(x)) /\ Prefix(delivered[x], Line(x))
        BY LinePrefix
      <3>2. Line(x)' = Line(x) \/ Line(x)' = delivered[x]
        BY <2>1, LinePrefix DEF Line
      <3> QED
        BY <3>1, <3>2
    <2>3. \A k \in Instances : Prefix(bus'[k], bus[k])
      BY <2>1, StreamType DEF Prefix
    <2>4. \A d \in Delivery : Behind(d) => Behind(d)'
      BY <2>1, StaysBehind DEF Sorted, Nothing
    <2> QED
      BY <2>1, <2>2, <2>3, <2>4, ShrinkSorted
  <1>5. ASSUME UNCHANGED <<bus, inbox, delivered, early>>,
               \/ sent' = sent /\ \A c \in Conns : pending'[c].msg \in {pending[c].msg, Close}
               \/ \E c \in Conns : ReadFrame(c)
        PROVE  StreamsBehind' /\ LinesBehind' /\ Ordered'
    <2>1. \A d \in Delivery : Behind(d) => Behind(d)'
      BY <1>5, StaysBehind DEF Sorted
    <2>2. \A x \in Conns : Prefix(Line(x)', Line(x))
      BY <1>5, LineType DEF Prefix, Line
    <2>3. \A k \in Instances : Prefix(bus'[k], bus[k])
      BY <1>5, StreamType DEF Prefix
    <2> QED
      BY <1>5, <2>1, <2>2, <2>3, ShrinkSorted
  <1>6. ASSUME NEW c \in Conns, ClearLocal(c) PROVE StreamsBehind' /\ LinesBehind' /\ Ordered'
    <2>1. sent' = sent /\ \A x \in Conns : pending'[x].msg \in {pending[x].msg, Close}
      BY <1>6 DEF ClearLocal, TypeOK, reads
    <2> QED
      BY <1>5, <1>6, <2>1 DEF ClearLocal, queues, past
  <1>7. ASSUME NEW c \in Conns, ReadFrame(c) PROVE StreamsBehind' /\ LinesBehind' /\ Ordered'
    BY <1>5, <1>7 DEF ReadFrame, queues, past
  <1>8. ASSUME UNCHANGED <<bus, inbox, delivered, sent, pending, early>>
        PROVE  StreamsBehind' /\ LinesBehind' /\ Ordered'
    <2>1. sent' = sent /\ \A x \in Conns : pending'[x].msg \in {pending[x].msg, Close}
      BY <1>8
    <2>2. UNCHANGED <<bus, inbox, delivered, early>>
      BY <1>8
    <2> QED
      BY <1>5, <2>1, <2>2
  <1>9. ASSUME NEW c \in Conns, PutLocal(c) PROVE StreamsBehind' /\ LinesBehind' /\ Ordered'
    <2>1. UNCHANGED <<bus, inbox, delivered, sent, pending>>
      BY <1>9 DEF PutLocal, queues, reads
    <2>2. \A x \in Conns : x # c => early'[x] = early[x]
      BY <1>9 DEF PutLocal, TypeOK
    <2>3. \A x \in Conns : Line(x)' = Line(x)
      BY <2>1 DEF Line
    <2>4. Len(Line(c)) = 0
      <3>1. delivered[c] = <<>> /\ inbox[c] = <<>>
        BY <1>9 DEF PutLocal, Go, Unborn, Sorted, Ways, Blank
      <3> QED
        BY <3>1 DEF Line
    <2>5. StreamsBehind' /\ LinesBehind' /\ StreamsOrdered'
      BY <2>1, <2>3 DEF Sorted, Ordered, StreamsBehind, LinesBehind, StreamsOrdered, Behind
    <2>6. LinesOrdered' /\ LinesFirst'
      <3>1. \A x \in Conns : x # c => \A d, e \in Delivery : InOrder(x, d, e) => InOrder(x, d, e)'
        BY <2>2 DEF InOrder, Overtook
      <3>2. ASSUME NEW x \in Conns, NEW j \in 1..Len(Line(x)), NEW k \in 1..Len(Line(x)), j < k
            PROVE  InOrder(x, Line(x)[j], Line(x)[k])'
        <4>1. x # c
          BY <2>4, <3>2
        <4>2. Line(x)[j] \in Delivery /\ Line(x)[k] \in Delivery
          BY LineType
        <4>3. InOrder(x, Line(x)[j], Line(x)[k])
          BY <3>2 DEF Sorted, Ordered, LinesOrdered
        <4> QED
          BY <2>3, <3>1, <4>1, <4>2, <4>3
      <3>3. ASSUME NEW x \in Conns, NEW j \in 1..Len(Line(x)), NEW k \in 1..Len(bus[InstOf[x]])
            PROVE  InOrder(x, Line(x)[j], bus[InstOf[x]][k].msg)'
        <4>1. x # c
          BY <2>4, <3>3
        <4>2. Line(x)[j] \in Delivery /\ bus[InstOf[x]][k].msg \in Delivery
          BY <3>3, LineType, StreamType, RedisAssumption
        <4>3. InOrder(x, Line(x)[j], bus[InstOf[x]][k].msg)
          BY <3>3 DEF Sorted, Ordered, LinesFirst
        <4> QED
          BY <2>1, <2>3, <3>1, <4>1, <4>2, <4>3
      <3>4. LinesOrdered'
        BY <2>3, <3>2 DEF LinesOrdered
      <3>5. LinesFirst'
        BY <2>1, <2>3, <3>3 DEF LinesFirst
      <3> QED
        BY <3>4, <3>5
    <2> QED
      BY <2>5, <2>6 DEF Ordered
  <1>10. \/ UNCHANGED <<bus, inbox, delivered, sent, pending, early>>
         \/ \E c \in Conns : \/ ReadFrame(c) \/ ClearLocal(c) \/ SendToPeer(c) \/ NotifyPeer(c)
                             \/ WriterDeliver(c) \/ WriterStops(c) \/ ReaderEnd(c)
                             \/ CancelRegister(c) \/ PutLocal(c)
         \/ \E i \in Instances : Route(i)
         \/ \E i \in MayCrash : Crash(i)
    <2>1. ASSUME NEW c \in Conns, CheckCapacity(c) \/ SetPresence(c) \/ PresenceUnanswered(c)
                                    \/ PutDispatch(c)
          PROVE  UNCHANGED <<bus, inbox, delivered, sent, pending, early>>
      <3>1. CASE CheckCapacity(c)
        BY <3>1 DEF CheckCapacity, reads, queues, past
      <3>2. CASE SetPresence(c)
        BY <3>2 DEF SetPresence, reads, queues, past
      <3>3. CASE PresenceUnanswered(c)
        BY <3>3 DEF PresenceUnanswered, reads, queues, past
      <3>4. CASE PutDispatch(c)
        BY <3>4 DEF PutDispatch, reads, queues, past
      <3> QED
        BY <2>1, <3>1, <3>2, <3>3, <3>4
    <2>2. ASSUME NEW c \in Conns, Cancel(c) \/ DelPresence(c) \/ DropDispatch(c)
          PROVE  UNCHANGED <<bus, inbox, delivered, sent, pending, early>>
      BY <2>2 DEF Cancel, DelPresence, DropDispatch, reads, queues, past
    <2>3. ASSUME \/ \E t \in Ids, r \in Roles : Expire(t, r)
                 \/ Quiescent \/ UNCHANGED vars
          PROVE  UNCHANGED <<bus, inbox, delivered, sent, pending, early>>
      BY <2>3 DEF Expire, Quiescent, vars, reads, queues, past
    <2> QED
      BY <2>1, <2>2, <2>3, Zenon DEF Next, Registering, Leaving, Pump
  <1>11. StreamsBehind' /\ LinesBehind' /\ Ordered'
    BY <1>1, <1>2, <1>3, <1>4, <1>6, <1>7, <1>8, <1>9, <1>10
  <1> QED
    BY <1>0, <1>11 DEF Sorted

\* What a socket is written by one sender is in the order in which that one sent
\* it, whatever is lost or crashes in between, but for what a sender of the same
\* process had published before the slot was there and what it sent after.
THEOREM OrderKept == Spec => []OnlyEarlyOvertaken
  <1>1. TypeOK /\ Sorted => OnlyEarlyOvertaken
    <2> SUFFICES ASSUME TypeOK, Sorted, NEW c \in Conns, NEW j \in 1..Len(delivered[c]),
                        NEW k \in 1..Len(delivered[c]), j < k,
                        delivered[c][j].from = delivered[c][k].from
                 PROVE  \/ delivered[c][j].n < delivered[c][k].n
                        \/ /\ InstOf[delivered[c][j].from] = InstOf[c]
                           /\ delivered[c][k].n <= early[c][delivered[c][j].from]
                           /\ early[c][delivered[c][j].from] < delivered[c][j].n
      BY DEF OnlyEarlyOvertaken
    <2>1. /\ j \in 1..Len(Line(c)) /\ k \in 1..Len(Line(c))
          /\ Line(c)[j] = delivered[c][j] /\ Line(c)[k] = delivered[c][k]
      <3>1. \A n \in 1..Len(delivered[c]) : n \in 1..Len(Line(c)) /\ delivered[c][n] = Line(c)[n]
        BY LinePrefix, LineType DEF Prefix
      <3> QED
        BY <3>1
    <2>2. delivered[c][j] \in Frames
      BY DEF TypeOK
    <2>3. delivered[c][j].from # NoConn
      BY <2>2, RedisAssumption DEF Frames
    <2> QED
      BY <2>1, <2>3 DEF Sorted, Ordered, LinesOrdered, InOrder, Overtook
  <1> QED
    BY <1>1, TypeInit, TypeStep, SentStep, OwnedInit, OwnedStep, SortedInit, SortedStep, PTL
       DEF Spec
=============================================================================
