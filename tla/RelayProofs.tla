---------------------------- MODULE RelayProofs ----------------------------
(***************************************************************************)
(* Proofs about Relay, for any number of sockets, ids, tunnels and frames. *)
(*                                                                         *)
(* The slot table is the heart of the relay.  SlotInv says that it is an   *)
(* exact picture of the run_sides between register and deregister, and it  *)
(* is inductive together with TypeOK; ExclusiveRole, NoLeakedSlot,         *)
(* CapacityRespected and OnlyOwnerReleases follow from it.  The second     *)
(* part proves from it what a socket is written: OnePeerPerSocket, NoGap.  *)
(***************************************************************************)
EXTENDS Relay, FiniteSetTheorems, TLAPS

\* A socket is registered exactly while its Tx is in its field of the table,
\* a field holds only a socket of its own id and role, and an id is in the map
\* exactly while one of its fields is set.
RegisteredHolds == \A c \in Conns : Registered(c) <=> Holds(c)
FieldsOwn ==
  \A i \in Ids : \A r \in Roles :
    slot[i][r] # NoConn => IdOf[slot[i][r]] = i /\ RoleOf[slot[i][r]] = r
KeysExact == \A i \in Ids : i \in keys <=> \E r \in Roles : slot[i][r] # NoConn

SlotInv == RegisteredHolds /\ FieldsOwn /\ KeysExact

IInv == TypeOK /\ SlotInv /\ CapacityRespected

----------------------------------------------------------------------------
(***************************************************************************)
(* Facts about the operators.                                              *)
(***************************************************************************)

\* Both roles exist, they are each other's peer, and Close is no frame.
LEMMA RoleFacts ==
  /\ \A r \in Roles : PeerRole(r) \in Roles /\ PeerRole(r) # r
  /\ \A r, q \in Roles : q = r \/ q = PeerRole(r)
  /\ Close \notin Frames
  BY RelayAssumption DEF Roles, PeerRole, Close, Frames

\* The fields a socket reads are a socket or nothing.
LEMMA TxType ==
  ASSUME TypeOK, NEW c \in Conns
  PROVE  /\ Tx(c) \in Conns \cup {NoConn}
         /\ PeerTx(c) \in Conns \cup {NoConn}
         /\ IdOf[c] \in Ids /\ RoleOf[c] \in Roles
  BY RelayAssumption, RoleFacts DEF TypeOK, Tx, PeerTx

\* Writing a field of a Slot, and bumping a counter, keep their types.
LEMMA SetFieldType ==
  ASSUME NEW s \in [Ids -> [Roles -> Conns \cup {NoConn}]],
         NEW i \in Ids, NEW r \in Roles, NEW x \in Conns \cup {NoConn}
  PROVE  [s EXCEPT ![i][r] = x] \in [Ids -> [Roles -> Conns \cup {NoConn}]]
  OBVIOUS

LEMMA CountType ==
  ASSUME NEW s \in [tunnels : Nat, frames : Nat]
  PROVE  /\ [s EXCEPT !.tunnels = @ + 1] \in [tunnels : Nat, frames : Nat]
         /\ [s EXCEPT !.frames = @ + 1] \in [tunnels : Nat, frames : Nat]
  <1>1. s.tunnels + 1 \in Nat /\ s.frames + 1 \in Nat
    OBVIOUS
  <1> QED
    BY <1>1

\* Sending to a channel keeps the queues well-typed.
LEMMA PushType ==
  ASSUME NEW q \in [Conns -> Seq(Delivery)], NEW c \in Conns, NEW d \in Delivery
  PROVE  Push(q, c, d) \in [Conns -> Seq(Delivery)]
  BY DEF Push

\* The deliveries deregister leaves behind are well-typed.
LEMMA CloseQueuedType ==
  ASSUME TypeOK, NEW c \in Conns
  PROVE  CloseQueued(c) \in [Conns -> Seq(Delivery)]
  <1>1. Close \in Delivery
    BY DEF Delivery
  <1>2. CASE HasPeer(c)
    <2>1. PeerTx(c) \in Conns
      BY <1>2, TxType DEF HasPeer
    <2> QED
      BY <1>1, <1>2, <2>1, PushType DEF CloseQueued, TypeOK
  <1>3. CASE ~HasPeer(c)
    BY <1>3 DEF CloseQueued, TypeOK
  <1> QED
    BY <1>2, <1>3

----------------------------------------------------------------------------
(***************************************************************************)
(* Type correctness.                                                       *)
(***************************************************************************)
LEMMA InitTypeOK == Init => TypeOK
  <1> SUFFICES ASSUME Init PROVE TypeOK
    OBVIOUS
  <1>1. <<>> \in Seq(Delivery) /\ <<>> \in Seq(Frames)
    OBVIOUS
  <1> QED
    BY <1>1 DEF Init, TypeOK, EmptySlot

\* Every step of every socket keeps the state well-typed.
LEMMA StepTypeOK ==
  ASSUME TypeOK, NEW c \in Conns, ConnStep(c)
  PROVE  TypeOK'
  <1>0. /\ PeerTx(c) \in Conns \cup {NoConn}
        /\ IdOf[c] \in Ids /\ RoleOf[c] \in Roles
    BY TxType
  <1>1. CASE Register(c)
    <2>1. keys' \subseteq Ids
      BY <1>0, <1>1 DEF Register, TypeOK
    <2>2. slot' \in [Ids -> [Roles -> Conns \cup {NoConn}]]
      BY <1>0, <1>1, SetFieldType DEF Register, TypeOK
    <2>3. stats' \in [tunnels : Nat, frames : Nat]
      BY <1>1, CountType DEF Register, TypeOK
    <2> QED
      BY <1>1, <2>1, <2>2, <2>3 DEF Register, TypeOK
  <1>2. CASE Reject(c)
    BY <1>2 DEF Reject, TypeOK
  <1>3. CASE ReadFrame(c)
    <2>1. stats' \in [tunnels : Nat, frames : Nat]
      BY <1>3, CountType DEF ReadFrame, TypeOK
    <2>2. sent' \in [Conns -> Nat]
      BY <1>3 DEF ReadFrame, TypeOK
    <2>3. UNCHANGED <<keys, slot, phase, writer, inbox, delivered>>
      BY <1>3 DEF ReadFrame
    <2>4. CASE HasPeer(c)
      <3>1. PeerTx(c) \in Conns
        BY <1>0, <2>4 DEF HasPeer
      <3>2. CloneFor(c) \in [to : Conns, frame : Frames]
        BY <3>1 DEF CloneFor, Frames, TypeOK
      <3>3. pending' = [pending EXCEPT ![c] = CloneFor(c)]
        BY <1>3, <2>4 DEF ReadFrame
      <3>4. pending' \in [Conns -> [to : Conns, frame : Frames] \cup {Nothing}]
        BY <3>2, <3>3 DEF TypeOK
      <3> QED
        BY <2>1, <2>2, <2>3, <3>4 DEF TypeOK
    <2>5. CASE ~HasPeer(c)
      <3>1. pending' = pending
        BY <1>3, <2>5 DEF ReadFrame
      <3> QED
        BY <2>1, <2>2, <2>3, <3>1 DEF TypeOK
    <2> QED
      BY <2>4, <2>5
  <1>4. CASE SendToPeer(c)
    <2>1. pending[c].to \in Conns /\ pending[c].frame \in Delivery
      BY <1>4 DEF SendToPeer, TypeOK, Delivery
    <2>2. inbox' \in [Conns -> Seq(Delivery)]
      BY <1>4, <2>1, PushType DEF SendToPeer, TypeOK
    <2> QED
      BY <1>4, <2>2 DEF SendToPeer, TypeOK
  <1>5. CASE ReaderEnd(c)
    BY <1>5 DEF ReaderEnd, TypeOK
  <1>6. CASE Cancel(c)
    BY <1>6 DEF Cancel, TypeOK
  <1>7. CASE Deregister(c)
    <2>1. inbox' \in [Conns -> Seq(Delivery)]
      BY <1>7, CloseQueuedType DEF Deregister, TypeOK
    <2>2. keys' \subseteq Ids
      BY <1>7 DEF Deregister, TypeOK
    <2>3. slot' \in [Ids -> [Roles -> Conns \cup {NoConn}]]
      <3>1. \/ slot' = slot
            \/ slot' = [slot EXCEPT ![IdOf[c]][RoleOf[c]] = NoConn]
        BY <1>7 DEF Deregister
      <3>2. [slot EXCEPT ![IdOf[c]][RoleOf[c]] = NoConn]
              \in [Ids -> [Roles -> Conns \cup {NoConn}]]
        BY <1>0, SetFieldType DEF TypeOK
      <3> QED
        BY <3>1, <3>2 DEF TypeOK
    <2>4. phase' \in [Conns -> {"new", "rejected", "open", "leaving", "gone"}]
      BY <1>7 DEF Deregister, TypeOK
    <2>5. UNCHANGED <<writer, pending, sent, delivered, stats>>
      BY <1>7 DEF Deregister
    <2> QED
      BY <2>1, <2>2, <2>3, <2>4, <2>5 DEF TypeOK
  <1>8. CASE WriterDeliver(c)
    <2>1. Head(inbox[c]) \in Frames /\ Tail(inbox[c]) \in Seq(Delivery)
      BY <1>8 DEF WriterDeliver, TypeOK, Delivery
    <2> QED
      BY <1>8, <2>1 DEF WriterDeliver, TypeOK
  <1>9. CASE WriterFails(c) \/ WriterCloses(c)
    <2>1. WriterStops(c)
      BY <1>9 DEF WriterFails, WriterCloses
    <2>2. inbox' \in [Conns -> Seq(Delivery)]
      BY <2>1 DEF WriterStops, TypeOK
    <2> QED
      BY <2>1, <2>2 DEF WriterStops, TypeOK
  <1> QED
    BY <1>1, <1>2, <1>3, <1>4, <1>5, <1>6, <1>7, <1>8, <1>9 DEF ConnStep

THEOREM TypeCorrect == Spec => []TypeOK
  <1>1. TypeOK /\ [Next]_vars => TypeOK'
    <2> SUFFICES ASSUME TypeOK, [Next]_vars PROVE TypeOK'
      OBVIOUS
    <2>1. CASE UNCHANGED vars
      BY <2>1 DEF vars, TypeOK
    <2>2. CASE Quiescent
      BY <2>2 DEF Quiescent, vars, TypeOK
    <2> QED
      BY <2>1, <2>2, StepTypeOK DEF Next
  <1> QED
    BY <1>1, InitTypeOK, PTL DEF Spec

----------------------------------------------------------------------------
(***************************************************************************)
(* The slot table.                                                         *)
(***************************************************************************)

\* What one step can do to the table and to the phases: nothing that matters,
\* a registration, or a deregistration.
LEMMA TableStep ==
  ASSUME TypeOK, NEW c \in Conns, ConnStep(c)
  PROVE  \/ /\ UNCHANGED <<keys, slot>>
            /\ \A d \in Conns : Registered(d)' <=> Registered(d)
         \/ Register(c)
         \/ Deregister(c)
  <1>1. CASE Reject(c)
    BY <1>1 DEF Reject, Registered, TypeOK
  <1>2. CASE ReaderEnd(c)
    BY <1>2 DEF ReaderEnd, Registered, TypeOK
  <1>3. CASE Cancel(c)
    BY <1>3 DEF Cancel, Registered, TypeOK
  <1>4. CASE ReadFrame(c) \/ SendToPeer(c) \/ WriterDeliver(c)
    BY <1>4 DEF ReadFrame, SendToPeer, WriterDeliver, Registered
  <1>5. CASE WriterFails(c) \/ WriterCloses(c)
    BY <1>5 DEF WriterFails, WriterCloses, WriterStops, Registered
  <1> QED
    BY <1>1, <1>2, <1>3, <1>4, <1>5 DEF ConnStep

\* An entry with a free field is one whose other field tells whether it is empty.
LEMMA FieldsOfId ==
  ASSUME TypeOK, NEW c \in Conns
  PROVE  (\E r \in Roles : slot[IdOf[c]][r] # NoConn)
           <=> Tx(c) # NoConn \/ PeerTx(c) # NoConn
  BY RoleFacts, TxType DEF Tx, PeerTx

\* A registration fills a free field of the right id and role.
LEMMA RegisterSlotInv ==
  ASSUME IInv, NEW c \in Conns, Register(c)
  PROVE  SlotInv' /\ CapacityRespected'
  <1>0. /\ IdOf[c] \in Ids /\ RoleOf[c] \in Roles
        /\ c # NoConn /\ Tx(c) = NoConn
    BY TxType, RelayAssumption DEF IInv, Register, Occupied
  <1>1. \A i \in Ids : \A r \in Roles :
          slot'[i][r] = IF i = IdOf[c] /\ r = RoleOf[c] THEN c ELSE slot[i][r]
    BY <1>0 DEF IInv, TypeOK, Register
  <1>2. RegisteredHolds'
    <2> SUFFICES ASSUME NEW d \in Conns
                 PROVE  Registered(d)' <=> Holds(d)'
      BY DEF RegisteredHolds
    <2>1. IdOf[d] \in Ids /\ RoleOf[d] \in Roles
      BY RelayAssumption
    <2>2. CASE d = c
      BY <1>0, <1>1, <2>2 DEF IInv, TypeOK, Register, Registered, Holds, Tx
    <2>3. CASE d # c
      <3>1. Registered(d)' <=> Registered(d)
        BY <2>3 DEF IInv, TypeOK, Register, Registered
      <3>2. Holds(d)' <=> Holds(d)
        BY <1>0, <1>1, <2>1, <2>3, RelayAssumption DEF Holds, Tx
      <3> QED
        BY <3>1, <3>2 DEF IInv, SlotInv, RegisteredHolds
    <2> QED
      BY <2>2, <2>3
  <1>3. FieldsOwn'
    BY <1>0, <1>1 DEF IInv, SlotInv, FieldsOwn
  <1>4. KeysExact'
    <2>1. keys' = keys \cup {IdOf[c]}
      BY DEF Register
    <2> SUFFICES ASSUME NEW i \in Ids
                 PROVE  i \in keys' <=> \E r \in Roles : slot'[i][r] # NoConn
      BY DEF KeysExact
    <2>2. CASE i = IdOf[c]
      BY <1>0, <1>1, <2>1, <2>2
    <2>3. CASE i # IdOf[c]
      BY <1>1, <2>1, <2>3 DEF IInv, SlotInv, KeysExact
    <2> QED
      BY <2>2, <2>3
  <1>5. CapacityRespected'
    <2>1. IsFiniteSet(keys) /\ Cardinality(keys) \in Nat
      BY RelayAssumption, FS_Subset, FS_CardinalityType DEF IInv, TypeOK
    <2>2. CASE IdOf[c] \in keys
      BY <2>2 DEF IInv, CapacityRespected, Register
    <2>3. CASE IdOf[c] \notin keys
      <3>1. Cardinality(keys) < MaxTunnels
        BY <2>1, <2>3, RelayAssumption DEF Register, AtCapacity
      <3>2. Cardinality(keys') = Cardinality(keys) + 1
        BY <2>1, <2>3, FS_AddElement DEF Register
      <3> QED
        BY <2>1, <3>1, <3>2, RelayAssumption DEF CapacityRespected
    <2> QED
      BY <2>2, <2>3
  <1> QED
    BY <1>2, <1>3, <1>4, <1>5 DEF SlotInv

\* A deregistration frees the field of the socket that held it, and the entry
\* goes exactly when its other field is free as well.
LEMMA DeregisterSlotInv ==
  ASSUME IInv, NEW c \in Conns, Deregister(c)
  PROVE  SlotInv' /\ CapacityRespected'
  <1>0. /\ IdOf[c] \in Ids /\ RoleOf[c] \in Roles
        /\ Tx(c) = c /\ c # NoConn /\ IdOf[c] \in keys
    <2>1. Tx(c) = c
      BY DEF IInv, SlotInv, RegisteredHolds, Registered, Holds, Deregister
    <2>2. c # NoConn /\ IdOf[c] \in Ids /\ RoleOf[c] \in Roles
      BY RelayAssumption
    <2> QED
      BY <2>1, <2>2 DEF IInv, SlotInv, KeysExact, Tx
  <1>1. /\ slot' = [slot EXCEPT ![IdOf[c]][RoleOf[c]] = NoConn]
        /\ keys' = IF HasPeer(c) THEN keys ELSE keys \ {IdOf[c]}
        /\ phase' = [phase EXCEPT ![c] = "gone"]
    BY <1>0 DEF Deregister, Emptied
  <1>2. \A i \in Ids : \A r \in Roles :
          slot'[i][r] = IF i = IdOf[c] /\ r = RoleOf[c] THEN NoConn ELSE slot[i][r]
    BY <1>0, <1>1 DEF IInv, TypeOK
  <1>3. RegisteredHolds'
    <2> SUFFICES ASSUME NEW d \in Conns
                 PROVE  Registered(d)' <=> Holds(d)'
      BY DEF RegisteredHolds
    <2>1. IdOf[d] \in Ids /\ RoleOf[d] \in Roles /\ d # NoConn
      BY RelayAssumption
    <2>2. CASE d = c
      BY <1>0, <1>1, <1>2, <2>2 DEF IInv, TypeOK, Registered, Holds, Tx
    <2>3. CASE d # c
      <3>1. Registered(d)' <=> Registered(d)
        BY <1>1, <2>3 DEF IInv, TypeOK, Registered
      <3>2. Holds(d)' <=> Holds(d)
        BY <1>0, <1>2, <2>1, <2>3 DEF Holds, Tx
      <3> QED
        BY <3>1, <3>2 DEF IInv, SlotInv, RegisteredHolds
    <2> QED
      BY <2>2, <2>3
  <1>4. FieldsOwn'
    BY <1>0, <1>2 DEF IInv, SlotInv, FieldsOwn
  <1>5. KeysExact'
    <2> SUFFICES ASSUME NEW i \in Ids
                 PROVE  i \in keys' <=> \E r \in Roles : slot'[i][r] # NoConn
      BY DEF KeysExact
    <2>1. CASE i = IdOf[c]
      <3>1. (\E r \in Roles : slot'[i][r] # NoConn) <=> HasPeer(c)
        BY <1>0, <1>2, <2>1, RoleFacts DEF HasPeer, PeerTx
      <3> QED
        BY <1>0, <1>1, <2>1, <3>1
    <2>2. CASE i # IdOf[c]
      BY <1>1, <1>2, <2>2 DEF IInv, SlotInv, KeysExact
    <2> QED
      BY <2>1, <2>2
  <1>6. CapacityRespected'
    <2>1. IsFiniteSet(keys) /\ keys' \subseteq keys
      BY <1>1, RelayAssumption, FS_Subset DEF IInv, TypeOK
    <2>2. Cardinality(keys') <= Cardinality(keys)
      BY <2>1, FS_Subset
    <2>3. Cardinality(keys) \in Nat /\ Cardinality(keys') \in Nat
      BY <2>1, FS_Subset, FS_CardinalityType
    <2> QED
      BY <2>2, <2>3, RelayAssumption DEF IInv, CapacityRespected
  <1> QED
    BY <1>3, <1>4, <1>5, <1>6 DEF SlotInv

\* SlotInv and the capacity bound are inductive relative to TypeOK.
LEMMA InitIInv == Init => IInv
  <1> SUFFICES ASSUME Init PROVE IInv
    OBVIOUS
  <1>1. TypeOK
    BY InitTypeOK
  <1>2. SlotInv
    BY RelayAssumption, RoleFacts
       DEF Init, SlotInv, RegisteredHolds, FieldsOwn, KeysExact,
           Registered, Holds, Tx, EmptySlot
  <1>3. CapacityRespected
    BY FS_EmptySet, RelayAssumption DEF Init, CapacityRespected
  <1> QED
    BY <1>1, <1>2, <1>3 DEF IInv

LEMMA NextIInv == IInv /\ [Next]_vars => IInv'
  <1> SUFFICES ASSUME IInv, [Next]_vars PROVE IInv'
    OBVIOUS
  <1>1. CASE UNCHANGED vars \/ Quiescent
    BY <1>1 DEF vars, Quiescent, IInv, TypeOK, SlotInv, CapacityRespected,
                RegisteredHolds, FieldsOwn, KeysExact, Registered, Holds, Tx
  <1>2. ASSUME NEW c \in Conns, ConnStep(c) PROVE IInv'
    <2>1. TypeOK'
      BY <1>2, StepTypeOK DEF IInv
    <2>2. CASE Register(c)
      BY <2>1, <2>2, RegisterSlotInv DEF IInv
    <2>3. CASE Deregister(c)
      BY <2>1, <2>3, DeregisterSlotInv DEF IInv
    <2>4. CASE /\ UNCHANGED <<keys, slot>>
               /\ \A d \in Conns : Registered(d)' <=> Registered(d)
      BY <2>1, <2>4 DEF IInv, SlotInv, CapacityRespected, RegisteredHolds,
                        FieldsOwn, KeysExact, Holds, Tx
    <2> QED
      BY <1>2, <2>2, <2>3, <2>4, TableStep DEF IInv
  <1> QED
    BY <1>1, <1>2 DEF Next

\* The table is an exact picture of the registered sockets, always.
THEOREM TableCorrect == Spec => []IInv
  BY InitIInv, NextIInv, PTL DEF Spec

\* No two sockets are ever registered for the same role of the same id.
THEOREM RolesExclusive == Spec => []ExclusiveRole
  <1>1. IInv => ExclusiveRole
    BY DEF IInv, SlotInv, RegisteredHolds, Holds, Tx, ExclusiveRole
  <1> QED
    BY <1>1, TableCorrect, PTL

\* An id stays in the map exactly as long as a socket is registered for it.
THEOREM SlotsNeverLeak == Spec => []NoLeakedSlot
  <1>1. ASSUME IInv PROVE NoLeakedSlot
    <2> SUFFICES ASSUME NEW i \in Ids
                 PROVE  i \in keys <=> \E c \in Conns : Registered(c) /\ IdOf[c] = i
      BY DEF NoLeakedSlot
    <2>1. ASSUME i \in keys PROVE \E c \in Conns : Registered(c) /\ IdOf[c] = i
      <3>1. PICK r \in Roles : slot[i][r] # NoConn
        BY <1>1, <2>1 DEF IInv, SlotInv, KeysExact
      <3>2. slot[i][r] \in Conns /\ IdOf[slot[i][r]] = i /\ RoleOf[slot[i][r]] = r
        BY <1>1, <3>1 DEF IInv, TypeOK, SlotInv, FieldsOwn
      <3> QED
        BY <1>1, <3>2 DEF IInv, SlotInv, RegisteredHolds, Holds, Tx
    <2>2. ASSUME NEW c \in Conns, Registered(c), IdOf[c] = i PROVE i \in keys
      <3>1. slot[i][RoleOf[c]] = c /\ RoleOf[c] \in Roles /\ c # NoConn
        BY <1>1, <2>2, RelayAssumption
           DEF IInv, SlotInv, RegisteredHolds, Holds, Tx
      <3> QED
        BY <1>1, <3>1 DEF IInv, SlotInv, KeysExact
    <2> QED
      BY <2>1, <2>2
  <1> QED
    BY <1>1, TableCorrect, PTL

\* The map never outgrows MAX_TUNNELS.
THEOREM CapacityHolds == Spec => []CapacityRespected
  <1>1. IInv => CapacityRespected
    BY DEF IInv
  <1> QED
    BY <1>1, TableCorrect, PTL

\* Only a socket's own deregister takes its Tx out of the table.
THEOREM OwnersRelease == Spec => OnlyOwnerReleases
  <1> DEFINE Releases == \A c \in Conns : Holds(c) /\ ~Holds(c)' =>
                           phase[c] = "leaving" /\ phase'[c] = "gone"
  <1>1. IInv /\ IInv' /\ [Next]_vars => [Releases]_vars
    <2> SUFFICES ASSUME IInv, IInv', Next, NEW d \in Conns, Holds(d), ~Holds(d)'
                 PROVE  phase[d] = "leaving" /\ phase'[d] = "gone"
      OBVIOUS
    <2>0. Registered(d) /\ ~Registered(d)'
      BY DEF IInv, SlotInv, RegisteredHolds
    <2>1. PICK c \in Conns : ConnStep(c)
      BY <2>0 DEF Next, Quiescent, vars, Registered
    <2>2. CASE Register(c)
      BY <2>0, <2>2 DEF Register, Registered, IInv, TypeOK
    <2>3. CASE Deregister(c)
      BY <2>0, <2>3 DEF Deregister, Registered, IInv, TypeOK
    <2> QED
      BY <2>0, <2>1, <2>2, <2>3, TableStep DEF IInv
  <1> QED
    BY <1>1, TableCorrect, PTL DEF Spec, OnlyOwnerReleases

----------------------------------------------------------------------------
(***************************************************************************)
(* OnePeerPerSocket and NoGap of Relay: what a socket is written comes     *)
(* from one peer, in order and without a gap, for any number of sockets    *)
(* and frames.                                                             *)
(*                                                                         *)
(* The line of a socket is what has been written to it with what is queued *)
(* behind.  A delivery only moves along it.  As long as no Close is in it, *)
(* its frames are those of one socket, which is still registered if this   *)
(* one is (its deregister would have queued the Close), and the clone that *)
(* is about to be sent is the next frame.  What is pushed after a Close    *)
(* may be anything: it is never written.                                   *)
(***************************************************************************)

Line(c) == delivered[c] \o inbox[c]

Clean(s) == \A k \in 1..Len(s) : s[k] # Close

\* Up to any Close, frames of one socket with consecutive numbers.
InLine(s) ==
  \A k \in 2..Len(s) :
    (\A j \in 1..k : s[j] # Close) => s[k].from = s[1].from /\ s[k].n = s[k - 1].n + 1

\* What may come next in a line.
Follows(s, d) ==
  Clean(s) /\ s # <<>> /\ d # Close => d.from = s[1].from /\ d.n = s[Len(s)].n + 1

\* A clone in use is of a socket that reads, towards its opposite role.
Opposite(c, d) == IdOf[c] = IdOf[d] /\ RoleOf[c] = PeerRole(RoleOf[d])
PendingOpen ==
  \A d \in Conns : pending[d] # Nothing =>
    /\ phase[d] = "open"
    /\ pending[d].frame.from = d /\ pending[d].frame.n = sent[d]
    /\ Opposite(pending[d].to, d)

\* Nothing is written or queued before a socket is registered.
Fresh ==
  \A c \in Conns :
    /\ writer[c] = "none" => Line(c) = <<>>
    /\ phase[c] = "new" => writer[c] = "none"

\* The line continues with the clone in use; a registered socket is fed by its
\* registered peer, which has sent nothing else since.
Feeds(x, c, n) ==
  /\ Registered(x) /\ Opposite(x, c)
  /\ IF pending[x] = Nothing THEN sent[x] = n ELSE pending[x].to = c
Link(c) ==
  CanHear(c) /\ Clean(Line(c)) /\ Line(c) # <<>> =>
    /\ \A d \in Conns : pending[d].to = c =>
         d = Line(c)[1].from /\ pending[d].frame.n = Line(c)[Len(Line(c))].n + 1
    /\ Registered(c) =>
         Line(c)[1].from \in Conns
         /\ Feeds(Line(c)[1].from, c, Line(c)[Len(Line(c))].n)

OrderInv ==
  /\ PendingOpen
  /\ Fresh
  /\ \A c \in Conns : InLine(Line(c)) /\ Link(c)

----------------------------------------------------------------------------
(***************************************************************************)
(* Lines as sequences.                                                     *)
(***************************************************************************)
LEMMA LineType ==
  ASSUME TypeOK, NEW c \in Conns
  PROVE  /\ Line(c) \in Seq(Delivery)
         /\ delivered[c] \in Seq(Delivery) /\ inbox[c] \in Seq(Delivery)
         /\ Len(Line(c)) = Len(delivered[c]) + Len(inbox[c])
  <1>1. delivered[c] \in Seq(Frames)
    BY DEF TypeOK
  <1>2. delivered[c] \in Seq(Delivery)
    BY <1>1 DEF Delivery
  <1>3. inbox[c] \in Seq(Delivery)
    BY DEF TypeOK
  <1> QED
    BY <1>2, <1>3 DEF Line

\* A delivery that is written moves along its line.
LEMMA MoveHead ==
  ASSUME NEW a \in Seq(Delivery), NEW b \in Seq(Delivery), b # <<>>
  PROVE  Append(a, Head(b)) \o Tail(b) = a \o b
  OBVIOUS

\* One that is queued is put at its end.
LEMMA PutLast ==
  ASSUME NEW a \in Seq(Delivery), NEW b \in Seq(Delivery), NEW d \in Delivery
  PROVE  a \o Append(b, d) = Append(a \o b, d)
  OBVIOUS

LEMMA CleanAppend ==
  ASSUME NEW s \in Seq(Delivery), NEW d \in Delivery
  PROVE  Clean(Append(s, d)) <=> Clean(s) /\ d # Close
  BY DEF Clean

LEMMA InLineAppend ==
  ASSUME NEW s \in Seq(Delivery), NEW d \in Delivery, InLine(s), Follows(s, d)
  PROVE  InLine(Append(s, d))
  <1> DEFINE t == Append(s, d)
  <1>1. /\ Len(s) \in Nat /\ Len(t) = Len(s) + 1
        /\ t[Len(s) + 1] = d /\ \A k \in 1..Len(s) : t[k] = s[k]
    OBVIOUS
  <1> HIDE DEF t
  <1> SUFFICES ASSUME NEW k \in 2..Len(t), \A j \in 1..k : t[j] # Close
               PROVE  t[k].from = t[1].from /\ t[k].n = t[k - 1].n + 1
    BY DEF InLine, t
  <1>2. CASE k <= Len(s)
    BY <1>1, <1>2 DEF InLine
  <1>3. CASE k = Len(s) + 1
    <2>1. Clean(s) /\ s # <<>> /\ d # Close
      BY <1>1, <1>3 DEF Clean
    <2>2. d.from = s[1].from /\ d.n = s[Len(s)].n + 1
      BY <2>1 DEF Follows
    <2> QED
      BY <1>1, <1>3, <2>2
  <1> QED
    BY <1>1, <1>2, <1>3

\* What has been written is the beginning of the line.
LEMMA InLinePrefix ==
  ASSUME NEW a \in Seq(Delivery), NEW b \in Seq(Delivery), InLine(a \o b)
  PROVE  InLine(a)
  <1>1. Len(a \o b) = Len(a) + Len(b) /\ \A k \in 1..Len(a) : (a \o b)[k] = a[k]
    OBVIOUS
  <1> QED
    BY <1>1 DEF InLine

\* How a push changes the line of the socket pushed to, and of any other.
LEMMA PushLine ==
  ASSUME TypeOK, NEW p \in Conns, NEW d \in Delivery, UNCHANGED delivered,
         inbox' = Push(inbox, p, d), NEW c \in Conns
  PROVE  IF c = p /\ CanHear(p) THEN Line(c)' = Append(Line(c), d)
                                ELSE Line(c)' = Line(c)
  <1>1. CASE c = p /\ CanHear(p)
    <2>1. inbox'[c] = Append(inbox[c], d)
      BY <1>1 DEF Push, TypeOK
    <2>2. delivered[c] \o Append(inbox[c], d) = Append(delivered[c] \o inbox[c], d)
      BY PutLast, LineType
    <2> QED
      BY <1>1, <2>1, <2>2 DEF Line
  <1>2. CASE ~(c = p /\ CanHear(p))
    BY <1>2 DEF Push, TypeOK, Line
  <1> QED
    BY <1>1, <1>2

----------------------------------------------------------------------------
(***************************************************************************)
(* Peers.                                                                  *)
(***************************************************************************)

\* Registered sockets of opposite roles are each other's peers in the table.
LEMMA PeersSee ==
  ASSUME IInv, NEW c \in Conns, NEW d \in Conns, Registered(c), Opposite(c, d)
  PROVE  PeerTx(d) = c /\ HasPeer(d) /\ Opposite(d, c)
  BY RoleFacts, RelayAssumption
     DEF IInv, SlotInv, RegisteredHolds, Holds, Tx, PeerTx, HasPeer, Opposite, Roles, PeerRole

\* A peer found in the table is a registered socket of the opposite role.
LEMMA PeerFound ==
  ASSUME IInv, NEW d \in Conns, HasPeer(d)
  PROVE  PeerTx(d) \in Conns /\ Registered(PeerTx(d)) /\ Opposite(PeerTx(d), d)
  BY TxType, RoleFacts, RelayAssumption
     DEF IInv, SlotInv, RegisteredHolds, FieldsOwn, Holds, Tx, PeerTx, HasPeer, Opposite

\* A socket has one registered peer.
LEMMA OnePeer ==
  ASSUME IInv, NEW c \in Conns, NEW d \in Conns, NEW x \in Conns,
         Registered(d), Registered(x), Opposite(c, d), Opposite(x, c)
  PROVE  d = x
  BY RoleFacts, RelayAssumption
     DEF IInv, SlotInv, RegisteredHolds, Holds, Tx, Opposite, Roles, PeerRole

----------------------------------------------------------------------------
(***************************************************************************)
(* Steps.                                                                  *)
(***************************************************************************)
LEMMA OrderInit == Init => OrderInv
  <1> SUFFICES ASSUME Init PROVE OrderInv
    OBVIOUS
  <1>1. ASSUME NEW c \in Conns PROVE Line(c) = <<>>
    BY DEF Init, Line
  <1> QED
    BY <1>1, RelayAssumption
       DEF Init, OrderInv, PendingOpen, Fresh, InLine, Link, CanHear, Nothing

LEMMA PendingStep ==
  ASSUME IInv, PendingOpen, NEW c \in Conns, ConnStep(c)
  PROVE  PendingOpen'
  <1> USE DEF PendingOpen, IInv, TypeOK
  <1>1. CASE Register(c) \/ Reject(c)
    BY <1>1 DEF Register, Reject, Opposite
  <1>2. CASE ReadFrame(c)
    <2>1. HasPeer(c) => Opposite(PeerTx(c), c)
      BY PeerFound
    <2> QED
      BY <1>2, <2>1 DEF ReadFrame, CloneFor, Opposite
  <1>3. CASE SendToPeer(c)
    BY <1>3 DEF SendToPeer, Opposite
  <1>4. CASE ReaderEnd(c) \/ Cancel(c)
    BY <1>4 DEF ReaderEnd, Cancel, Opposite
  <1>5. CASE Deregister(c)
    BY <1>5 DEF Deregister, Opposite
  <1>6. CASE WriterDeliver(c) \/ WriterFails(c) \/ WriterCloses(c)
    BY <1>6 DEF WriterDeliver, WriterFails, WriterCloses, WriterStops, Opposite
  <1> QED
    BY <1>1, <1>2, <1>3, <1>4, <1>5, <1>6 DEF ConnStep

\* What the steps that send nothing do to a line: nothing or, when the pump ends,
\* what was not written falls off.
Same(c)  == Line(c)' = Line(c) /\ writer'[c] = writer[c]
Stops(c) == Line(c)' = delivered[c] /\ writer'[c] = "done"

LEMMA PumpSteps ==
  ASSUME TypeOK, NEW m \in Conns, NEW c \in Conns
  PROVE  /\ WriterDeliver(m) => Same(c)
         /\ ReaderEnd(m) \/ WriterFails(m) \/ WriterCloses(m) =>
              IF c = m THEN Stops(c) ELSE Same(c)
         /\ Reject(m) \/ ReadFrame(m) \/ Cancel(m) => Same(c)
         /\ Register(m) => Line(c)' = Line(c) /\ (c # m => Same(c))
  <1>1. ASSUME WriterDeliver(m) PROVE Same(c)
    <2>1. CASE c = m
      <3>1. delivered'[c] \o inbox'[c] = Append(delivered[c], Head(inbox[c])) \o Tail(inbox[c])
        BY <1>1, <2>1 DEF WriterDeliver, TypeOK
      <3>2. inbox[c] # <<>>
        BY <1>1, <2>1 DEF WriterDeliver
      <3>3. Append(delivered[c], Head(inbox[c])) \o Tail(inbox[c]) = delivered[c] \o inbox[c]
        BY <3>2, MoveHead, LineType
      <3> QED
        BY <1>1, <3>1, <3>3 DEF Line, Same, WriterDeliver
    <2>2. CASE c # m
      BY <1>1, <2>2 DEF WriterDeliver, TypeOK, Line, Same
    <2> QED
      BY <2>1, <2>2
  <1>2. ASSUME ReaderEnd(m) \/ WriterFails(m) \/ WriterCloses(m)
        PROVE  IF c = m THEN Stops(c) ELSE Same(c)
    <2>1. c = m => delivered'[c] = delivered[c] /\ inbox'[c] = <<>> /\ writer'[c] = "done"
      BY <1>2 DEF ReaderEnd, WriterFails, WriterCloses, WriterStops, TypeOK
    <2>2. c # m => Same(c)
      BY <1>2 DEF ReaderEnd, WriterFails, WriterCloses, WriterStops, TypeOK, Line, Same
    <2>3. delivered[c] \o <<>> = delivered[c]
      BY LineType
    <2> QED
      BY <2>1, <2>2, <2>3 DEF Line, Stops
  <1>3. Reject(m) \/ ReadFrame(m) \/ Cancel(m) => Same(c)
    BY DEF Reject, ReadFrame, Cancel, Line, Same
  <1>4. Register(m) => Line(c)' = Line(c) /\ (c # m => Same(c))
    BY DEF Register, Line, Same, TypeOK
  <1> QED
    BY <1>1, <1>2, <1>3, <1>4

\* A line that is cut is still in order, and nothing is linked to it any more.
LEMMA StopsInOrder ==
  ASSUME TypeOK, NEW c \in Conns, InLine(Line(c)), Stops(c)
  PROVE  InLine(Line(c))' /\ Link(c)'
  <1>1. InLine(delivered[c])
    BY InLinePrefix, LineType DEF Line
  <1> QED
    BY <1>1 DEF Stops, InLine, Link, CanHear

\* A line that does not change stays linked if no clone, no count and no
\* registration it depends on does.
LEMMA SameInOrder ==
  ASSUME TypeOK, NEW c \in Conns, InLine(Line(c)), Link(c), Same(c),
         UNCHANGED <<pending, sent>>,
         \A d \in Conns : Registered(d)' <=> Registered(d)
  PROVE  InLine(Line(c))' /\ Link(c)'
  <1>1. InLine(Line(c))'
    BY DEF Same, InLine
  <1>2. Link(c)'
    BY DEF Same, Link, CanHear, Clean, Feeds, Opposite
  <1> QED
    BY <1>1, <1>2

LEMMA RegisterOrder ==
  ASSUME IInv, OrderInv, NEW m \in Conns, Register(m), NEW c \in Conns
  PROVE  InLine(Line(c))' /\ Link(c)'
  <1>1. InLine(Line(c))'
    BY PumpSteps DEF IInv, OrderInv, InLine
  <1>2. \A d \in Conns : d # m => (Registered(d)' <=> Registered(d))
    BY DEF Register, Registered, IInv, TypeOK
  <1>3. Registered(m)' /\ ~Registered(m)
    BY DEF Register, Registered, IInv, TypeOK
  <1>4. Link(c)'
    <2>1. CASE c = m
      <3>1. Line(c)' = <<>>
        BY <2>1, PumpSteps DEF Register, IInv, OrderInv, Fresh
      <3> QED
        BY <3>1 DEF Link
    <2>2. CASE c # m
      <3>1. Same(c) /\ Link(c)
        BY <2>2, PumpSteps DEF IInv, OrderInv
      <3>2. pending' = pending /\ sent' = sent
        BY DEF Register
      <3> QED
        BY <1>2, <1>3, <2>2, <3>1, <3>2 DEF Same, Link, CanHear, Clean, Feeds, Opposite
    <2> QED
      BY <2>1, <2>2
  <1> QED
    BY <1>1, <1>4

\* A clone is the next frame of the line it is for: no other socket can feed it.
LEMMA ReadFrameOrder ==
  ASSUME IInv, OrderInv, NEW m \in Conns, ReadFrame(m), NEW c \in Conns
  PROVE  InLine(Line(c))' /\ Link(c)'
  <1>1. Same(c) /\ InLine(Line(c)) /\ Link(c)
    BY PumpSteps DEF IInv, OrderInv
  <1>2. InLine(Line(c))'
    BY <1>1 DEF Same, InLine
  <1>3. \A d \in Conns : Registered(d)' <=> Registered(d)
    BY DEF ReadFrame, Registered
  <1>4. \A d \in Conns : d # m => pending'[d] = pending[d] /\ sent'[d] = sent[d]
    BY DEF ReadFrame, IInv, TypeOK
  <1>5. sent'[m] = sent[m] + 1 /\ pending[m] = Nothing
        /\ pending'[m] = IF HasPeer(m) THEN CloneFor(m) ELSE Nothing
    BY DEF ReadFrame, IInv, TypeOK
  <1>6. Registered(m)
    BY DEF ReadFrame, Registered
  <1>7. SUFFICES ASSUME CanHear(c), Clean(Line(c)), Line(c) # <<>>
                 PROVE  Link(c)'
    BY <1>1, <1>2 DEF Same, Link, CanHear, Clean
  <1> DEFINE x == Line(c)[1].from
             n == Line(c)[Len(Line(c))].n
  <1>8. /\ \A d \in Conns : pending[d].to = c => d = x /\ pending[d].frame.n = n + 1
        /\ Registered(c) => x \in Conns /\ Feeds(x, c, n)
    BY <1>1, <1>7 DEF Link
  <1>a. x' = x /\ n' = n
    BY <1>1 DEF Same
  <1> HIDE DEF x, n
  <1>9. pending'[m].to = c => Registered(c) /\ Opposite(c, m) /\ PeerTx(m) = c /\ HasPeer(m)
    BY <1>5, PeerFound, RelayAssumption DEF CloneFor, Nothing
  <1>10. pending'[m].to = c => m = x /\ pending'[m].frame.n = n + 1
    <2> SUFFICES ASSUME pending'[m].to = c PROVE m = x /\ pending'[m].frame.n = n + 1
      OBVIOUS
    <2>1. m = x
      BY <1>6, <1>8, <1>9, OnePeer DEF Feeds
    <2>2. sent[m] = n
      BY <1>5, <1>8, <1>9, <2>1 DEF Feeds
    <2> QED
      BY <1>5, <1>9, <2>1, <2>2 DEF CloneFor
  <1>11. Registered(c) /\ x = m => pending'[m].to = c /\ pending'[m] # Nothing
    <2> SUFFICES ASSUME Registered(c), x = m PROVE pending'[m].to = c /\ pending'[m] # Nothing
      OBVIOUS
    <2>1. Opposite(c, m)
      BY <1>8, RoleFacts, RelayAssumption DEF Feeds, Opposite, Roles, PeerRole
    <2>2. PeerTx(m) = c /\ HasPeer(m)
      BY <2>1, PeersSee
    <2> QED
      BY <1>5, <2>2, RelayAssumption DEF CloneFor, Nothing
  <1>12. Registered(c)' => x \in Conns /\ Feeds(x, c, n)'
    <2> SUFFICES ASSUME Registered(c)' PROVE x \in Conns /\ Feeds(x, c, n)'
      OBVIOUS
    <2>1. x \in Conns /\ Feeds(x, c, n) /\ Registered(x)'
      BY <1>3, <1>8, <1>a DEF Feeds, Registered
    <2>2. CASE x = m
      BY <1>3, <1>11, <1>a, <2>1, <2>2 DEF Feeds, Opposite
    <2>3. CASE x # m
      BY <1>4, <1>a, <2>1, <2>3 DEF Feeds, Opposite
    <2> QED
      BY <2>2, <2>3
  <1>13. \A d \in Conns : pending'[d].to = c => d = x /\ pending'[d].frame.n = n + 1
    BY <1>4, <1>8, <1>10
  <1> QED
    BY <1>1, <1>a, <1>12, <1>13 DEF Link, x, n

\* A clone that is sent was the next frame; the count of its sender is its number.
LEMMA SendOrder ==
  ASSUME IInv, OrderInv, NEW m \in Conns, SendToPeer(m), NEW c \in Conns
  PROVE  InLine(Line(c))' /\ Link(c)'
  <1> DEFINE p == pending[m].to
             f == pending[m].frame
             l == Line(c)
  <1>1. /\ p \in Conns /\ f \in Frames /\ f # Close /\ Close \notin Frames
        /\ phase[m] = "open" /\ f.from = m /\ f.n = sent[m] /\ Opposite(p, m)
    BY RoleFacts, RelayAssumption
       DEF SendToPeer, IInv, TypeOK, OrderInv, PendingOpen, Nothing, Close
  <1>2. InLine(l) /\ Link(c) /\ l \in Seq(Delivery) /\ f \in Delivery
    BY <1>1, LineType DEF IInv, OrderInv, Delivery
  <1>3. /\ \A d \in Conns : (Registered(d)' <=> Registered(d))
        /\ \A d \in Conns : d # m => pending'[d] = pending[d]
        /\ pending'[m] = Nothing /\ sent' = sent /\ writer' = writer
    BY DEF SendToPeer, Registered, IInv, TypeOK
  <1>4. IF c = p /\ CanHear(p) THEN Line(c)' = Append(l, f) ELSE Line(c)' = l
    BY <1>1, <1>2, PushLine DEF SendToPeer, IInv
  <1> HIDE DEF p, f, l
  <1>5. CASE c = p /\ CanHear(p)
    <2>1. Follows(l, f)
      BY <1>1, <1>2, <1>5 DEF Follows, Link, l, p, f
    <2>2. InLine(Append(l, f))
      BY <1>2, <2>1, InLineAppend
    <2>3. /\ Len(l) \in Nat /\ Len(Append(l, f)) = Len(l) + 1 /\ Append(l, f)[Len(l) + 1] = f
          /\ l # <<>> => Append(l, f)[1] = l[1]
          /\ l = <<>> => Append(l, f)[1] = f
      BY <1>2
    <2>4. ASSUME Clean(Append(l, f))
          PROVE  Append(l, f)[1].from = m
      <3>1. Clean(l)
        BY <1>2, <2>4, CleanAppend
      <3> QED
        BY <1>1, <2>1, <2>3, <3>1 DEF Follows
    <2>5. \A d \in Conns : pending[d].to = c => d = m
      <3> SUFFICES ASSUME NEW d \in Conns, pending[d].to = c PROVE d = m
        OBVIOUS
      <3>1. pending[d] # Nothing
        BY RelayAssumption DEF Nothing
      <3>2. Registered(d) /\ Opposite(c, d) /\ Registered(m) /\ Opposite(c, m)
        BY <1>1, <1>5, <3>1 DEF OrderInv, PendingOpen, Registered
      <3>3. Opposite(m, c)
        BY <3>2, RoleFacts, RelayAssumption DEF Opposite, Roles, PeerRole
      <3> QED
        BY <3>2, <3>3, OnePeer
    <2>6. \A d \in Conns : pending'[d].to # c
      BY <1>3, <2>5, RelayAssumption DEF Nothing
    <2>7. Registered(m)' /\ Opposite(m, c)'
      BY <1>1, <1>3, <1>5, RoleFacts, RelayAssumption DEF Registered, Opposite, Roles, PeerRole
    <2>8. pending'[m] = Nothing /\ sent'[m] = f.n
      BY <1>1, <1>3
    <2>9. Line(c)' = Append(l, f)
      BY <1>4, <1>5
    <2>10. Link(c)'
      BY <1>1, <1>3, <2>3, <2>4, <2>6, <2>7, <2>8, <2>9 DEF Link, Feeds, Opposite
    <2> QED
      BY <2>2, <2>9, <2>10 DEF InLine
  <1>6. CASE ~(c = p /\ CanHear(p))
    <2>1. Line(c)' = l
      BY <1>4, <1>6
    <2>2. InLine(Line(c))'
      BY <1>2, <2>1 DEF InLine
    <2>3. SUFFICES ASSUME CanHear(c), Clean(l), l # <<>>
                   PROVE  Link(c)'
      BY <1>3, <2>1, <2>2 DEF Link, CanHear, Clean
    <2>4. c # p
      BY <1>6, <2>3
    <2>5. /\ \A d \in Conns : pending[d].to = c => d = l[1].from /\ pending[d].frame.n = l[Len(l)].n + 1
          /\ Registered(c) => l[1].from \in Conns /\ Feeds(l[1].from, c, l[Len(l)].n)
      BY <1>2, <2>3 DEF Link, l
    <2>6. \A d \in Conns : pending'[d].to = c => pending[d].to = c /\ pending'[d] = pending[d]
      BY <1>3, RelayAssumption DEF Nothing
    <2>7. Registered(c) => l[1].from # m
      BY <1>1, <2>4, <2>5, RelayAssumption DEF Feeds, p, Nothing
    <2>8. Registered(c)' => l[1].from \in Conns /\ Feeds(l[1].from, c, l[Len(l)].n)'
      BY <1>3, <2>1, <2>5, <2>7 DEF Feeds, Opposite, l
    <2> QED
      BY <2>1, <2>5, <2>6, <2>8 DEF Link, l
  <1> QED
    BY <1>5, <1>6

\* A socket whose peer deregisters gets its Close; one that deregisters itself
\* needs no feed any more.
LEMMA DeregisterOrder ==
  ASSUME IInv, OrderInv, NEW m \in Conns, Deregister(m), NEW c \in Conns
  PROVE  InLine(Line(c))' /\ Link(c)'
  <1> DEFINE l == Line(c)
  <1>1. InLine(l) /\ Link(c) /\ l \in Seq(Delivery) /\ Close \in Delivery
    BY LineType DEF IInv, OrderInv, Delivery
  <1>2. /\ UNCHANGED <<pending, sent, delivered, writer>>
        /\ \A d \in Conns : d # m => (Registered(d)' <=> Registered(d))
        /\ Registered(m) /\ ~Registered(m)'
    BY DEF Deregister, Registered, IInv, TypeOK
  <1>3. IdOf[m] \in keys
    BY <1>2, RelayAssumption
       DEF IInv, SlotInv, RegisteredHolds, Holds, Tx, KeysExact
  <1>4. IF HasPeer(m) THEN inbox' = Push(inbox, PeerTx(m), Close) ELSE inbox' = inbox
    BY <1>3 DEF Deregister, CloseQueued
  <1>5. Line(c)' = IF HasPeer(m) /\ c = PeerTx(m) /\ CanHear(c) THEN Append(l, Close) ELSE l
    <2>1. CASE HasPeer(m)
      <3>1. PeerTx(m) \in Conns
        BY <2>1, PeerFound
      <3> QED
        BY <1>1, <1>2, <1>4, <2>1, <3>1, PushLine DEF IInv
    <2>2. CASE ~HasPeer(m)
      BY <1>2, <1>4, <2>2 DEF Line
    <2> QED
      BY <2>1, <2>2
  <1> HIDE DEF l
  <1>6. CASE HasPeer(m) /\ c = PeerTx(m) /\ CanHear(c)
    <2>1. Line(c)' = Append(l, Close)
      BY <1>5, <1>6
    <2>2. InLine(Append(l, Close)) /\ ~Clean(Append(l, Close))
      BY <1>1, InLineAppend, CleanAppend DEF Follows
    <2> QED
      BY <2>1, <2>2 DEF InLine, Link, Clean
  <1>7. CASE ~(HasPeer(m) /\ c = PeerTx(m) /\ CanHear(c))
    <2>1. Line(c)' = l
      BY <1>5, <1>7
    <2>2. InLine(Line(c))'
      BY <1>1, <2>1 DEF InLine
    <2>3. SUFFICES ASSUME CanHear(c), Clean(l), l # <<>>
                   PROVE  Link(c)'
      BY <1>2, <2>1, <2>2 DEF Link, CanHear, Clean
    <2>4. /\ \A d \in Conns : pending[d].to = c => d = l[1].from /\ pending[d].frame.n = l[Len(l)].n + 1
          /\ Registered(c) => l[1].from \in Conns /\ Feeds(l[1].from, c, l[Len(l)].n)
      BY <1>1, <2>3 DEF Link, l
    <2>5. Registered(c)' => Registered(c) /\ l[1].from # m
      <3> SUFFICES ASSUME Registered(c)', l[1].from = m PROVE FALSE
        BY <1>2
      <3>1. Registered(c)
        BY <1>2
      <3>2. Opposite(m, c)
        BY <2>4, <3>1 DEF Feeds
      <3>3. Opposite(c, m)
        BY <3>2, RoleFacts, RelayAssumption DEF Opposite, Roles, PeerRole
      <3>4. PeerTx(m) = c /\ HasPeer(m)
        BY <3>1, <3>3, PeersSee
      <3> QED
        BY <1>7, <2>3, <3>4
    <2>6. Registered(c)' => l[1].from \in Conns /\ Feeds(l[1].from, c, l[Len(l)].n)'
      BY <1>2, <2>1, <2>4, <2>5 DEF Feeds, Opposite, Registered, l
    <2> QED
      BY <1>2, <2>1, <2>4, <2>6 DEF Link, l
  <1> QED
    BY <1>6, <1>7

LEMMA FreshStep ==
  ASSUME IInv, OrderInv, NEW m \in Conns, ConnStep(m)
  PROVE  Fresh'
  <1> SUFFICES ASSUME NEW c \in Conns
               PROVE  /\ writer'[c] = "none" => Line(c)' = <<>>
                      /\ phase'[c] = "new" => writer'[c] = "none"
    BY DEF Fresh
  <1>0. TypeOK /\ (writer[c] = "none" => Line(c) = <<>>) /\ (phase[c] = "new" => writer[c] = "none")
    BY DEF IInv, OrderInv, Fresh
  <1>1. CASE Register(m)
    BY <1>0, <1>1, PumpSteps DEF Same, Register, TypeOK
  <1>2. CASE Reject(m) \/ ReadFrame(m) \/ Cancel(m) \/ WriterDeliver(m)
    <2>1. Same(c)
      BY <1>0, <1>2, PumpSteps
    <2>2. phase'[c] = "new" => phase[c] = "new"
      BY <1>0, <1>2 DEF Reject, ReadFrame, Cancel, WriterDeliver, TypeOK
    <2> QED
      BY <1>0, <2>1, <2>2 DEF Same
  <1>3. CASE ReaderEnd(m) \/ WriterFails(m) \/ WriterCloses(m)
    <2>1. IF c = m THEN Stops(c) ELSE Same(c)
      BY <1>0, <1>3, PumpSteps
    <2>2. /\ phase'[c] = "new" => phase[c] = "new"
          /\ c = m => phase[c] = "open" \/ writer[c] = "pump"
      BY <1>0, <1>3 DEF ReaderEnd, WriterFails, WriterCloses, WriterStops, TypeOK
    <2>3. c = m => phase'[c] # "new"
      BY <1>0, <2>2, <1>3 DEF ReaderEnd, WriterFails, WriterCloses, WriterStops, TypeOK
    <2> QED
      BY <1>0, <2>1, <2>2, <2>3 DEF Same, Stops
  <1>4. CASE SendToPeer(m) \/ Deregister(m)
    <2>1. /\ phase'[c] = "new" => phase[c] = "new"
          /\ writer' = writer
      BY <1>0, <1>4 DEF SendToPeer, Deregister, TypeOK
    <2>2. writer[c] = "none" => Line(c)' = Line(c)
      <3> SUFFICES ASSUME writer[c] = "none" PROVE inbox'[c] = inbox[c] /\ delivered'[c] = delivered[c]
        BY DEF Line
      <3> QED
        BY <1>0, <1>4 DEF SendToPeer, Deregister, CloseQueued, Push, CanHear, TypeOK
    <2> QED
      BY <1>0, <2>1, <2>2
  <1> QED
    BY <1>1, <1>2, <1>3, <1>4 DEF ConnStep

\* One step of one socket, for every line.
LEMMA OrderStep ==
  ASSUME IInv, OrderInv, [Next]_vars
  PROVE  OrderInv'
  <1>1. ASSUME NEW m \in Conns, ConnStep(m) PROVE OrderInv'
    <2>1. PendingOpen' /\ Fresh'
      BY <1>1, PendingStep, FreshStep DEF OrderInv
    <2>2. ASSUME NEW c \in Conns PROVE InLine(Line(c))' /\ Link(c)'
      <3>0. TypeOK /\ InLine(Line(c)) /\ Link(c)
        BY DEF IInv, OrderInv
      <3>1. CASE Register(m) \/ ReadFrame(m) \/ SendToPeer(m) \/ Deregister(m)
        BY <3>1, RegisterOrder, ReadFrameOrder, SendOrder, DeregisterOrder
      <3>2. CASE ReaderEnd(m) \/ Reject(m) \/ Cancel(m) \/ WriterDeliver(m) \/ WriterFails(m) \/ WriterCloses(m)
        <4>1. Same(c) \/ Stops(c)
          BY <3>0, <3>2, PumpSteps
        <4>2. UNCHANGED <<pending, sent>>
          BY <3>2 DEF ReaderEnd, Reject, Cancel, WriterDeliver, WriterFails, WriterCloses, WriterStops
        <4>3. \A d \in Conns : Registered(d)' <=> Registered(d)
          BY <3>0, <3>2 DEF ReaderEnd, Reject, Cancel, WriterDeliver, WriterFails, WriterCloses,
                           WriterStops, Registered, TypeOK
        <4> QED
          BY <3>0, <4>1, <4>2, <4>3, SameInOrder, StopsInOrder
      <3> QED
        BY <1>1, <3>1, <3>2 DEF ConnStep
    <2> QED
      BY <2>1, <2>2 DEF OrderInv
  <1>2. CASE UNCHANGED vars
    <2>1. PendingOpen'
      BY <1>2 DEF vars, OrderInv, PendingOpen, Opposite
    <2>2. ASSUME NEW c \in Conns PROVE Same(c)
      BY <1>2 DEF vars, Same, Line
    <2>3. Fresh'
      BY <1>2, <2>2 DEF vars, OrderInv, Fresh, Same
    <2>4. ASSUME NEW c \in Conns PROVE InLine(Line(c))' /\ Link(c)'
      <3>1. /\ UNCHANGED <<pending, sent>>
            /\ \A d \in Conns : Registered(d)' <=> Registered(d)
        BY <1>2 DEF vars, Registered
      <3> QED
        BY <2>2, <3>1, SameInOrder DEF IInv, OrderInv
    <2> QED
      BY <2>1, <2>3, <2>4 DEF OrderInv
  <1> QED
    BY <1>1, <1>2 DEF Next, Quiescent

\* The lines are in order, always.
THEOREM LinesInOrder == Spec => []OrderInv
  BY TableCorrect, OrderInit, OrderStep, PTL DEF Spec

\* What has been written is a beginning of the line, without a Close.
LEMMA WrittenInOrder ==
  ASSUME TypeOK, OrderInv, NEW c \in Conns, NEW k \in 2..Len(delivered[c])
  PROVE  /\ delivered[c][k].from = delivered[c][1].from
         /\ delivered[c][k].n = delivered[c][k - 1].n + 1
  <1>1. InLine(delivered[c])
    BY InLinePrefix, LineType DEF OrderInv, Line
  <1>2. \A j \in 1..Len(delivered[c]) : delivered[c][j] \in Frames
    BY DEF TypeOK
  <1> QED
    BY <1>1, <1>2, RoleFacts DEF InLine

\* A socket is never written frames of two peers.
THEOREM OnePeerOnly == Spec => []OnePeerPerSocket
  <1>1. ASSUME TypeOK, OrderInv PROVE OnePeerPerSocket
    <2> SUFFICES ASSUME NEW c \in Conns, NEW j \in 1..Len(delivered[c])
                 PROVE  delivered[c][j].from = delivered[c][1].from
      BY DEF OnePeerPerSocket
    <2> QED
      BY <1>1, WrittenInOrder DEF TypeOK
  <1> QED
    BY <1>1, TypeCorrect, LinesInOrder, PTL

\* No frame is lost or overtaken between two that were written.
THEOREM NoGaps == Spec => []NoGap
  <1>1. TypeOK /\ OrderInv => NoGap
    BY WrittenInOrder DEF NoGap
  <1> QED
    BY <1>1, TypeCorrect, LinesInOrder, PTL
=============================================================================
