------------------------- MODULE RelayPromiseProofs -------------------------
(***************************************************************************)
(* The relay implements Pairing: every step of Relay is, through Promise,  *)
(* a step of the contract or changes nothing that it speaks of, for any    *)
(* number of sockets, ids and frames.                                      *)
(*                                                                         *)
(* The front of a queue is what the pump will still write, up to any       *)
(* Close.  That every queue has an end of its front is part of the         *)
(* invariant, as it is what each step can be shown to keep.                *)
(***************************************************************************)
EXTENDS RelayProofs

Front(q) ==
  LET ahead == {k \in 1..Len(q) : \A j \in 1..k : q[j] # Close}
  IN  SubSeq(q, 1, Cardinality(ahead))

\* k is the place of the first Close, or the place after the last delivery.
FrontEnds(q, k) ==
  /\ k \in 1..(Len(q) + 1)
  /\ \A j \in 1..(k - 1) : q[j] # Close
  /\ k <= Len(q) => q[k] = Close

FrontsEnd == \A c \in Conns : \E k \in Nat : FrontEnds(inbox[c], k)

\* A socket has a pump from its registration on, and only then is a clone for it.
Unborn(c) == phase[c] \in {"new", "rejected"}
Born ==
  /\ \A c \in Conns : writer[c] = "none" <=> Unborn(c)
  /\ \A d \in Conns : pending[d] # Nothing => ~Unborn(pending[d].to)

PromiseInv == IInv /\ OrderInv /\ FrontsEnd /\ Born

----------------------------------------------------------------------------
(***************************************************************************)
(* Fronts.                                                                 *)
(***************************************************************************)
LEMMA FrontIs ==
  ASSUME NEW q \in Seq(Delivery), NEW k \in Nat, FrontEnds(q, k)
  PROVE  Front(q) = SubSeq(q, 1, k - 1)
  <1> DEFINE ahead == {i \in 1..Len(q) : \A j \in 1..i : q[j] # Close}
  <1>1. ahead = 1..(k - 1)
    BY DEF FrontEnds
  <1>2. Cardinality(1..(k - 1)) = k - 1
    BY FS_Interval DEF FrontEnds
  <1> QED
    BY <1>1, <1>2 DEF Front

LEMMA FrontCleanIff ==
  ASSUME NEW q \in Seq(Delivery), NEW k \in Nat, FrontEnds(q, k)
  PROVE  Clean(q) <=> k = Len(q) + 1
  BY DEF FrontEnds, Clean

\* A frame queued behind a clean front lengthens it; behind a Close it does not.
LEMMA FrontPush ==
  ASSUME NEW q \in Seq(Delivery), NEW k \in Nat, FrontEnds(q, k), NEW f \in Delivery, f # Close
  PROVE  /\ \E i \in Nat : FrontEnds(Append(q, f), i)
         /\ Front(Append(q, f)) = IF Clean(q) THEN Append(Front(q), f) ELSE Front(q)
  <1> DEFINE t == Append(q, f)
  <1>1. /\ Len(q) \in Nat /\ Len(t) = Len(q) + 1 /\ t \in Seq(Delivery)
        /\ t[Len(q) + 1] = f /\ \A j \in 1..Len(q) : t[j] = q[j]
    OBVIOUS
  <1>2. CASE k = Len(q) + 1
    <2>1. FrontEnds(t, k + 1)
      BY <1>1, <1>2 DEF FrontEnds
    <2>2. Front(t) = SubSeq(t, 1, Len(q) + 1)
      <3>1. Front(t) = SubSeq(t, 1, (k + 1) - 1)
        <4> HIDE DEF t
        <4> QED
          BY <1>1, <2>1, FrontIs
      <3>2. (k + 1) - 1 = Len(q) + 1
        BY <1>1, <1>2
      <3> QED
        BY <3>1, <3>2
    <2>3. Front(q) = SubSeq(q, 1, Len(q))
      BY <1>1, <1>2, FrontIs
    <2>4. SubSeq(q, 1, Len(q)) = q /\ SubSeq(t, 1, Len(q) + 1) = t
      BY <1>1
    <2> QED
      BY <1>2, <2>1, <2>2, <2>3, <2>4, FrontCleanIff
  <1>3. CASE k # Len(q) + 1
    <2>1. FrontEnds(t, k) /\ k <= Len(q)
      BY <1>1, <1>3 DEF FrontEnds
    <2>2. SubSeq(t, 1, k - 1) = SubSeq(q, 1, k - 1)
      BY <1>1, <2>1
    <2> QED
      BY <1>1, <1>3, <2>1, <2>2, FrontIs, FrontCleanIff
  <1> QED
    BY <1>2, <1>3

\* A Close queued leaves the front as it was.
LEMMA FrontClose ==
  ASSUME NEW q \in Seq(Delivery), NEW k \in Nat, FrontEnds(q, k)
  PROVE  /\ FrontEnds(Append(q, Close), k)
         /\ Front(Append(q, Close)) = Front(q)
  <1> DEFINE t == Append(q, Close)
  <1>1. /\ Len(q) \in Nat /\ Len(t) = Len(q) + 1 /\ t \in Seq(Delivery)
        /\ t[Len(q) + 1] = Close /\ \A j \in 1..Len(q) : t[j] = q[j]
    BY DEF Delivery
  <1>2. FrontEnds(t, k)
    BY <1>1 DEF FrontEnds
  <1>3. SubSeq(t, 1, k - 1) = SubSeq(q, 1, k - 1)
    BY <1>1 DEF FrontEnds
  <1>4. Front(t) = SubSeq(t, 1, k - 1)
    <2> HIDE DEF t
    <2> QED
      BY <1>1, <1>2, FrontIs
  <1>5. Front(q) = SubSeq(q, 1, k - 1)
    BY FrontIs
  <1> QED
    BY <1>2, <1>3, <1>4, <1>5

\* The frame the pump takes is the first of the front.
LEMMA FrontTail ==
  ASSUME NEW q \in Seq(Delivery), NEW k \in Nat, FrontEnds(q, k), q # <<>>, Head(q) # Close
  PROVE  /\ FrontEnds(Tail(q), k - 1) /\ k - 1 \in Nat
         /\ Front(q) # <<>> /\ Head(Front(q)) = Head(q)
         /\ Front(Tail(q)) = Tail(Front(q))
  <1>1. /\ Len(q) \in Nat \ {0} /\ Len(Tail(q)) = Len(q) - 1 /\ Tail(q) \in Seq(Delivery)
        /\ Head(q) = q[1] /\ \A j \in 1..(Len(q) - 1) : Tail(q)[j] = q[j + 1]
    OBVIOUS
  <1>2. k \in 2..(Len(q) + 1)
    BY <1>1 DEF FrontEnds
  <1>3. FrontEnds(Tail(q), k - 1)
    BY <1>1, <1>2 DEF FrontEnds
  <1>4. Front(q) = SubSeq(q, 1, k - 1) /\ Front(Tail(q)) = SubSeq(Tail(q), 1, k - 2)
    <2> DEFINE m == k - 1
    <2>1. m \in Nat /\ m - 1 = k - 2
      BY <1>1, <1>2
    <2>2. FrontEnds(Tail(q), m)
      BY <1>3
    <2> HIDE DEF m
    <2>3. Front(Tail(q)) = SubSeq(Tail(q), 1, m - 1)
      BY <1>1, <2>1, <2>2, FrontIs
    <2> QED
      BY <2>1, <2>3, FrontIs
  <1>5. /\ SubSeq(q, 1, k - 1) # <<>>
        /\ Head(SubSeq(q, 1, k - 1)) = q[1]
        /\ Tail(SubSeq(q, 1, k - 1)) = SubSeq(Tail(q), 1, k - 2)
    BY <1>1, <1>2
  <1> QED
    BY <1>1, <1>2, <1>3, <1>4, <1>5, SMTT(30)

----------------------------------------------------------------------------
(***************************************************************************)
(* The invariant.                                                          *)
(***************************************************************************)
LEMMA PushFronts ==
  ASSUME TypeOK, FrontsEnd, NEW p \in Conns, NEW d \in Delivery, inbox' = Push(inbox, p, d)
  PROVE  FrontsEnd'
  <1> SUFFICES ASSUME NEW c \in Conns PROVE \E k \in Nat : FrontEnds(inbox'[c], k)
    BY DEF FrontsEnd, FrontEnds
  <1>1. PICK k \in Nat : FrontEnds(inbox[c], k)
    BY DEF FrontsEnd
  <1>2. inbox[c] \in Seq(Delivery)
    BY DEF TypeOK
  <1>3. inbox'[c] \in {inbox[c], Append(inbox[c], d)}
    BY DEF Push, TypeOK
  <1>4. d = Close => FrontEnds(Append(inbox[c], d), k)
    BY <1>1, <1>2, FrontClose
  <1>5. d # Close => \E i \in Nat : FrontEnds(Append(inbox[c], d), i)
    BY <1>1, <1>2, FrontPush
  <1> QED
    BY <1>1, <1>3, <1>4, <1>5

LEMMA FrontsStep ==
  ASSUME IInv, OrderInv, FrontsEnd, NEW m \in Conns, ConnStep(m)
  PROVE  FrontsEnd'
  <1> USE DEF IInv
  <1>1. CASE SendToPeer(m)
    <2>1. pending[m].to \in Conns /\ pending[m].frame \in Delivery
      BY <1>1 DEF SendToPeer, TypeOK, Delivery
    <2> QED
      BY <1>1, <2>1, PushFronts DEF SendToPeer
  <1>2. CASE Deregister(m)
    <2>1. Close \in Delivery
      BY DEF Delivery
    <2>2. HasPeer(m) => PeerTx(m) \in Conns
      BY PeerFound
    <2>3. CASE inbox' = inbox
      BY <2>3 DEF FrontsEnd, FrontEnds
    <2>4. CASE HasPeer(m) /\ inbox' = Push(inbox, PeerTx(m), Close)
      BY <2>1, <2>2, <2>4, PushFronts
    <2> QED
      BY <1>2, <2>3, <2>4 DEF Deregister, CloseQueued
  <1>3. CASE WriterDeliver(m)
    <2> SUFFICES ASSUME NEW c \in Conns PROVE \E k \in Nat : FrontEnds(inbox'[c], k)
      BY DEF FrontsEnd, FrontEnds
    <2>1. PICK k \in Nat : FrontEnds(inbox[c], k)
      BY DEF FrontsEnd
    <2>2. CASE c = m
      <3>1. inbox'[c] = Tail(inbox[c]) /\ inbox[c] # <<>> /\ Head(inbox[c]) # Close
        BY <1>3, <2>2 DEF WriterDeliver, TypeOK
      <3>2. FrontEnds(Tail(inbox[c]), k - 1) /\ k - 1 \in Nat
        BY <2>1, <3>1, FrontTail DEF TypeOK
      <3> QED
        BY <3>1, <3>2
    <2>3. CASE c # m
      BY <1>3, <2>1, <2>3 DEF WriterDeliver, TypeOK
    <2> QED
      BY <2>2, <2>3
  <1>4. CASE ReaderEnd(m) \/ WriterFails(m) \/ WriterCloses(m)
    <2>1. \A c \in Conns : inbox'[c] \in {inbox[c], <<>>}
      BY <1>4 DEF ReaderEnd, WriterFails, WriterCloses, WriterStops, TypeOK
    <2>2. FrontEnds(<<>>, 1)
      BY DEF FrontEnds
    <2> QED
      BY <2>1, <2>2 DEF FrontsEnd, FrontEnds
  <1>5. CASE Register(m) \/ Reject(m) \/ ReadFrame(m) \/ Cancel(m)
    BY <1>5 DEF Register, Reject, ReadFrame, Cancel, FrontsEnd, FrontEnds
  <1> QED
    BY <1>1, <1>2, <1>3, <1>4, <1>5 DEF ConnStep

LEMMA BornStep ==
  ASSUME IInv, OrderInv, Born, NEW m \in Conns, ConnStep(m)
  PROVE  Born'
  <1> USE DEF IInv, TypeOK, Born, Unborn
  <1>1. CASE ReadFrame(m)
    <2>1. HasPeer(m) => PeerTx(m) \in Conns /\ ~Unborn(PeerTx(m))
      BY PeerFound DEF Registered
    <2> QED
      BY <1>1, <2>1 DEF ReadFrame, CloneFor
  <1>2. CASE Register(m) \/ Reject(m)
    <2>1. /\ pending' = pending /\ Unborn(m)
          /\ \A c \in Conns : c # m => phase'[c] = phase[c] /\ writer'[c] = writer[c]
          /\ phase'[m] \in {"open", "rejected"}
          /\ writer'[m] = IF phase'[m] = "open" THEN "pump" ELSE writer[m]
      BY <1>2 DEF Register, Reject
    <2>2. \A c \in Conns : writer'[c] = "none" <=> phase'[c] \in {"new", "rejected"}
      BY <2>1
    <2>3. \A d \in Conns : pending[d] # Nothing =>
            pending[d].to # m /\ pending[d].to \in Conns
      BY <2>1 DEF Nothing
    <2> QED
      BY <2>1, <2>2, <2>3
  <1>3. CASE SendToPeer(m)
    BY <1>3 DEF SendToPeer
  <1>4. CASE ReaderEnd(m) \/ Cancel(m)
    <2>1. /\ pending' = pending /\ ~Unborn(m) /\ phase'[m] = "leaving"
          /\ \A c \in Conns : c # m => phase'[c] = phase[c] /\ writer'[c] = writer[c]
          /\ writer'[m] \in {writer[m], "done"}
      BY <1>4 DEF ReaderEnd, Cancel
    <2>2. \A c \in Conns : Unborn(c)' <=> Unborn(c)
      BY <2>1
    <2>3. \A c \in Conns : writer'[c] = "none" <=> writer[c] = "none"
      BY <2>1
    <2>4. \A d \in Conns : pending[d] # Nothing => pending[d].to \in Conns
      BY DEF Nothing
    <2> QED
      BY <2>1, <2>2, <2>3, <2>4
  <1>5. CASE Deregister(m)
    BY <1>5 DEF Deregister
  <1>6. CASE WriterDeliver(m) \/ WriterFails(m) \/ WriterCloses(m)
    BY <1>6 DEF WriterDeliver, WriterFails, WriterCloses, WriterStops
  <1> QED
    BY <1>1, <1>2, <1>3, <1>4, <1>5, <1>6 DEF ConnStep

LEMMA PromiseInit == Init => PromiseInv
  <1> SUFFICES ASSUME Init PROVE PromiseInv
    OBVIOUS
  <1>1. FrontEnds(<<>>, 1)
    BY DEF FrontEnds
  <1>2. FrontsEnd
    BY <1>1 DEF Init, FrontsEnd
  <1>3. Born
    BY DEF Init, Born, Unborn
  <1> QED
    BY <1>2, <1>3, InitIInv, OrderInit DEF PromiseInv

LEMMA PromiseStep == PromiseInv /\ [Next]_vars => PromiseInv'
  <1> SUFFICES ASSUME PromiseInv, [Next]_vars PROVE PromiseInv'
    OBVIOUS
  <1>1. IInv' /\ OrderInv'
    BY NextIInv, OrderStep DEF PromiseInv
  <1>2. ASSUME NEW m \in Conns, ConnStep(m) PROVE FrontsEnd' /\ Born'
    BY <1>2, FrontsStep, BornStep DEF PromiseInv
  <1>3. CASE UNCHANGED vars
    <2>1. FrontsEnd'
      BY <1>3 DEF vars, PromiseInv, FrontsEnd, FrontEnds
    <2>2. Born'
      BY <1>3 DEF vars, PromiseInv, Born, Unborn
    <2> QED
      BY <1>1, <2>1, <2>2 DEF PromiseInv
  <1> QED
    BY <1>1, <1>2, <1>3 DEF Next, Quiescent, PromiseInv

----------------------------------------------------------------------------
(***************************************************************************)
(* The pipe to a socket, in terms of its pump, its queue and the clones.   *)
(***************************************************************************)
Sealed(c) == writer[c] = "done" \/ HasClose(c)

\* A clone for a socket is its present peer's, so that it is on its way.
Ways ==
  \A c \in Conns :
    /\ \A d \in Conns : pending[d].to = c =>
         OnItsWay(c) = IF HasClose(c) THEN <<>> ELSE <<pending[d].frame>>
    /\ (\A d \in Conns : pending[d].to # c) => OnItsWay(c) = <<>>

LEMMA WaysHold == PromiseInv => Ways
  <1> SUFFICES ASSUME PromiseInv, NEW c \in Conns
               PROVE  /\ \A d \in Conns : pending[d].to = c =>
                           OnItsWay(c) = IF HasClose(c) THEN <<>> ELSE <<pending[d].frame>>
                      /\ (\A d \in Conns : pending[d].to # c) => OnItsWay(c) = <<>>
    BY DEF Ways
  <1>1. ASSUME NEW d \in Conns, pending[d].to = c
        PROVE  OnItsWay(c) = IF HasClose(c) THEN <<>> ELSE <<pending[d].frame>>
    <2>1. Registered(d) /\ Opposite(c, d)
      BY <1>1, RelayAssumption DEF PromiseInv, OrderInv, PendingOpen, Nothing, Registered
    <2>2. Opposite(d, c)
      BY <2>1, RoleFacts, RelayAssumption DEF Opposite, Roles, PeerRole
    <2>3. PeerTx(c) = d /\ d # NoConn
      BY <2>1, <2>2, PeersSee, RelayAssumption DEF PromiseInv
    <2> QED
      BY <1>1, <2>3 DEF OnItsWay
  <1>2. ASSUME \A d \in Conns : pending[d].to # c PROVE OnItsWay(c) = <<>>
    BY <1>2, TxType DEF OnItsWay, PromiseInv, IInv
  <1> QED
    BY <1>1, <1>2

LEMMA WaysHoldAfter == PromiseInv' => Ways'
  BY WaysHold, PTL

\* What is queued, and whether a Close is.
LEMMA QueuedIs ==
  ASSUME PromiseInv, NEW c \in Conns
  PROVE  /\ Queued(c) = Front(inbox[c]) /\ Queued(c) \in Seq(Delivery)
         /\ inbox[c] \in Seq(Delivery)
         /\ HasClose(c) <=> ~Clean(inbox[c])
         /\ \E k \in Nat : FrontEnds(inbox[c], k)
  <1>1. inbox[c] \in Seq(Delivery)
    BY DEF PromiseInv, IInv, TypeOK
  <1>2. PICK k \in Nat : FrontEnds(inbox[c], k)
    BY DEF PromiseInv, FrontsEnd
  <1>3. Queued(c) = Front(inbox[c])
    BY DEF Queued, Front
  <1>4. SubSeq(inbox[c], 1, k - 1) \in Seq(Delivery)
    BY <1>1, <1>2 DEF FrontEnds
  <1> QED
    BY <1>1, <1>2, <1>3, <1>4, FrontIs DEF HasClose, Clean

LEMMA SamePipe ==
  ASSUME PromiseInv, PromiseInv', NEW c \in Conns,
         inbox'[c] = inbox[c], writer'[c] = writer[c],
         \A d \in Conns : pending'[d].to = c \/ pending[d].to = c => pending'[d] = pending[d]
  PROVE  PipeTo(c)' = PipeTo(c) /\ Sealed(c)' = Sealed(c)
  <1>1. Sealed(c)' = Sealed(c) /\ HasClose(c)' = HasClose(c)
    BY DEF Sealed, HasClose
  <1>2. Queued(c)' = Queued(c) /\ CanHear(c)' = CanHear(c)
    BY DEF Queued, CanHear
  <1>3. OnItsWay(c)' = OnItsWay(c)
    <2>1. CASE \E d \in Conns : pending[d].to = c
      <3>1. PICK d \in Conns : pending[d].to = c
        BY <2>1
      <3>2. OnItsWay(c) = IF HasClose(c) THEN <<>> ELSE <<pending[d].frame>>
        BY <3>1, WaysHold DEF Ways
      <3>3. OnItsWay(c)' = IF HasClose(c)' THEN <<>> ELSE <<pending'[d].frame>>
        BY <3>1, WaysHoldAfter DEF Ways
      <3> QED
        BY <1>1, <3>1, <3>2, <3>3
    <2>2. CASE ~ \E d \in Conns : pending[d].to = c
      BY <2>2, WaysHold, WaysHoldAfter DEF Ways
    <2> QED
      BY <2>1, <2>2
  <1> QED
    BY <1>1, <1>2, <1>3 DEF PipeTo

----------------------------------------------------------------------------
(***************************************************************************)
(* Each step, as a step of the contract.  Ps, Pp and Pl are what Promise   *)
(* substitutes for status, pipe and sealed.                                *)
(***************************************************************************)
Status(c) == IF phase[c] = "new" THEN "new" ELSE IF Registered(c) THEN "in" ELSE "out"
Ps == [c \in Conns |-> Status(c)]
Pp == [c \in Conns |-> PipeTo(c)]
Pl == [c \in Conns |-> Sealed(c)]

\* The contract counts with the same Cardinality.
LEMMA SameCardinality ==
  ASSUME NEW S
  PROVE  Promise!Cardinality(S) = Cardinality(S)
  BY DEF Promise!Cardinality, Cardinality

\* An id is live in the contract exactly when it is in the map.
LEMMA LiveAreKeys ==
  ASSUME IInv
  PROVE  /\ Promise!LiveIds = keys
         /\ Promise!Cardinality(Promise!LiveIds) = Cardinality(keys)
         /\ Cardinality(keys) \in Nat
  <1>1. keys \subseteq Ids /\ Roles = Promise!Roles
    BY DEF IInv, TypeOK, Roles, Promise!Roles
  <1>2. Promise!LiveIds = keys
    BY <1>1 DEF Promise!LiveIds, IInv, SlotInv, KeysExact
  <1>3. IsFiniteSet(keys)
    BY <1>1, FS_Subset, RelayAssumption
  <1> QED
    BY <1>2, <1>3, FS_CardinalityType, SameCardinality

LEMMA RegisterJoins ==
  ASSUME PromiseInv, PromiseInv', NEW m \in Conns, Register(m)
  PROVE  Promise!Join(m)
  <1>1. Ps[m] = "new" /\ Ps' = [Ps EXCEPT ![m] = "in"]
    BY DEF Ps, Status, Registered, Register, PromiseInv, IInv, TypeOK
  <1>2. /\ Promise!Holder(m) = NoConn
        /\ IdOf[m] \in Promise!LiveIds \/ Promise!Cardinality(Promise!LiveIds) < MaxTunnels
    BY LiveAreKeys, RelayAssumption
       DEF Promise!Holder, Register, AtCapacity, Occupied, Tx, PromiseInv
  <1>3. ASSUME NEW c \in Conns PROVE PipeTo(c)' = PipeTo(c) /\ Sealed(c)' = Sealed(c)
    <2>1. inbox' = inbox /\ pending' = pending /\ (c # m => writer'[c] = writer[c])
      BY DEF Register, PromiseInv, IInv, TypeOK
    <2>2. CASE c # m
      BY <2>1, <2>2, SamePipe
    <2>3. CASE c = m
      <3>1. writer[m] = "none" /\ writer'[m] = "pump" /\ Line(m) = <<>>
        BY DEF Register, PromiseInv, IInv, TypeOK, OrderInv, Fresh
      <3>2. inbox[m] = <<>>
        BY <3>1, LineType DEF Line, PromiseInv, IInv
      <3>3. \A d \in Conns : pending[d].to # m
        BY RelayAssumption DEF PromiseInv, Born, Unborn, Register, Nothing
      <3>4. OnItsWay(m)' = <<>>
        BY <2>1, <3>3, WaysHoldAfter DEF Ways
      <3>5. FrontEnds(<<>>, 1) /\ SubSeq(<<>>, 1, 1 - 1) = <<>> /\ <<>> \in Seq(Delivery)
        BY DEF FrontEnds
      <3>6. Queued(m)' = <<>>
        <4>1. Queued(m)' = Front(inbox'[m])
          BY DEF Queued, Front
        <4> QED
          BY <2>1, <3>2, <3>5, <4>1, FrontIs
      <3>7. PipeTo(m) = <<>> /\ PipeTo(m)' = <<>>
        BY <3>1, <3>4, <3>6 DEF PipeTo, CanHear
      <3>8. Sealed(m)' = Sealed(m)
        BY <2>1, <3>1, <3>2 DEF Sealed, HasClose
      <3> QED
        BY <2>3, <3>7, <3>8
    <2> QED
      BY <2>2, <2>3
  <1>4. Pp' = Pp /\ Pl' = Pl
    BY <1>3 DEF Pp, Pl
  <1> QED
    BY <1>1, <1>2, <1>4 DEF Promise!Join, Register, Ps, Pp, Pl, Status, Sealed

LEMMA RejectRefuses ==
  ASSUME PromiseInv, PromiseInv', NEW m \in Conns, Reject(m)
  PROVE  Promise!Refuse(m)
  <1>1. Ps[m] = "new" /\ Ps' = [Ps EXCEPT ![m] = "out"]
    BY DEF Ps, Status, Registered, Reject, PromiseInv, IInv, TypeOK
  <1>2. \/ Promise!Holder(m) # NoConn
        \/ IdOf[m] \notin Promise!LiveIds /\ Promise!Cardinality(Promise!LiveIds) >= MaxTunnels
    BY LiveAreKeys DEF Promise!Holder, Reject, AtCapacity, Occupied, Tx, PromiseInv
  <1>3. \A c \in Conns : PipeTo(c)' = PipeTo(c) /\ Sealed(c)' = Sealed(c)
    BY SamePipe DEF Reject
  <1>4. Pp' = Pp /\ Pl' = Pl
    BY <1>3 DEF Pp, Pl
  <1> QED
    BY <1>1, <1>2, <1>4 DEF Promise!Refuse, Reject, Ps, Pp, Pl, Status, Sealed

\* A detached pump is not spoken of in the contract.
LEMMA CancelStutters ==
  ASSUME PromiseInv, PromiseInv', NEW m \in Conns, Cancel(m)
  PROVE  UNCHANGED Promise!vars
  <1>1. Ps' = Ps
    BY DEF Ps, Status, Registered, Cancel, PromiseInv, IInv, TypeOK
  <1>2. \A c \in Conns : PipeTo(c)' = PipeTo(c) /\ Sealed(c)' = Sealed(c)
    BY SamePipe DEF Cancel
  <1>3. Pp' = Pp /\ Pl' = Pl
    BY <1>2 DEF Pp, Pl
  <1> QED
    BY <1>1, <1>3 DEF Promise!vars, Cancel, Ps, Pp, Pl, Status, Sealed

\* A frame is in the pipe of the peer as soon as the peer's Tx has been cloned.
LEMMA ReadFrameSends ==
  ASSUME PromiseInv, PromiseInv', NEW m \in Conns, ReadFrame(m)
  PROVE  Promise!Send(m)
  <1> DEFINE f == [from |-> m, n |-> sent[m] + 1]
  <1>1. Ps[m] = "in" /\ Ps' = Ps
    BY DEF Ps, Status, Registered, ReadFrame
  <1>2. /\ sent' = [sent EXCEPT ![m] = @ + 1] /\ UNCHANGED <<slot, inbox, writer, delivered>>
        /\ pending[m] = Nothing
        /\ \A d \in Conns : d # m => pending'[d] = pending[d]
        /\ pending'[m] = IF HasPeer(m) THEN [to |-> PeerTx(m), frame |-> f] ELSE Nothing
    BY DEF ReadFrame, CloneFor, PromiseInv, IInv, TypeOK
  <1>3. \A c \in Conns : pending[m].to # c /\ (pending'[m].to = c => HasPeer(m) /\ c = PeerTx(m))
    BY <1>2, RelayAssumption DEF Nothing
  <1> HIDE DEF f
  <1>4. ASSUME NEW c \in Conns PROVE Sealed(c)' = Sealed(c)
    BY <1>2 DEF Sealed, HasClose
  <1>5. ASSUME NEW c \in Conns, ~(HasPeer(m) /\ c = PeerTx(m)) PROVE PipeTo(c)' = PipeTo(c)
    <2>1. \A d \in Conns : pending'[d].to = c \/ pending[d].to = c => pending'[d] = pending[d]
      BY <1>2, <1>3, <1>5
    <2> QED
      BY <1>2, <2>1, SamePipe
  <1>6. ASSUME NEW p \in Conns, HasPeer(m), PeerTx(m) = p
        PROVE  PipeTo(p)' = IF Sealed(p) THEN PipeTo(p) ELSE Append(PipeTo(p), f)
    <2>1. Registered(p) /\ Opposite(p, m)
      BY <1>6, PeerFound DEF PromiseInv
    <2>2. writer[p] # "none" /\ writer[p] \in {"none", "pump", "done"} /\ inbox[p] \in Seq(Delivery)
      BY <2>1 DEF Registered, PromiseInv, Born, Unborn, IInv, TypeOK
    <2>3. \A d \in Conns : pending[d].to # p
      <3> SUFFICES ASSUME NEW d \in Conns, pending[d].to = p PROVE FALSE
        OBVIOUS
      <3>1. Registered(d) /\ Opposite(p, d)
        BY <2>1, RelayAssumption DEF PromiseInv, OrderInv, PendingOpen, Nothing, Registered
      <3>2. Registered(m) /\ Opposite(m, p)
        BY <2>1, RoleFacts, RelayAssumption DEF ReadFrame, Registered, Opposite, Roles, PeerRole
      <3>3. d = m
        BY <2>1, <3>1, <3>2, OnePeer DEF PromiseInv
      <3> QED
        BY <1>3, <2>1, <3>3
    <2>4. OnItsWay(p) = <<>> /\ OnItsWay(p)' = IF HasClose(p)' THEN <<>> ELSE <<f>>
      <3>1. OnItsWay(p) = <<>>
        BY <2>1, <2>3, WaysHold DEF Ways
      <3>2. pending'[m].to = p /\ pending'[m].frame = f
        BY <1>2, <1>6
      <3> QED
        BY <2>1, <3>1, <3>2, WaysHoldAfter DEF Ways
    <2>5. /\ Queued(p)' = Queued(p) /\ Queued(p) \in Seq(Delivery)
          /\ CanHear(p)' = CanHear(p) /\ HasClose(p)' = HasClose(p)
      <3>1. Queued(p)' = Queued(p) /\ CanHear(p)' = CanHear(p) /\ HasClose(p)' = HasClose(p)
        BY <1>2 DEF Queued, CanHear, HasClose
      <3> QED
        BY <3>1, QueuedIs
    <2>6. Queued(p) \o <<f>> = Append(Queued(p) \o <<>>, f)
      BY <2>5
    <2> QED
      BY <2>1, <2>2, <2>4, <2>5, <2>6 DEF PipeTo, Sealed, CanHear
  <1>7. Pl' = Pl
    BY <1>4 DEF Pl
  <1>8. CASE HasPeer(m)
    <2>1. PICK p \in Conns : PeerTx(m) = p
      BY <1>8, PeerFound DEF PromiseInv
    <2>2. \A c \in Conns : c # p => PipeTo(c)' = PipeTo(c)
      BY <1>5, <2>1
    <2>3. PipeTo(p)' = IF Sealed(p) THEN PipeTo(p) ELSE Append(PipeTo(p), f)
      BY <1>6, <1>8, <2>1
    <2>4. Pp' = IF ~Pl[p] THEN [Pp EXCEPT ![p] = Append(@, f)] ELSE Pp
      BY <2>2, <2>3 DEF Pp, Pl
    <2>5. Promise!PeerOf(m) = p /\ p # NoConn
      BY <1>8, <2>1 DEF Promise!PeerOf, Promise!PeerRole, PeerTx, PeerRole, HasPeer
    <2> QED
      BY <1>1, <1>2, <1>7, <2>4, <2>5 DEF Promise!Send, Ps, Pp, Pl, Status, Sealed, f
  <1>9. CASE ~HasPeer(m)
    <2>1. \A c \in Conns : PipeTo(c)' = PipeTo(c)
      BY <1>5, <1>9
    <2>2. Pp' = Pp
      BY <2>1 DEF Pp
    <2>3. Promise!PeerOf(m) = NoConn
      BY <1>9 DEF Promise!PeerOf, Promise!PeerRole, PeerTx, PeerRole, HasPeer
    <2> QED
      BY <1>1, <1>2, <1>7, <2>2, <2>3 DEF Promise!Send, Ps, Pp, Pl, Status, Sealed
  <1> QED
    BY <1>8, <1>9

\* Sending to the clone moves the frame from the sender's hand to the queue,
\* which is the same pipe.
LEMMA SendToPeerStutters ==
  ASSUME PromiseInv, PromiseInv', NEW m \in Conns, SendToPeer(m)
  PROVE  UNCHANGED Promise!vars
  <1>1. PICK p \in Conns, f \in Frames : pending[m] = [to |-> p, frame |-> f]
    BY DEF SendToPeer, PromiseInv, IInv, TypeOK
  <1>2. /\ UNCHANGED <<slot, phase, sent, writer, delivered>>
        /\ \A d \in Conns : d # m => pending'[d] = pending[d]
        /\ pending'[m] = Nothing /\ inbox' = Push(inbox, p, f)
        /\ pending[m].to = p /\ pending[m].frame = f /\ f # Close /\ f \in Delivery
    BY <1>1, RoleFacts DEF SendToPeer, PromiseInv, IInv, TypeOK, Delivery
  <1>3. Ps' = Ps
    BY <1>2 DEF Ps, Status, Registered
  <1>4. ASSUME NEW c \in Conns, c # p PROVE PipeTo(c)' = PipeTo(c) /\ Sealed(c)' = Sealed(c)
    <2>1. inbox'[c] = inbox[c]
      BY <1>2, <1>4 DEF Push, PromiseInv, IInv, TypeOK
    <2>2. \A d \in Conns : pending'[d].to = c \/ pending[d].to = c => pending'[d] = pending[d]
      BY <1>2, <1>4, RelayAssumption DEF Nothing
    <2> QED
      BY <1>2, <2>1, <2>2, SamePipe
  <1>5. PipeTo(p)' = PipeTo(p) /\ Sealed(p)' = Sealed(p)
    <2>1. CASE ~CanHear(p)
      <3>1. inbox'[p] = inbox[p] /\ ~CanHear(p)'
        BY <1>2, <2>1 DEF Push, CanHear
      <3> QED
        BY <1>2, <2>1, <3>1 DEF PipeTo, Sealed, HasClose
    <2>2. CASE CanHear(p)
      <3>1. inbox'[p] = Append(inbox[p], f) /\ CanHear(p)'
        BY <1>2, <2>2 DEF Push, CanHear, PromiseInv, IInv, TypeOK
      <3>2. PICK k \in Nat : FrontEnds(inbox[p], k)
        BY QueuedIs
      <3>3. Queued(p)' = IF HasClose(p) THEN Queued(p) ELSE Append(Queued(p), f)
        <4>1. Queued(p)' = Front(inbox'[p])
          BY DEF Queued, Front
        <4>2. Front(Append(inbox[p], f)) = IF Clean(inbox[p]) THEN Append(Front(inbox[p]), f)
                                                              ELSE Front(inbox[p])
          BY <1>2, <3>2, QueuedIs, FrontPush
        <4> QED
          BY <3>1, <4>1, <4>2, QueuedIs
      <3>4. HasClose(p)' <=> HasClose(p)
        <4>1. HasClose(p)' <=> ~Clean(inbox'[p])
          BY DEF HasClose, Clean
        <4>2. Clean(Append(inbox[p], f)) <=> Clean(inbox[p])
          BY <1>2, QueuedIs, CleanAppend
        <4> QED
          BY <3>1, <4>1, <4>2, QueuedIs
      <3>5. OnItsWay(p) = IF HasClose(p) THEN <<>> ELSE <<f>>
        BY <1>2, WaysHold DEF Ways
      <3>6. OnItsWay(p)' = <<>>
        <4>1. \A d \in Conns : pending'[d].to # p
          <5> SUFFICES ASSUME NEW d \in Conns, pending'[d].to = p PROVE FALSE
            OBVIOUS
          <5>1. d # m /\ pending[d].to = p /\ pending[d] # Nothing /\ pending[m] # Nothing
            BY <1>2, RelayAssumption DEF Nothing
          <5>2. Registered(d) /\ Registered(m) /\ Opposite(p, d) /\ Opposite(p, m)
            BY <1>2, <5>1 DEF PromiseInv, OrderInv, PendingOpen, Registered
          <5>3. Opposite(m, p)
            BY <5>2, RoleFacts, RelayAssumption DEF Opposite, Roles, PeerRole
          <5> QED
            BY <5>1, <5>2, <5>3, OnePeer DEF PromiseInv
        <4> QED
          BY <4>1, WaysHoldAfter DEF Ways
      <3>7. Queued(p) \o <<f>> = Append(Queued(p), f) \o <<>> /\ Queued(p) \o <<>> = Queued(p)
        BY <1>2, QueuedIs
      <3>8. PipeTo(p)' = PipeTo(p)
        BY <2>2, <3>1, <3>3, <3>5, <3>6, <3>7 DEF PipeTo
      <3>9. Sealed(p)' = Sealed(p)
        BY <1>2, <3>4 DEF Sealed
      <3> QED
        BY <3>8, <3>9
    <2> QED
      BY <2>1, <2>2
  <1>6. Pp' = Pp /\ Pl' = Pl
    BY <1>4, <1>5 DEF Pp, Pl
  <1> QED
    BY <1>2, <1>3, <1>6 DEF Promise!vars, Ps, Pp, Pl, Status, Sealed

\* A pump that ends, whatever the cause, breaks the way to its socket.
LEMMA StopBreaks ==
  ASSUME PromiseInv, PromiseInv', NEW m \in Conns,
         ReaderEnd(m) \/ WriterFails(m) \/ WriterCloses(m)
  PROVE  Promise!Break(m)
  <1>1. /\ UNCHANGED <<slot, pending, sent, delivered>>
        /\ \A c \in Conns : c # m => inbox'[c] = inbox[c] /\ writer'[c] = writer[c]
        /\ inbox'[m] = <<>> /\ writer'[m] = "done"
        /\ \A c \in Conns : Registered(c)' <=> Registered(c)
        /\ \A c \in Conns : phase'[c] = "new" <=> phase[c] = "new"
        /\ phase[m] # "new"
    BY DEF ReaderEnd, WriterFails, WriterCloses, WriterStops, Registered,
           PromiseInv, IInv, TypeOK, Born, Unborn
  <1>2. Ps' = Ps /\ Ps[m] # "new"
    BY <1>1 DEF Ps, Status
  <1>3. \A c \in Conns : c # m => PipeTo(c)' = PipeTo(c) /\ Sealed(c)' = Sealed(c)
    BY <1>1, SamePipe
  <1>4. PipeTo(m)' = <<>> /\ Sealed(m)' = TRUE
    BY <1>1 DEF PipeTo, CanHear, Sealed
  <1>5. Pp' = [Pp EXCEPT ![m] = <<>>] /\ Pl' = [Pl EXCEPT ![m] = TRUE]
    BY <1>3, <1>4 DEF Pp, Pl
  <1> QED
    BY <1>1, <1>2, <1>5 DEF Promise!Break, Ps, Pp, Pl, Status, Sealed

\* The head and the tail of two queues in a row are those of the first.
LEMMA HeadOfBoth ==
  ASSUME NEW q \in Seq(Delivery), NEW w \in Seq(Delivery), q # <<>>
  PROVE  /\ q \o w # <<>> /\ Head(q \o w) = Head(q)
         /\ Tail(q \o w) = Tail(q) \o w
  <1>1. Len(q) \in Nat \ {0} /\ Len(w) \in Nat
    OBVIOUS
  <1>2. q \o w \in Seq(Delivery) /\ Len(q \o w) = Len(q) + Len(w) /\ (q \o w)[1] = q[1]
    BY <1>1
  <1>3. q \o w # <<>> /\ Head(q \o w) = Head(q)
    BY <1>1, <1>2
  <1>4. Tail(q \o w) = Tail(q) \o w
    <2>1. /\ Tail(q) \in Seq(Delivery) /\ Len(Tail(q)) = Len(q) - 1
          /\ Len(Tail(q) \o w) = Len(q) - 1 + Len(w)
      BY <1>1
    <2>2. Len(Tail(q \o w)) = Len(q) + Len(w) - 1
      BY <1>1, <1>2, <1>3
    <2>3. ASSUME NEW i \in 1..(Len(q) + Len(w) - 1)
          PROVE  Tail(q \o w)[i] = (Tail(q) \o w)[i]
      <3>1. Tail(q \o w)[i] = (q \o w)[i + 1]
        BY <1>1, <1>2, <1>3
      <3>2. CASE i <= Len(q) - 1
        BY <1>1, <2>1, <3>1, <3>2
      <3>3. CASE i > Len(q) - 1
        BY <1>1, <2>1, <3>1, <3>3
      <3> QED
        BY <1>1, <3>2, <3>3
    <2> QED
      BY <1>1, <1>2, <2>1, <2>2, <2>3
  <1> QED
    BY <1>3, <1>4

\* What is written leaves the front of the queue, which is the head of the pipe.
LEMMA DeliverReceives ==
  ASSUME PromiseInv, PromiseInv', NEW m \in Conns, WriterDeliver(m)
  PROVE  Promise!Receive(m)
  <1> DEFINE h == Head(inbox[m])
  <1>1. /\ UNCHANGED <<slot, phase, writer, pending, sent>>
        /\ inbox[m] # <<>> /\ h # Close /\ CanHear(m) /\ CanHear(m)'
        /\ inbox'[m] = Tail(inbox[m])
        /\ \A c \in Conns : c # m => inbox'[c] = inbox[c]
        /\ delivered' = [delivered EXCEPT ![m] = Append(@, h)]
    BY DEF WriterDeliver, CanHear, PromiseInv, IInv, TypeOK
  <1> HIDE DEF h
  <1>2. Ps' = Ps
    BY <1>1 DEF Ps, Status, Registered
  <1>3. \A c \in Conns : c # m => PipeTo(c)' = PipeTo(c) /\ Sealed(c)' = Sealed(c)
    BY <1>1, SamePipe
  <1>4. PICK k \in Nat : FrontEnds(inbox[m], k)
    BY QueuedIs
  <1>5. Queued(m) # <<>> /\ Head(Queued(m)) = h /\ Queued(m)' = Tail(Queued(m))
    <2>1. Queued(m)' = Front(inbox'[m])
      BY DEF Queued, Front
    <2> QED
      BY <1>1, <1>4, <2>1, QueuedIs, FrontTail DEF h
  <1>6. HasClose(m)' <=> HasClose(m)
    <2>1. inbox[m] \in Seq(Delivery) /\ inbox[m] # <<>>
      BY <1>1, QueuedIs
    <2>2. /\ Len(Tail(inbox[m])) = Len(inbox[m]) - 1 /\ Len(inbox[m]) \in Nat \ {0}
          /\ \A j \in 1..(Len(inbox[m]) - 1) : Tail(inbox[m])[j] = inbox[m][j + 1]
      BY <2>1
    <2>3. inbox[m][1] # Close
      BY <1>1, <2>1 DEF h
    <2>4. ASSUME NEW j \in 1..Len(inbox[m]), inbox[m][j] = Close
          PROVE  \E i \in 1..Len(Tail(inbox[m])) : Tail(inbox[m])[i] = Close
      <3>1. j - 1 \in 1..(Len(inbox[m]) - 1) /\ (j - 1) + 1 = j
        BY <2>2, <2>3, <2>4
      <3> QED
        BY <2>2, <2>4, <3>1
    <2>5. ASSUME NEW i \in 1..Len(Tail(inbox[m])), Tail(inbox[m])[i] = Close
          PROVE  \E j \in 1..Len(inbox[m]) : inbox[m][j] = Close
      <3>1. i + 1 \in 1..Len(inbox[m]) /\ i \in 1..(Len(inbox[m]) - 1)
        BY <2>2
      <3> QED
        BY <2>2, <2>5, <3>1
    <2> QED
      BY <1>1, <2>4, <2>5 DEF HasClose
  <1>7. OnItsWay(m)' = OnItsWay(m) /\ OnItsWay(m) \in Seq(Delivery)
    <2>1. CASE \E d \in Conns : pending[d].to = m
      <3>1. PICK d \in Conns : pending[d].to = m
        BY <2>1
      <3>2. pending[d].frame \in Delivery
        BY <3>1, RelayAssumption, SMTT(30) DEF PromiseInv, IInv, TypeOK, Nothing, Delivery
      <3>3. OnItsWay(m) = IF HasClose(m) THEN <<>> ELSE <<pending[d].frame>>
        BY <3>1, WaysHold DEF Ways
      <3>4. OnItsWay(m)' = IF HasClose(m)' THEN <<>> ELSE <<pending'[d].frame>>
        BY <1>1, <3>1, WaysHoldAfter DEF Ways
      <3> QED
        BY <1>1, <1>6, <3>2, <3>3, <3>4
    <2>2. CASE ~ \E d \in Conns : pending[d].to = m
      <3>1. \A d \in Conns : pending'[d].to # m
        BY <1>1, <2>2
      <3>2. OnItsWay(m) = <<>> /\ OnItsWay(m)' = <<>>
        BY <2>2, <3>1, WaysHold, WaysHoldAfter DEF Ways
      <3> QED
        BY <3>2
    <2> QED
      BY <2>1, <2>2
  <1>8. /\ PipeTo(m) # <<>> /\ Head(PipeTo(m)) = h
        /\ PipeTo(m)' = Tail(PipeTo(m))
    <2>1. PipeTo(m) = Queued(m) \o OnItsWay(m) /\ PipeTo(m)' = Tail(Queued(m)) \o OnItsWay(m)
      BY <1>1, <1>5, <1>7 DEF PipeTo
    <2> QED
      BY <1>5, <1>7, <2>1, QueuedIs, HeadOfBoth, SMTT(30)
  <1>9. Sealed(m)' = Sealed(m)
    BY <1>1, <1>6 DEF Sealed
  <1>10. Pp[m] # <<>> /\ Head(Pp[m]) = h /\ Pp' = [Pp EXCEPT ![m] = Tail(@)] /\ Pl' = Pl
    BY <1>3, <1>8, <1>9 DEF Pp, Pl
  <1> QED
    BY <1>1, <1>2, <1>10 DEF Promise!Receive, Ps, Pp, Pl, Status, Sealed

\* A socket leaves, and the Close queued for its peer seals the pipe to it.
LEMMA DeregisterLeaves ==
  ASSUME PromiseInv, PromiseInv', NEW m \in Conns, Deregister(m)
  PROVE  Promise!Leave(m)
  <1>1. /\ UNCHANGED <<pending, sent, delivered, writer>>
        /\ Registered(m) /\ pending[m] = Nothing
    BY DEF Deregister, Registered, PromiseInv, OrderInv, PendingOpen
  <1>2. Ps[m] = "in" /\ Ps' = [Ps EXCEPT ![m] = "out"]
    BY DEF Ps, Status, Registered, Deregister, PromiseInv, IInv, TypeOK
  <1>3. IdOf[m] \in keys
    BY <1>1, RelayAssumption
       DEF PromiseInv, IInv, SlotInv, RegisteredHolds, Holds, Tx, KeysExact
  <1>4. /\ slot' = [slot EXCEPT ![IdOf[m]][RoleOf[m]] = NoConn]
        /\ inbox' = IF HasPeer(m) THEN Push(inbox, PeerTx(m), Close) ELSE inbox
    BY <1>3 DEF Deregister, CloseQueued
  <1>5. ASSUME NEW c \in Conns, ~(HasPeer(m) /\ c = PeerTx(m))
        PROVE  PipeTo(c)' = PipeTo(c) /\ Sealed(c)' = Sealed(c)
    <2>1. inbox'[c] = inbox[c]
      BY <1>4, <1>5 DEF Push, PromiseInv, IInv, TypeOK
    <2> QED
      BY <1>1, <2>1, SamePipe
  <1>6. CASE ~HasPeer(m)
    <2>1. Pp' = Pp /\ Pl' = Pl
      BY <1>5, <1>6 DEF Pp, Pl
    <2>2. Promise!SealedBy(m) = Pl
      BY <1>6 DEF Promise!SealedBy, Promise!PeerOf, Promise!PeerRole, PeerTx, PeerRole,
                  HasPeer, Pl, Sealed
    <2> QED
      BY <1>1, <1>2, <1>4, <2>1, <2>2 DEF Promise!Leave, Ps, Pp, Pl, Status, Sealed
  <1>7. CASE HasPeer(m)
    <2>1. PICK p \in Conns : PeerTx(m) = p /\ Registered(p) /\ Opposite(p, m)
      BY <1>7, PeerFound DEF PromiseInv
    <2>2. /\ writer[p] \in {"pump", "done"} /\ inbox[p] \in Seq(Delivery)
          /\ Close \in Delivery
      BY <2>1 DEF Registered, PromiseInv, Born, Unborn, IInv, TypeOK, Delivery
    <2>3. \A d \in Conns : pending[d].to # p
      <3> SUFFICES ASSUME NEW d \in Conns, pending[d].to = p PROVE FALSE
        OBVIOUS
      <3>1. Registered(d) /\ Opposite(p, d)
        BY RelayAssumption DEF PromiseInv, OrderInv, PendingOpen, Nothing, Registered
      <3>2. Opposite(m, p)
        BY <2>1, RoleFacts, RelayAssumption DEF Opposite, Roles, PeerRole
      <3>3. d = m
        BY <1>1, <2>1, <3>1, <3>2, OnePeer DEF PromiseInv
      <3> QED
        BY <1>1, <3>3, RelayAssumption DEF Nothing
    <2>4. OnItsWay(p) = <<>> /\ OnItsWay(p)' = <<>>
      BY <1>1, <2>3, WaysHold, WaysHoldAfter DEF Ways
    <2>5. Queued(p)' = Queued(p)
      <3>1. Queued(p)' = Front(inbox'[p])
        BY DEF Queued, Front
      <3>2. PICK k \in Nat : FrontEnds(inbox[p], k)
        BY QueuedIs
      <3>3. inbox'[p] \in {inbox[p], Append(inbox[p], Close)}
        BY <1>4, <1>7, <2>1 DEF Push, PromiseInv, IInv, TypeOK
      <3> QED
        BY <2>2, <3>1, <3>2, <3>3, FrontClose, QueuedIs
    <2>6. PipeTo(p)' = PipeTo(p)
      BY <1>1, <2>4, <2>5 DEF PipeTo, CanHear
    <2>7. Sealed(p)' = TRUE
      <3>1. CASE writer[p] = "done"
        BY <1>1, <3>1 DEF Sealed
      <3>2. CASE writer[p] = "pump"
        <4>1. inbox'[p] = Append(inbox[p], Close)
          BY <1>4, <1>7, <2>1, <3>2 DEF Push, CanHear, PromiseInv, IInv, TypeOK
        <4>2. Len(Append(inbox[p], Close)) = Len(inbox[p]) + 1 /\ Len(inbox[p]) \in Nat
              /\ Append(inbox[p], Close)[Len(inbox[p]) + 1] = Close
          BY <2>2
        <4> QED
          BY <4>1, <4>2 DEF Sealed, HasClose
      <3> QED
        BY <2>2, <3>1, <3>2
    <2>8. Pp' = Pp /\ Pl' = [Pl EXCEPT ![p] = TRUE]
      BY <1>5, <1>7, <2>1, <2>6, <2>7 DEF Pp, Pl
    <2>9. Promise!SealedBy(m) = [Pl EXCEPT ![p] = TRUE]
      BY <1>7, <2>1 DEF Promise!SealedBy, Promise!PeerOf, Promise!PeerRole, PeerTx, PeerRole,
                  HasPeer, Pl, Sealed
    <2> QED
      BY <1>1, <1>2, <1>4, <2>8, <2>9 DEF Promise!Leave, Ps, Pp, Pl, Status, Sealed
  <1> QED
    BY <1>6, <1>7

----------------------------------------------------------------------------
LEMMA PromiseStarts == Init => Promise!Init
  <1> SUFFICES ASSUME Init PROVE Promise!Init
    OBVIOUS
  <1>1. \A c \in Conns : PipeTo(c) = <<>> /\ ~HasClose(c) /\ writer[c] # "done"
    BY DEF Init, PipeTo, CanHear, HasClose
  <1> QED
    BY <1>1, RelayAssumption
       DEF Init, EmptySlot, Roles, Promise!Init, Promise!Roles

LEMMA PromiseSteps == PromiseInv /\ PromiseInv' /\ [Next]_vars => [Promise!Next]_(Promise!vars)
  <1> SUFFICES ASSUME PromiseInv, PromiseInv', [Next]_vars
               PROVE  Promise!Next \/ UNCHANGED Promise!vars
    OBVIOUS
  <1>1. ASSUME NEW m \in Conns, ConnStep(m)
        PROVE  \/ Promise!Join(m) \/ Promise!Refuse(m) \/ Promise!Send(m)
               \/ Promise!Receive(m) \/ Promise!Break(m) \/ Promise!Leave(m)
               \/ UNCHANGED Promise!vars
    BY <1>1, RegisterJoins, RejectRefuses, CancelStutters, ReadFrameSends, SendToPeerStutters,
       StopBreaks, DeliverReceives, DeregisterLeaves DEF ConnStep
  <1>2. CASE UNCHANGED vars
    BY <1>2 DEF vars, Promise!vars, PipeTo, CanHear, Queued, OnItsWay, PeerTx, HasClose, Registered
  <1> QED
    BY <1>1, <1>2 DEF Next, Quiescent, Promise!Next

\* The relay implements the contract: exclusive roles, frames to the present peer
\* in order, and a peer that is told when its socket leaves.
THEOREM RelayKeepsPromise == Spec => KeepsPromise
  BY PromiseInit, PromiseStep, PromiseStarts, PromiseSteps, PTL DEF Spec, KeepsPromise, Promise!Spec
=============================================================================
