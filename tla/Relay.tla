------------------------------- MODULE Relay -------------------------------
(***************************************************************************)
(* One relay process with the in-memory LocalBackplane: the slot table of  *)
(* backplane.rs and, for every WebSocket, the tasks run_side starts in     *)
(* pairing.rs (register, the writer pump, the reader loop, and the         *)
(* DeregisterGuard whose drop spawns deregister).                          *)
(*                                                                         *)
(* A Tx is named by the connection whose channel it feeds.  The map's      *)
(* mutex makes register, the lookup of forward, and deregister atomic;     *)
(* everything between two acquisitions interleaves.                        *)
(***************************************************************************)
EXTENDS Integers, Sequences, FiniteSets

CONSTANTS Conns,       \* WebSockets accepted on /agent/:id and /viewer/:id
          Ids,         \* tunnel ids
          IdOf,        \* id of the route a socket came in by
          RoleOf,      \* role of that route
          NoConn,      \* None in a Slot field
          MaxTunnels,  \* max_tunnels()
          MaxFrames    \* bound: messages read by the relay

Roles == {"agent", "viewer"}
PeerRole(r) == IF r = "agent" THEN "viewer" ELSE "agent"

ASSUME RelayAssumption ==
  /\ NoConn \notin Conns
  /\ IdOf \in [Conns -> Ids]
  /\ RoleOf \in [Conns -> Roles]
  /\ MaxTunnels \in Nat
  /\ MaxFrames \in Nat
  /\ IsFiniteSet(Ids)

VARIABLES keys,       \* ids present in the HashMap
          slot,       \* their Slots; both fields None when the id is absent
          phase,      \* where each run_side is
          writer,     \* its writer pump: "none", "pump" or "done"
          inbox,      \* deliveries queued in its unbounded channel
          pending,    \* a Tx cloned by forward, not yet sent to
          sent,       \* messages read from the socket
          delivered,  \* history: frames written to the socket
          stats       \* Stats counters touched here

vars == <<keys, slot, phase, writer, inbox, pending, sent, delivered, stats>>

Frames    == [from : Conns, n : Nat]
Close     == [from |-> NoConn, n |-> 0]
Delivery  == Frames \cup {Close}
Nothing   == [to |-> NoConn, frame |-> Close]
EmptySlot == [r \in Roles |-> NoConn]

Tx(c)     == slot[IdOf[c]][RoleOf[c]]
PeerTx(c) == slot[IdOf[c]][PeerRole(RoleOf[c])]
Holds(c)  == Tx(c) = c

\* The channel's receiver lives in the writer task.
CanHear(c) == writer[c] = "pump"

\* Mutant: a channel with room for one delivery, try_send dropping the rest.
PushBounded(q, c, d) ==
  IF CanHear(c) /\ q[c] = <<>> THEN [q EXCEPT ![c] = Append(@, d)] ELSE q

\* Sending to a channel whose receiver is gone is an ignored error.
Push(q, c, d) == IF CanHear(c) THEN [q EXCEPT ![c] = Append(@, d)] ELSE q

----------------------------------------------------------------------------
Init ==
  /\ keys = {}
  /\ slot = [i \in Ids |-> EmptySlot]
  /\ phase = [c \in Conns |-> "new"]
  /\ writer = [c \in Conns |-> "none"]
  /\ inbox = [c \in Conns |-> <<>>]
  /\ pending = [c \in Conns |-> Nothing]
  /\ sent = [c \in Conns |-> 0]
  /\ delivered = [c \in Conns |-> <<>>]
  /\ stats = [tunnels |-> 0, frames |-> 0]

\* Mutants: the capacity check off by one, a forgotten role check.
AtCapacityOffByOne(c) == IdOf[c] \notin keys /\ Cardinality(keys) > MaxTunnels
OccupiedUnchecked(c)  == FALSE

AtCapacity(c) == IdOf[c] \notin keys /\ Cardinality(keys) >= MaxTunnels
Occupied(c)   == Tx(c) # NoConn

\* register returned Ok: the tunnel is counted, the guard armed, the pump started.
Register(c) ==
  /\ phase[c] = "new"
  /\ ~AtCapacity(c)
  /\ ~Occupied(c)
  /\ keys' = keys \cup {IdOf[c]}
  /\ slot' = [slot EXCEPT ![IdOf[c]][RoleOf[c]] = c]
  /\ phase' = [phase EXCEPT ![c] = "open"]
  /\ writer' = [writer EXCEPT ![c] = "pump"]
  /\ stats' = IF RoleOf[c] = "agent" THEN [stats EXCEPT !.tunnels = @ + 1]
                                     ELSE stats
  /\ UNCHANGED <<inbox, pending, sent, delivered>>

\* Mutant: the guard is armed before register is known to have succeeded.
RejectGuarded(c) ==
  /\ phase[c] = "new"
  /\ AtCapacity(c) \/ Occupied(c)
  /\ phase' = [phase EXCEPT ![c] = "leaving"]
  /\ UNCHANGED <<keys, slot, writer, inbox, pending, sent, delivered, stats>>

\* register returned Err: a Close frame is sent and nothing was registered.
Reject(c) ==
  /\ phase[c] = "new"
  /\ AtCapacity(c) \/ Occupied(c)
  /\ phase' = [phase EXCEPT ![c] = "rejected"]
  /\ UNCHANGED <<keys, slot, writer, inbox, pending, sent, delivered, stats>>

\* Mutant: forward does not look whether there is a peer.
PeerUnchecked(c) == TRUE
HasPeer(c) == PeerTx(c) # NoConn

CloneFor(c) == [to |-> PeerTx(c), frame |-> [from |-> c, n |-> sent[c] + 1]]

\* The reader takes a message and, under the lock, clones the peer's Tx.
ReadFrame(c) ==
  /\ phase[c] = "open"
  /\ pending[c] = Nothing
  /\ stats.frames < MaxFrames
  /\ sent' = [sent EXCEPT ![c] = @ + 1]
  /\ stats' = [stats EXCEPT !.frames = @ + 1]
  /\ pending' = IF HasPeer(c) THEN [pending EXCEPT ![c] = CloneFor(c)]
                              ELSE pending
  /\ UNCHANGED <<keys, slot, phase, writer, inbox, delivered>>

\* forward sends to the clone after the lock is released.
SendToPeer(c) ==
  /\ pending[c] # Nothing
  /\ inbox' = Push(inbox, pending[c].to, pending[c].frame)
  /\ pending' = [pending EXCEPT ![c] = Nothing]
  /\ UNCHANGED <<keys, slot, phase, writer, sent, delivered, stats>>

\* Close, end of stream or error (an over-cap frame too): the loop ends, the
\* writer is aborted, and dropping the guard spawns deregister.
ReaderEnd(c) ==
  /\ phase[c] = "open"
  /\ pending[c] = Nothing
  /\ phase' = [phase EXCEPT ![c] = "leaving"]
  /\ writer' = [writer EXCEPT ![c] = "done"]
  /\ inbox' = [inbox EXCEPT ![c] = <<>>]
  /\ UNCHANGED <<keys, slot, pending, sent, delivered, stats>>

\* The channel future is dropped at an await: the guard runs, the writer task
\* is detached and keeps pumping.
Cancel(c) ==
  /\ phase[c] = "open"
  /\ pending[c] = Nothing
  /\ phase' = [phase EXCEPT ![c] = "leaving"]
  /\ UNCHANGED <<keys, slot, writer, inbox, pending, sent, delivered, stats>>

\* Mutants: the peer is not told; an entry with both fields None stays.
CloseUnsent(c)    == inbox
EmptiedIgnored(c) == FALSE

\* deregister: what it queues for the peer, and whether it empties the entry.
CloseQueued(c) == IF HasPeer(c) THEN Push(inbox, PeerTx(c), Close) ELSE inbox
Emptied(c)     == ~HasPeer(c)

\* deregister, whole, under the lock.
Deregister(c) ==
  LET i == IdOf[c]
  IN  /\ phase[c] = "leaving"
      /\ phase' = [phase EXCEPT ![c] = "gone"]
      /\ IF i \in keys
         THEN /\ inbox' = CloseQueued(c)
              /\ slot' = [slot EXCEPT ![i][RoleOf[c]] = NoConn]
              /\ keys' = IF Emptied(c) THEN keys \ {i} ELSE keys
         ELSE UNCHANGED <<inbox, slot, keys>>
      /\ UNCHANGED <<writer, pending, sent, delivered, stats>>

\* The writer pump: a frame reaches the socket ...
WriterDeliver(c) ==
  /\ writer[c] = "pump"
  /\ inbox[c] # <<>>
  /\ Head(inbox[c]) # Close
  /\ delivered' = [delivered EXCEPT ![c] = Append(@, Head(inbox[c]))]
  /\ inbox' = [inbox EXCEPT ![c] = Tail(@)]
  /\ UNCHANGED <<keys, slot, phase, writer, pending, sent, stats>>

\* ... or cannot be sent, or the next delivery is Close, or no sender is left:
\* the loop breaks and the socket is closed.
SendFails(c)  == inbox[c] # <<>> /\ Head(inbox[c]) # Close
ToldClose(c)  == inbox[c] # <<>> /\ Head(inbox[c]) = Close
NoSenders(c)  == inbox[c] = <<>> /\ ~Holds(c) /\ \A d \in Conns : pending[d].to # c

WriterStops(c) ==
  /\ writer[c] = "pump"
  /\ writer' = [writer EXCEPT ![c] = "done"]
  /\ inbox' = [inbox EXCEPT ![c] = <<>>]
  /\ UNCHANGED <<keys, slot, phase, pending, sent, delivered, stats>>

WriterFails(c)  == SendFails(c) /\ WriterStops(c)
WriterCloses(c) == (ToldClose(c) \/ NoSenders(c)) /\ WriterStops(c)

\* Every connection of the instance has come and gone.
Quiescent ==
  /\ \A c \in Conns : phase[c] \in {"gone", "rejected"} /\ writer[c] # "pump"
  /\ UNCHANGED vars

ConnStep(c) ==
  \/ Register(c) \/ Reject(c) \/ ReadFrame(c) \/ SendToPeer(c)
  \/ ReaderEnd(c) \/ Cancel(c) \/ Deregister(c)
  \/ WriterDeliver(c) \/ WriterFails(c) \/ WriterCloses(c)

Next == (\E c \in Conns : ConnStep(c)) \/ Quiescent

Spec == Init /\ [][Next]_vars

\* Spawned tasks run, sockets take what is written to them, and a client whose
\* socket was closed hangs up (the Close handshake ends the reader loop).
HangsUp(c) == writer[c] = "done" /\ ReaderEnd(c)

Fairness ==
  \A c \in Conns :
    /\ WF_vars(SendToPeer(c))
    /\ WF_vars(Deregister(c))
    /\ WF_vars(WriterDeliver(c) \/ WriterCloses(c))
    /\ WF_vars(HangsUp(c))

LiveSpec == Spec /\ Fairness
----------------------------------------------------------------------------
TypeOK ==
  /\ keys \subseteq Ids
  /\ slot \in [Ids -> [Roles -> Conns \cup {NoConn}]]
  /\ phase \in [Conns -> {"new", "rejected", "open", "leaving", "gone"}]
  /\ writer \in [Conns -> {"none", "pump", "done"}]
  /\ inbox \in [Conns -> Seq(Delivery)]
  /\ pending \in [Conns -> [to : Conns, frame : Frames] \cup {Nothing}]
  /\ sent \in [Conns -> Nat]
  /\ delivered \in [Conns -> Seq(Frames)]
  /\ stats \in [tunnels : Nat, frames : Nat]

Registered(c) == phase[c] \in {"open", "leaving"}
HasClose(c)   == \E k \in 1..Len(inbox[c]) : inbox[c][k] = Close

\* No two sockets are ever registered for the same role of the same id: the
\* Occupied check of register and the exit path of run_side together.
ExclusiveRole ==
  \A c, d \in Conns :
    Registered(c) /\ Registered(d) /\ IdOf[c] = IdOf[d] /\ RoleOf[c] = RoleOf[d]
      => c = d

\* An id is in the map exactly while some socket is registered for it: no exit
\* path of run_side leaks a slot, and none frees one still in use.
NoLeakedSlot ==
  \A i \in Ids : i \in keys <=> \E c \in Conns : Registered(c) /\ IdOf[c] = i

\* The map never holds more ids than MAX_TUNNELS, whatever roles join and leave.
CapacityRespected == Cardinality(keys) <= MaxTunnels

\* A socket's Tx leaves the table only by that socket's own deregister, never
\* by a rejected register or by the departure of another socket.
OnlyOwnerReleases ==
  [][\A c \in Conns :
       Holds(c) /\ ~Holds(c)' => phase[c] = "leaving" /\ phase'[c] = "gone"]_vars

\* A socket is written frames of one peer socket only: once the peer has gone,
\* the Close queued behind its frames stops the pump before those of the next.
OnePeerPerSocket ==
  \A c \in Conns : \A j, k \in 1..Len(delivered[c]) :
    delivered[c][j].from = delivered[c][k].from

\* Frames reach a socket in the order its peer sent them, with no gap: clones
\* of a Tx used after the lock is released lose or reorder nothing.
NoGap ==
  \A c \in Conns : \A k \in 2..Len(delivered[c]) :
    delivered[c][k].n = delivered[c][k - 1].n + 1

\* When one side of a pair leaves, the other is closed and deregisters too,
\* whatever was queued for it: the cascade of deregister, pump and guard.
Cascade ==
  \A c, p \in Conns :
    (phase[c] = "leaving" /\ PeerTx(c) = p) ~> (phase[p] = "gone")
----------------------------------------------------------------------------
(***************************************************************************)
(* Refinement.  A frame is in the peer's pipe from the moment forward has  *)
(* cloned the peer's Tx; a pipe is sealed once Close is queued or the pump *)
(* has ended.                                                              *)
(***************************************************************************)
\* What the pump will still write: deliveries ahead of any Close.
Queued(c) ==
  LET ahead == {k \in 1..Len(inbox[c]) : \A j \in 1..k : inbox[c][j] # Close}
  IN  SubSeq(inbox[c], 1, Cardinality(ahead))
OnItsWay(c) ==
  LET p == PeerTx(c)
  IN  IF p # NoConn /\ pending[p].to = c /\ ~HasClose(c)
      THEN <<pending[p].frame>>
      ELSE <<>>

PipeTo(c) == IF CanHear(c) THEN Queued(c) \o OnItsWay(c) ELSE <<>>

Promise == INSTANCE Pairing WITH
  holder <- slot,
  status <- [c \in Conns |-> IF phase[c] = "new" THEN "new"
                             ELSE IF Registered(c) THEN "in" ELSE "out"],
  pipe   <- [c \in Conns |-> PipeTo(c)],
  sealed <- [c \in Conns |-> writer[c] = "done" \/ HasClose(c)],
  got    <- delivered

\* The relay keeps the promise of Pairing, step for step.
KeepsPromise == Promise!Spec
=============================================================================
