---------------------------- MODULE RedisRelay -----------------------------
(***************************************************************************)
(* Several relay processes that share tunnels through Redis: the           *)
(* RedisBackplane of backplane.rs under the run_side tasks of pairing.rs.  *)
(*                                                                         *)
(* Where the local backplane does everything under one lock, register and  *)
(* deregister are here sequences of separate steps on three tables: the    *)
(* presence keys in Redis, the instance's slots and the dispatch table its *)
(* subscriber task reads.  Each step is an action of its own.              *)
(*                                                                         *)
(* A run_side future may be dropped wherever it awaits, inside register as *)
(* well, where its guard is not armed yet.                                 *)
(*                                                                         *)
(* Heartbeats are assumed punctual: a presence key lapses only when no     *)
(* running instance has a dispatch entry to refresh it by.                 *)
(***************************************************************************)
EXTENDS Integers, Sequences, FiniteSets

CONSTANTS Conns, Ids, IdOf, RoleOf,
          Instances,   \* relay processes
          InstOf,      \* the process a socket is connected to
          NoConn, NoInst,
          MaxTunnels,  \* per-process MAX_TUNNELS
          MaxFrames,   \* bound: messages read by all relays
          Casts,       \* bound: the sockets that come together, with the number of
                       \* messages then read and the processes that may then die
          MayCrash     \* bound: the processes that may die

Roles == {"agent", "viewer"}
PeerRole(r) == IF r = "agent" THEN "viewer" ELSE "agent"

ASSUME RedisAssumption ==
  /\ NoConn \notin Conns /\ NoInst \notin Instances
  /\ IdOf \in [Conns -> Ids]
  /\ RoleOf \in [Conns -> Roles]
  /\ InstOf \in [Conns -> Instances]
  /\ MaxTunnels \in Nat /\ MaxFrames \in Nat
  /\ MayCrash \subseteq Instances
  /\ Casts \subseteq [who : SUBSET Conns, frames : Nat, dies : SUBSET Instances]

VARIABLES presence,   \* tunnel:<id>:<role> in Redis, the holder's instance
          local,      \* slots of each instance
          dispatch,   \* channel -> Tx of each instance
          bus,        \* published messages on their way to each subscriber task
          up,         \* instances that run
          phase, writer, inbox, pending, sent, delivered,   \* as in Relay
          total,      \* messages read, against MaxFrames
          evicted,    \* history: roles whose dispatch entry another socket removed
          early       \* history: what each socket had sent when another's slot was put

vars == <<presence, local, dispatch, bus, up, phase, writer, inbox, pending,
          sent, delivered, total, evicted, early>>
tables == <<presence, local, dispatch>>
past   == <<evicted, early>>
queues == <<bus, inbox>>
reads  == <<sent, total>>

Close   == [from |-> NoConn, n |-> 0]
Frames  == [from : Conns, n : Nat]
Delivery == Frames \cup {Close}
Nothing == [to |-> NoConn, msg |-> Close]
NoSlot  == [r \in Roles |-> NoConn]

Phases == {"new", "checked", "claimed", "slotted", "open", "leaving", "unclaimed",
           "undispatched", "closing", "gone", "rejected", "stranded", "crashed"}

Slot(c)     == local[InstOf[c]][IdOf[c]][RoleOf[c]]
PeerSlot(c) == local[InstOf[c]][IdOf[c]][PeerRole(RoleOf[c])]
Entry(c)    == dispatch[InstOf[c]][IdOf[c]][RoleOf[c]]
Claim(c)    == presence[IdOf[c]][RoleOf[c]]
LocalIds(i) == {t \in Ids : local[i][t] # NoSlot}

\* A channel takes what is sent to it as long as its receiver is there: run_side
\* has it until register returns, then the pump.
CanHear(c) == writer[c] \in {"waiting", "pump"}
Push(c, d) == IF CanHear(c) THEN [inbox EXCEPT ![c] = Append(@, d)] ELSE inbox

\* PUBLISH reaches every subscribed instance, the publisher's own included; an
\* instance that no socket of the addressed role ever connects to is left out,
\* since its subscriber finds no entry and drops the message.
Addressed(i, t, r) == up[i] /\ \E c \in Conns : InstOf[c] = i /\ IdOf[c] = t /\ RoleOf[c] = r

Published(c, d) ==
  LET t == IdOf[c]
      r == PeerRole(RoleOf[c])
  IN  [i \in Instances |->
         IF Addressed(i, t, r) THEN Append(bus[i], [id |-> t, role |-> r, msg |-> d])
                               ELSE bus[i]]

Init ==
  /\ presence = [t \in Ids |-> [r \in Roles |-> NoInst]]
  /\ local = [i \in Instances |-> [t \in Ids |-> NoSlot]]
  /\ dispatch = [i \in Instances |-> [t \in Ids |-> NoSlot]]
  /\ bus = [i \in Instances |-> <<>>]
  /\ up = [i \in Instances |-> TRUE]
  /\ phase = [c \in Conns |-> "new"]
  /\ writer = [c \in Conns |-> "none"]
  /\ inbox = [c \in Conns |-> <<>>]
  /\ pending = [c \in Conns |-> Nothing]
  /\ sent = [c \in Conns |-> 0]
  /\ delivered = [c \in Conns |-> <<>>]
  /\ total = 0
  /\ evicted = {}
  /\ early = [c \in Conns |-> [d \in Conns |-> 0]]

\* Within the bounds.
Came == {c \in Conns : phase[c] # "new"}
Dead == {i \in Instances : ~up[i]}
Within(who, n, dead) ==
  \E k \in Casts : who \subseteq k.who /\ n <= k.frames /\ dead \subseteq k.dies

Go(c, from, to) == phase[c] = from /\ phase' = [phase EXCEPT ![c] = to]

----------------------------------------------------------------------------
(* register *)

Full(c) == IdOf[c] \notin LocalIds(InstOf[c])
           /\ Cardinality(LocalIds(InstOf[c])) >= MaxTunnels

\* The capacity check, its lock released before anything is taken.
CheckCapacity(c) ==
  /\ up[InstOf[c]] /\ Within(Came \cup {c}, total, Dead)
  /\ Go(c, "new", IF Full(c) THEN "rejected" ELSE "checked")
  /\ UNCHANGED <<tables, queues, reads, up, past, writer, pending, delivered>>

\* Mutant: SET without NX.
ClaimTaken(c) == FALSE
Taken(c) == Claim(c) # NoInst

\* Mutant: the key is given the socket, not the instance, for its value.
ClaimBySocket(c) == c
ClaimBy(c) == InstOf[c]

\* SET NX EX claims the role, or the role is taken.
SetPresence(c) ==
  /\ IF Taken(c)
     THEN Go(c, "checked", "rejected") /\ UNCHANGED presence
     ELSE /\ Go(c, "checked", "claimed")
          /\ presence' = [presence EXCEPT ![IdOf[c]][RoleOf[c]] = ClaimBy(c)]
  /\ UNCHANGED <<local, dispatch, queues, reads, up, past, writer, pending, delivered>>

\* The keys after a SET of which nobody knows whether it was executed.
AfterSet(c) ==
  {presence} \cup
    (IF Taken(c) THEN {} ELSE {[presence EXCEPT ![IdOf[c]][RoleOf[c]] = ClaimBy(c)]})

\* The command fails: Occupied, whether or not Redis had executed it.
PresenceUnanswered(c) ==
  /\ Go(c, "checked", "rejected")
  /\ presence' \in AfterSet(c)
  /\ UNCHANGED <<local, dispatch, queues, reads, up, past, writer, pending, delivered>>

PutLocal(c) ==
  /\ Go(c, "claimed", "slotted")
  /\ local' = [local EXCEPT ![InstOf[c]][IdOf[c]][RoleOf[c]] = c]
  /\ writer' = [writer EXCEPT ![c] = "waiting"]
  /\ early' = [early EXCEPT ![c] = sent]
  /\ UNCHANGED <<presence, dispatch, queues, reads, up, evicted, pending, delivered>>

PutDispatch(c) ==
  /\ Go(c, "slotted", "open")
  /\ dispatch' = [dispatch EXCEPT ![InstOf[c]][IdOf[c]][RoleOf[c]] = c]
  /\ writer' = [writer EXCEPT ![c] = "pump"]
  /\ UNCHANGED <<presence, local, queues, reads, up, past, pending, delivered>>

\* The future is dropped while register awaits Redis or a lock: no guard is armed
\* yet.  A SET on its way may be executed, a key that is set is left to lapse,
\* and a slot that has been put stays, with a Tx whose receiver is gone.
CancelRegister(c) ==
  /\ \/ phase[c] = "checked" /\ presence' \in AfterSet(c)
     \/ phase[c] \in {"claimed", "slotted"} /\ UNCHANGED presence
  /\ phase' = [phase EXCEPT ![c] = IF phase[c] = "slotted" THEN "stranded" ELSE "gone"]
  /\ writer' = [writer EXCEPT ![c] = "done"]
  /\ inbox' = [inbox EXCEPT ![c] = <<>>]
  /\ UNCHANGED <<local, dispatch, bus, reads, up, past, pending, delivered>>

----------------------------------------------------------------------------
(* forward and the subscriber task *)

\* The reader takes a message and looks for the peer in the local slots.
ReadFrame(c) ==
  /\ phase[c] = "open" /\ pending[c] = Nothing
  /\ total < MaxFrames /\ Within(Came, total + 1, Dead)
  /\ total' = total + 1
  /\ sent' = [sent EXCEPT ![c] = @ + 1]
  /\ pending' = [pending EXCEPT ![c] = [to  |-> PeerSlot(c),
                                        msg |-> [from |-> c, n |-> sent[c] + 1]]]
  /\ UNCHANGED <<tables, queues, up, past, phase, writer, delivered>>

\* Fast path to a Tx of the same instance, or PUBLISH (which may fail: lost).
Deliver(c) ==
  IF pending[c].to # NoConn
  THEN inbox' = Push(pending[c].to, pending[c].msg) /\ UNCHANGED bus
  ELSE bus' \in {bus, Published(c, pending[c].msg)} /\ UNCHANGED inbox

SendToPeer(c) ==
  /\ phase[c] = "open" /\ pending[c] # Nothing
  /\ Deliver(c)
  /\ pending' = [pending EXCEPT ![c] = Nothing]
  /\ UNCHANGED <<tables, reads, up, past, phase, writer, delivered>>

\* Mutant: the subscriber spawns a task for each message.
RouteAny(i) ==
  \E k \in 1..Len(bus[i]) :
    LET m == bus[i][k]
        c == dispatch[i][m.id][m.role]
    IN  /\ bus' = [bus EXCEPT ![i] = SubSeq(@, 1, k - 1) \o SubSeq(@, k + 1, Len(@))]
        /\ inbox' = IF c = NoConn THEN inbox ELSE Push(c, m.msg)
        /\ UNCHANGED <<tables, reads, up, past, phase, writer, pending, delivered>>

\* The subscriber routes one message by the dispatch table, or drops it.
Route(i) ==
  LET m == Head(bus[i])
      c == dispatch[i][m.id][m.role]
  IN  /\ bus[i] # <<>>
      /\ bus' = [bus EXCEPT ![i] = Tail(@)]
      /\ inbox' = IF c = NoConn THEN inbox ELSE Push(c, m.msg)
      /\ UNCHANGED <<tables, reads, up, past, phase, writer, pending, delivered>>

----------------------------------------------------------------------------
(* The end of run_side, and deregister *)

\* The reader loop ends, the pump is aborted, the guard spawns deregister.
ReaderEnd(c) ==
  /\ pending[c] = Nothing
  /\ Go(c, "open", "leaving")
  /\ writer' = [writer EXCEPT ![c] = "done"]
  /\ inbox' = [inbox EXCEPT ![c] = <<>>]
  /\ UNCHANGED <<tables, bus, reads, up, past, pending, delivered>>

\* The future is dropped at an await of its loop (a PUBLISH it awaited is then sent
\* or lost): the guard runs, and the pump, whose task is detached, goes on.
Cancel(c) ==
  /\ pending[c] = Nothing
  /\ Go(c, "open", "leaving")
  /\ UNCHANGED <<tables, queues, reads, up, past, writer, pending, delivered>>

\* DEL, whoever the key belongs to by now (or it fails and the key stays).
DelPresence(c) ==
  /\ Go(c, "leaving", "unclaimed")
  /\ presence' \in {presence, [presence EXCEPT ![IdOf[c]][RoleOf[c]] = NoInst]}
  /\ UNCHANGED <<local, dispatch, queues, reads, up, past, writer, pending, delivered>>

\* Mutant: the dispatch entry of the peer's channel is removed instead.
DroppedWrong(c) ==
  [dispatch EXCEPT ![InstOf[c]][IdOf[c]][PeerRole(RoleOf[c])] = NoConn]
Dropped(c) == [dispatch EXCEPT ![InstOf[c]][IdOf[c]][RoleOf[c]] = NoConn]

DropDispatch(c) ==
  /\ Go(c, "unclaimed", "undispatched")
  /\ dispatch' = Dropped(c)
  /\ evicted' = IF Entry(c) \in {c, NoConn} THEN evicted
                ELSE evicted \cup {<<IdOf[c], RoleOf[c]>>}
  /\ UNCHANGED <<presence, local, queues, reads, up, early, writer, pending, delivered>>

\* Under the lock: the peer's Tx is cloned, the own field cleared.
ClearLocal(c) ==
  /\ Go(c, "undispatched", "closing")
  /\ local' = [local EXCEPT ![InstOf[c]][IdOf[c]][RoleOf[c]] = NoConn]
  /\ pending' = [pending EXCEPT ![c] = [to |-> PeerSlot(c), msg |-> Close]]
  /\ UNCHANGED <<presence, dispatch, queues, reads, up, past, writer, delivered>>

NotifyPeer(c) ==
  /\ Go(c, "closing", "gone")
  /\ Deliver(c)
  /\ pending' = [pending EXCEPT ![c] = Nothing]
  /\ UNCHANGED <<tables, reads, up, past, writer, delivered>>

----------------------------------------------------------------------------
(* The writer pump *)

WriterDeliver(c) ==
  /\ writer[c] = "pump" /\ inbox[c] # <<>> /\ Head(inbox[c]) # Close
  /\ delivered' = [delivered EXCEPT ![c] = Append(@, Head(inbox[c]))]
  /\ inbox' = [inbox EXCEPT ![c] = Tail(@)]
  /\ UNCHANGED <<tables, bus, reads, up, past, phase, writer, pending>>

\* The socket does not take the frame, Close is next, or no clone of the Tx is left.
NoSenders(c) == /\ inbox[c] = <<>> /\ Slot(c) # c /\ Entry(c) # c
                /\ \A d \in Conns : pending[d].to # c

WriterStops(c) ==
  /\ writer[c] = "pump"
  /\ inbox[c] # <<>> \/ NoSenders(c)
  /\ writer' = [writer EXCEPT ![c] = "done"]
  /\ inbox' = [inbox EXCEPT ![c] = <<>>]
  /\ UNCHANGED <<tables, bus, reads, up, past, phase, pending, delivered>>

----------------------------------------------------------------------------
(* Failure of a whole process, and the expiry of presence keys *)

Crash(i) ==
  LET its == {c \in Conns : InstOf[c] = i}
      cut(f, v) == [c \in Conns |-> IF c \in its THEN v ELSE f[c]]
  IN  /\ up[i] /\ Within(Came, total, Dead \cup {i})
      /\ up' = [up EXCEPT ![i] = FALSE]
      /\ local' = [local EXCEPT ![i] = [t \in Ids |-> NoSlot]]
      /\ dispatch' = [dispatch EXCEPT ![i] = [t \in Ids |-> NoSlot]]
      /\ bus' = [bus EXCEPT ![i] = <<>>]
      /\ phase' = [c \in Conns |-> IF c \in its /\ phase[c] \notin {"gone", "rejected"}
                                   THEN "crashed" ELSE phase[c]]
      /\ writer' = cut(writer, "none")
      /\ inbox' = cut(inbox, <<>>)
      /\ pending' = cut(pending, Nothing)
      /\ UNCHANGED <<presence, reads, delivered, past>>

\* Mutant: only instances without any tunnel stop refreshing.
RefreshedByAny(t, r) == \E i \in Instances : up[i]

\* The heartbeat derives the keys it refreshes from the dispatch table.
Refreshed(t, r) == \E i \in Instances : up[i] /\ dispatch[i][t][r] # NoConn

\* A key set by a register that has yet to insert its dispatch entry is young.
Young(t, r) == \E c \in Conns : /\ IdOf[c] = t /\ RoleOf[c] = r
                                /\ phase[c] \in {"claimed", "slotted"}

Expire(t, r) ==
  /\ presence[t][r] # NoInst
  /\ ~Refreshed(t, r) /\ ~Young(t, r)
  /\ presence' = [presence EXCEPT ![t][r] = NoInst]
  /\ UNCHANGED <<local, dispatch, queues, reads, up, past, phase, writer, pending, delivered>>

Idle == \A c \in Conns : phase[c] \in {"new", "gone", "rejected", "stranded", "crashed"} /\ ~CanHear(c)
Quiescent ==
  /\ Idle
  /\ UNCHANGED vars

Registering(c) == CheckCapacity(c) \/ SetPresence(c) \/ PresenceUnanswered(c)
                  \/ PutLocal(c) \/ PutDispatch(c) \/ CancelRegister(c)
Leaving(c)     == DelPresence(c) \/ DropDispatch(c) \/ ClearLocal(c) \/ NotifyPeer(c)
Pump(c)        == WriterDeliver(c) \/ WriterStops(c)

Next ==
  \/ \E c \in Conns :
       Registering(c) \/ ReadFrame(c) \/ SendToPeer(c) \/ ReaderEnd(c) \/ Cancel(c)
       \/ Leaving(c) \/ Pump(c)
  \/ \E i \in Instances : Route(i)
  \/ \E i \in MayCrash : Crash(i)
  \/ \E t \in Ids, r \in Roles : Expire(t, r)
  \/ Quiescent

Spec == Init /\ [][Next]_vars

\* Some task that can go on does, and Redis expires keys; sockets need not ever
\* close.  This is less than the runtime gives, which is fair to each task.
Fairness ==
  /\ WF_vars(\E c \in Conns : PutLocal(c) \/ PutDispatch(c) \/ Leaving(c))
  /\ WF_vars(\E t \in Ids, r \in Roles : Expire(t, r))

LiveSpec == Spec /\ Fairness
----------------------------------------------------------------------------
TypeOK ==
  /\ presence \in [Ids -> [Roles -> Instances \cup {NoInst}]]
  /\ local \in [Instances -> [Ids -> [Roles -> Conns \cup {NoConn}]]]
  /\ dispatch \in [Instances -> [Ids -> [Roles -> Conns \cup {NoConn}]]]
  /\ bus \in [Instances -> Seq([id : Ids, role : Roles, msg : Delivery])]
  /\ up \in [Instances -> BOOLEAN]
  /\ phase \in [Conns -> Phases]
  /\ writer \in [Conns -> {"none", "waiting", "pump", "done"}]
  /\ inbox \in [Conns -> Seq(Delivery)]
  /\ pending \in [Conns -> [to : Conns \cup {NoConn}, msg : Delivery]]
  /\ sent \in [Conns -> 0..MaxFrames]
  /\ delivered \in [Conns -> Seq(Frames)]
  /\ total \in 0..MaxFrames
  /\ evicted \subseteq Ids \X Roles
  /\ early \in [Conns -> [Conns -> 0..MaxFrames]]

\* Across all processes one socket of a role at most is between its SET and its
\* DEL, unless a deregister of that role has once removed the dispatch entry of
\* a successor: without it the key of an open socket is no longer refreshed.
Holding(c) == phase[c] \in {"claimed", "slotted", "open", "leaving"}
ExclusiveClaim ==
  \A c, d \in Conns :
    Holding(c) /\ Holding(d) /\ IdOf[c] = IdOf[d] /\ RoleOf[c] = RoleOf[d]
      => c = d \/ <<IdOf[c], RoleOf[c]>> \in evicted

\* Once every socket of a running instance is out, its tables are empty, however
\* registrations and deregistrations overlapped, but for the slot of a socket
\* whose future was dropped between the insert into local and the arming of its
\* guard: that one stays until the next socket of its role puts its own.
Out(c) == phase[c] \in {"new", "gone", "rejected", "stranded"}
NoResidue ==
  \A i \in Instances :
    up[i] /\ (\A c \in Conns : InstOf[c] = i => Out(c))
      => \A t \in Ids, r \in Roles :
           /\ dispatch[i][t][r] = NoConn
           /\ local[i][t][r] # NoConn => phase[local[i][t][r]] = "stranded"

\* forward chooses between the fast path and PUBLISH for each frame.  A socket
\* is never written a frame twice, and one frame overtakes another of the same
\* sender only in one case: both are on one process, and the frame that comes
\* late was sent before the socket's slot was there, the other after.
OnlyEarlyOvertaken ==
  \A c \in Conns : \A j, k \in 1..Len(delivered[c]) :
    LET f == delivered[c][j]
        g == delivered[c][k]
    IN  j < k /\ f.from = g.from =>
          \/ f.n < g.n
          \/ /\ InstOf[f.from] = InstOf[c]
             /\ g.n <= early[c][f.from] /\ early[c][f.from] < f.n

\* Crash cleanup: the roles an instance held when it died become free, or are
\* claimed anew through an instance that runs.  Again not where a dispatch entry
\* was once removed from under an open socket: the key of the role then comes to
\* be claimed by two processes in turn, and the heartbeat of one refreshes, by
\* its name alone, the key the other has left behind.
CrashFreesRoles ==
  \A i \in MayCrash :
    ~up[i] ~> \A t \in Ids, r \in Roles : presence[t][r] # i \/ <<t, r>> \in evicted

\* The trait: deregister releases this side.  An open socket stays reachable,
\* by its slot or by its dispatch entry, until its own deregister.
OpenIsReachable == \A c \in Conns : phase[c] = "open" => Slot(c) = c \/ Entry(c) = c
=============================================================================
