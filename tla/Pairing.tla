------------------------------ MODULE Pairing ------------------------------
(***************************************************************************)
(* What the relay's pairing promises to the two sides of a tunnel, told    *)
(* without locks, tasks or queues of deliveries: the contract of the       *)
(* Backplane trait together with run_side.                                 *)
(*                                                                         *)
(* A side claims a role of an id, and no two sides hold the same role of   *)
(* the same id.  A frame goes to whoever holds the opposite role at that   *)
(* moment, in order, or nowhere.  When a side leaves, the pipe of its peer *)
(* is sealed: what is already in it may still arrive, nothing later will.  *)
(***************************************************************************)
EXTENDS Integers, Sequences, FiniteSets

CONSTANTS Conns,       \* the sockets that ever reach the relay
          Ids,         \* tunnel ids
          IdOf,        \* the id in the path a socket was opened with
          RoleOf,      \* the role its route gives it
          NoConn,      \* "no transmitter in this field"
          MaxTunnels   \* MAX_TUNNELS

Roles == {"agent", "viewer"}
PeerRole(r) == IF r = "agent" THEN "viewer" ELSE "agent"

Frames == [from : Conns, n : Nat]

VARIABLES holder,   \* who holds each role of each id
          status,   \* "new", "in" or "out"
          sent,     \* frames each side has sent
          pipe,     \* frames on their way to each side
          sealed,   \* sides that will be sent nothing more
          got       \* what each side has received

vars == <<holder, status, sent, pipe, sealed, got>>

Holder(c)  == holder[IdOf[c]][RoleOf[c]]
PeerOf(c)  == holder[IdOf[c]][PeerRole(RoleOf[c])]
LiveIds    == {i \in Ids : \E r \in Roles : holder[i][r] # NoConn}

Init ==
  /\ holder = [i \in Ids |-> [r \in Roles |-> NoConn]]
  /\ status = [c \in Conns |-> "new"]
  /\ sent   = [c \in Conns |-> 0]
  /\ pipe   = [c \in Conns |-> <<>>]
  /\ sealed = [c \in Conns |-> FALSE]
  /\ got    = [c \in Conns |-> <<>>]

\* A side is let in when its role is free and the id is known or there is room.
Join(c) ==
  /\ status[c] = "new"
  /\ Holder(c) = NoConn
  /\ IdOf[c] \in LiveIds \/ Cardinality(LiveIds) < MaxTunnels
  /\ holder' = [holder EXCEPT ![IdOf[c]][RoleOf[c]] = c]
  /\ status' = [status EXCEPT ![c] = "in"]
  /\ UNCHANGED <<sent, pipe, sealed, got>>

\* Otherwise it is turned away and holds nothing.
Refuse(c) ==
  /\ status[c] = "new"
  /\ \/ Holder(c) # NoConn
     \/ IdOf[c] \notin LiveIds /\ Cardinality(LiveIds) >= MaxTunnels
  /\ status' = [status EXCEPT ![c] = "out"]
  /\ UNCHANGED <<holder, sent, pipe, sealed, got>>

\* A frame enters the pipe of the present peer, unless that pipe is sealed.
Send(c) ==
  LET p == PeerOf(c)
      f == [from |-> c, n |-> sent[c] + 1]
  IN  /\ status[c] = "in"
      /\ sent' = [sent EXCEPT ![c] = @ + 1]
      /\ pipe' = IF p # NoConn /\ ~sealed[p]
                 THEN [pipe EXCEPT ![p] = Append(@, f)]
                 ELSE pipe
      /\ UNCHANGED <<holder, status, sealed, got>>

Receive(c) ==
  /\ pipe[c] # <<>>
  /\ got'  = [got EXCEPT ![c] = Append(@, Head(pipe[c]))]
  /\ pipe' = [pipe EXCEPT ![c] = Tail(@)]
  /\ UNCHANGED <<holder, status, sent, sealed>>

\* The way to a side breaks: what was in its pipe is lost.
Break(c) ==
  /\ status[c] # "new"
  /\ sealed' = [sealed EXCEPT ![c] = TRUE]
  /\ pipe'   = [pipe EXCEPT ![c] = <<>>]
  /\ UNCHANGED <<holder, status, sent, got>>

\* Mutant: the peer of a side that leaves is told nothing.
SealedNone(c) == sealed

\* The pipe of the peer is sealed by a side that leaves.
SealedBy(c) == IF PeerOf(c) = NoConn THEN sealed ELSE [sealed EXCEPT ![PeerOf(c)] = TRUE]

\* A side leaves, and its peer is told in the same step.
Leave(c) ==
  /\ status[c] = "in"
  /\ holder' = [holder EXCEPT ![IdOf[c]][RoleOf[c]] = NoConn]
  /\ status' = [status EXCEPT ![c] = "out"]
  /\ sealed' = SealedBy(c)
  /\ UNCHANGED <<sent, pipe, got>>

Next ==
  \E c \in Conns :
    Join(c) \/ Refuse(c) \/ Send(c) \/ Receive(c) \/ Break(c) \/ Leave(c)

Spec == Init /\ [][Next]_vars
=============================================================================
