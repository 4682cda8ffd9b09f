---------------------------- MODULE TunnelProofs ----------------------------
(***************************************************************************)
(* Proofs about Tunnel, for any number of viewers, whatever clients they   *)
(* are and however much they say: TypeOK, VouchedCalls and OwnAnswers.     *)
(*                                                                         *)
(* Both rest on what the relay's contract gives a session that asks nobody *)
(* who he is.  A viewer that leaves seals the pipe to the session, so that *)
(* in all its life the session hears one viewer; and a frame of the        *)
(* session goes to one viewer.  The claims a Hello left are then those of  *)
(* whoever calls, and a Ready that reached two viewers was said twice.     *)
(***************************************************************************)
EXTENDS Tunnel, TLAPS

Roles  == Relay!Roles
Frames == Relay!Frames
Seat(r) == holder[Id][r]

\* What is, or will be, at a client's end of the relay.
Way(c) == got[c] \o pipe[c]

----------------------------------------------------------------------------
(***************************************************************************)
(* The relay.                                                              *)
(***************************************************************************)

RelayTypes ==
  /\ holder \in [Ids -> [Roles -> Conns \cup {NoConn}]]
  /\ status \in [Conns -> {"new", "in", "out"}]
  /\ sent \in [Conns -> Nat]
  /\ pipe \in [Conns -> Seq(Frames)] /\ got \in [Conns -> Seq(Frames)]
  /\ sealed \in [Conns -> BOOLEAN]

\* Each role is held by the one client of that role that is in.
Seated ==
  /\ Seat("agent") \in {Agent, NoConn}
  /\ Seat("viewer") \in Viewers \cup {NoConn}
  /\ \A c \in Conns : status[c] = "in" <=> Seat(RoleOf[c]) = c

\* Who is not in yet is sent nothing; the session is sent what viewers have sent,
\* and viewers what the session has, each frame to one of them.
NewEmpty == \A c \in Conns : status[c] = "new" => Way(c) = <<>>
WaysFrom ==
  \A c \in Conns : \A k \in 1..Len(Way(c)) :
    /\ Way(c)[k].from = Agent <=> c # Agent
    /\ Way(c)[k].n \in 1..sent[Way(c)[k].from]
ToOne ==
  \A v, w \in Viewers : \A j \in 1..Len(Way(v)), k \in 1..Len(Way(w)) :
    Way(v)[j].n = Way(w)[k].n => v = w

\* The session is sent the frames of one viewer, in order; as long as its pipe is
\* not sealed, that viewer is still there.
OneViewer ==
  \A j, k \in 1..Len(Way(Agent)) :
    /\ Way(Agent)[j].from = Way(Agent)[k].from
    /\ j < k => Way(Agent)[j].n < Way(Agent)[k].n
Paired ==
  Seat("agent") = Agent /\ ~sealed[Agent] /\ Way(Agent) # <<>>
    => Seat("viewer") = Way(Agent)[1].from

RelayInv == RelayTypes /\ Seated /\ NewEmpty /\ WaysFrom /\ ToOne /\ OneViewer /\ Paired

LEMMA ConnFacts ==
  ASSUME NEW c \in Conns
  PROVE  /\ IdOf[c] = Id /\ Id \in Ids /\ Agent \in Conns /\ Agent \notin Viewers
         /\ RoleOf[c] \in Roles /\ Roles = {"agent", "viewer"}
         /\ RoleOf[c] = IF c = Agent THEN "agent" ELSE "viewer"
         /\ c \in Viewers <=> c # Agent
         /\ c # NoConn
  BY TunnelAssumption DEF IdOf, RoleOf, Ids, Conns, Roles, Relay!Roles

LEMMA PeerFacts ==
  ASSUME NEW c \in Conns
  PROVE  /\ Relay!Holder(c) = Seat(RoleOf[c])
         /\ Relay!PeerOf(c) = IF c = Agent THEN Seat("viewer") ELSE Seat("agent")
  BY ConnFacts DEF Relay!Holder, Relay!PeerOf, Relay!PeerRole, Seat

LEMMA FrameFacts ==
  /\ \A f \in Frames : f.from \in Conns /\ f.n \in Nat
  /\ \A c \in Conns, n \in Nat : [from |-> c, n |-> n] \in Frames
  BY DEF Frames, Relay!Frames

LEMMA Joined ==
  ASSUME NEW S, NEW a \in Seq(S), NEW b \in Seq(S)
  PROVE  /\ a \o b \in Seq(S)
         /\ Len(a \o b) \in Nat /\ Len(a) \in Nat /\ Len(a) <= Len(a \o b)
         /\ \A k \in 1..Len(a \o b) : (a \o b)[k] \in S
         /\ \A k \in 1..Len(a) : k \in 1..Len(a \o b) /\ (a \o b)[k] = a[k]
  OBVIOUS

LEMMA WayType ==
  ASSUME RelayTypes, NEW c \in Conns
  PROVE  /\ got[c] \in Seq(Frames) /\ pipe[c] \in Seq(Frames) /\ Way(c) \in Seq(Frames)
         /\ Len(Way(c)) \in Nat /\ Len(got[c]) \in Nat /\ Len(got[c]) <= Len(Way(c))
         /\ \A k \in 1..Len(Way(c)) : Way(c)[k] \in Frames
         /\ \A k \in 1..Len(got[c]) : k \in 1..Len(Way(c)) /\ Way(c)[k] = got[c][k]
  <1>1. got[c] \in Seq(Frames) /\ pipe[c] \in Seq(Frames)
    BY DEF RelayTypes
  <1> QED
    BY <1>1, Joined DEF Way

LEMMA MoveHead ==
  ASSUME NEW a \in Seq(Frames), NEW b \in Seq(Frames), b # <<>>
  PROVE  Append(a, Head(b)) \o Tail(b) = a \o b
  OBVIOUS

LEMMA PutLast ==
  ASSUME NEW a \in Seq(Frames), NEW b \in Seq(Frames), NEW f \in Frames
  PROVE  a \o Append(b, f) = Append(a \o b, f)
  OBVIOUS

LEMMA AppendAt ==
  ASSUME NEW S, NEW s \in Seq(S), NEW e \in S
  PROVE  /\ Len(s) \in Nat /\ Len(Append(s, e)) = Len(s) + 1
         /\ \A k \in 1..Len(s) : Append(s, e)[k] = s[k]
         /\ Append(s, e)[Len(s) + 1] = e
  OBVIOUS

LEMMA HolderSet ==
  ASSUME NEW C, NEW h \in [Ids -> [Roles -> C]], NEW i \in Ids, NEW r \in Roles, NEW x \in C
  PROVE  [h EXCEPT ![i][r] = x] \in [Ids -> [Roles -> C]]
  OBVIOUS

LEMMA RelayTypesStep ==
  ASSUME RelayTypes, NEW c \in Conns, RelayStep(c)
  PROVE  RelayTypes'
  <1>0. RoleOf[c] \in Roles /\ IdOf[c] = Id /\ Id \in Ids
    BY ConnFacts
  <1>1. CASE Relay!Join(c) \/ Relay!Refuse(c)
    <2>1. holder' \in [Ids -> [Roles -> Conns \cup {NoConn}]]
      <3>1. holder' = holder \/ holder' = [holder EXCEPT ![Id][RoleOf[c]] = c]
        BY <1>0, <1>1 DEF Relay!Join, Relay!Refuse
      <3>2. /\ holder \in [Ids -> [Roles -> Conns \cup {NoConn}]]
            /\ c \in Conns \cup {NoConn}
        BY DEF RelayTypes
      <3>3. [holder EXCEPT ![Id][RoleOf[c]] = c] \in [Ids -> [Roles -> Conns \cup {NoConn}]]
        BY <1>0, <3>2, HolderSet
      <3> QED
        BY <3>1, <3>2, <3>3
    <2>2. status' \in [Conns -> {"new", "in", "out"}]
      BY <1>1 DEF Relay!Join, Relay!Refuse, RelayTypes
    <2> QED
      BY <1>1, <2>1, <2>2 DEF Relay!Join, Relay!Refuse, RelayTypes
  <1>2. CASE Relay!Send(c)
    <2>0. sent[c] \in Nat
      BY DEF RelayTypes
    <2>1. [from |-> c, n |-> sent[c] + 1] \in Frames
      BY <2>0, FrameFacts
    <2>2. sent' \in [Conns -> Nat]
      BY <1>2, <2>1 DEF Relay!Send, RelayTypes
    <2>3. pipe' \in [Conns -> Seq(Frames)]
      <3>1. PICK f \in Frames : f = [from |-> c, n |-> sent[c] + 1]
        BY <2>1
      <3>2. pipe' = pipe \/ pipe' = [pipe EXCEPT ![Relay!PeerOf(c)] = Append(@, f)]
        BY <1>2, <3>1 DEF Relay!Send
      <3>3. \A p \in Conns : pipe[p] \in Seq(Frames) /\ Append(pipe[p], f) \in Seq(Frames)
        BY DEF RelayTypes
      <3> QED
        BY <3>2, <3>3 DEF RelayTypes
    <2> QED
      BY <1>2, <2>2, <2>3 DEF Relay!Send, RelayTypes
  <1>3. CASE Relay!Receive(c)
    <2>1. pipe[c] # <<>> /\ pipe[c] \in Seq(Frames) /\ got[c] \in Seq(Frames)
      BY <1>3 DEF Relay!Receive, RelayTypes
    <2>2. Tail(pipe[c]) \in Seq(Frames) /\ Append(got[c], Head(pipe[c])) \in Seq(Frames)
      BY <2>1
    <2> QED
      BY <1>3, <2>2 DEF Relay!Receive, RelayTypes
  <1>4. CASE Relay!Leave(c)
    <2>1. sealed' \in [Conns -> BOOLEAN]
      BY <1>4 DEF Relay!Leave, Relay!SealedBy, RelayTypes
    <2>2. holder' \in [Ids -> [Roles -> Conns \cup {NoConn}]]
      BY <1>0, <1>4, HolderSet DEF Relay!Leave, RelayTypes
    <2> QED
      BY <1>4, <2>1, <2>2 DEF Relay!Leave, RelayTypes
  <1> QED
    BY <1>1, <1>2, <1>3, <1>4 DEF RelayStep, Admit, Forward, Carry, Depart

\* A frame only moves along a way; a new one is put at its end by a send of the
\* peer.
LEMMA WayStep ==
  ASSUME RelayTypes, NEW c \in Conns, RelayStep(c), NEW x \in Conns
  PROVE  \/ Way(x)' = Way(x)
         \/ /\ Relay!Send(c) /\ x = Relay!PeerOf(c) /\ ~sealed[x]
            /\ Way(x)' = Append(Way(x), [from |-> c, n |-> sent[c] + 1])
  <1>1. CASE Relay!Send(c)
    <2>1. got' = got
      BY <1>1 DEF Relay!Send
    <2>0. sent[c] \in Nat
      BY DEF RelayTypes
    <2>1a. [from |-> c, n |-> sent[c] + 1] \in Frames
      BY <2>0, FrameFacts
    <2>2. PICK f \in Frames : f = [from |-> c, n |-> sent[c] + 1]
      BY <2>1a
    <2>3. CASE x = Relay!PeerOf(c) /\ x # NoConn /\ ~sealed[x]
      <3>1. pipe'[x] = Append(pipe[x], f)
        BY <1>1, <2>2, <2>3 DEF Relay!Send, RelayTypes
      <3>2. Way(x)' = Append(Way(x), f)
        <4>1. got[x] \in Seq(Frames) /\ pipe[x] \in Seq(Frames)
          BY WayType
        <4>2. got[x] \o Append(pipe[x], f) = Append(got[x] \o pipe[x], f)
          BY <4>1, PutLast
        <4> QED
          BY <2>1, <3>1, <4>2 DEF Way
      <3> QED
        BY <1>1, <2>2, <2>3, <3>2
    <2>4. CASE ~(x = Relay!PeerOf(c) /\ x # NoConn /\ ~sealed[x])
      <3>1. pipe'[x] = pipe[x]
        BY <1>1, <2>4, ConnFacts DEF Relay!Send, RelayTypes
      <3> QED
        BY <2>1, <3>1 DEF Way
    <2> QED
      BY <2>3, <2>4
  <1>2. CASE Relay!Receive(c)
    <2>1. CASE x = c
      <3>1. got'[x] = Append(got[x], Head(pipe[x])) /\ pipe'[x] = Tail(pipe[x]) /\ pipe[x] # <<>>
        BY <1>2, <2>1 DEF Relay!Receive, RelayTypes
      <3>2. got[x] \in Seq(Frames) /\ pipe[x] \in Seq(Frames)
        BY WayType
      <3>3. Append(got[x], Head(pipe[x])) \o Tail(pipe[x]) = got[x] \o pipe[x]
        BY <3>1, <3>2, MoveHead
      <3> QED
        BY <3>1, <3>3 DEF Way
    <2>2. CASE x # c
      BY <1>2, <2>2 DEF Relay!Receive, RelayTypes, Way
    <2> QED
      BY <2>1, <2>2
  <1>3. CASE Relay!Join(c) \/ Relay!Refuse(c) \/ Relay!Leave(c)
    BY <1>3 DEF Relay!Join, Relay!Refuse, Relay!Leave, Way
  <1> QED
    BY <1>1, <1>2, <1>3 DEF RelayStep, Admit, Forward, Carry, Depart

\* The frames of a way stay where they are; what is added is one frame of a sender
\* whose peer it is.
LEMMA WayGrows ==
  ASSUME RelayTypes, NEW c \in Conns, RelayStep(c), NEW x \in Conns
  PROVE  /\ \A k \in 1..Len(Way(x)) : k \in 1..Len(Way(x)') /\ Way(x)'[k] = Way(x)[k]
         /\ \A k \in 1..Len(Way(x)') :
              \/ k \in 1..Len(Way(x))
              \/ /\ k = Len(Way(x)) + 1 /\ Relay!Send(c)
                 /\ x = Relay!PeerOf(c) /\ ~sealed[x]
                 /\ Way(x)'[k].from = c /\ Way(x)'[k].n = sent[c] + 1
  <1>1. Way(x) \in Seq(Frames) /\ Len(Way(x)) \in Nat
    BY WayType
  <1>2. CASE Way(x)' = Way(x)
    BY <1>1, <1>2
  <1>3. CASE /\ Relay!Send(c) /\ x = Relay!PeerOf(c) /\ ~sealed[x]
             /\ Way(x)' = Append(Way(x), [from |-> c, n |-> sent[c] + 1])
    <2>1. sent[c] \in Nat
      BY DEF RelayTypes
    <2>2. [from |-> c, n |-> sent[c] + 1] \in Frames
      BY <2>1, FrameFacts
    <2>3. PICK f \in Frames : f = [from |-> c, n |-> sent[c] + 1]
      BY <2>2
    <2>4. /\ Len(Append(Way(x), f)) = Len(Way(x)) + 1
          /\ \A k \in 1..Len(Way(x)) : Append(Way(x), f)[k] = Way(x)[k]
          /\ Append(Way(x), f)[Len(Way(x)) + 1] = f
      BY <1>1, AppendAt
    <2>5. f.from = c /\ f.n = sent[c] + 1
      BY <2>3
    <2> QED
      BY <1>1, <1>3, <2>3, <2>4, <2>5
  <1> QED
    BY <1>2, <1>3, WayStep

\* What the relay's actions do to the seats.
LEMMA SeatStep ==
  ASSUME RelayTypes, NEW c \in Conns, NEW r \in Roles
  PROVE  /\ Relay!Join(c) => Seat(r)' = IF r = RoleOf[c] THEN c ELSE Seat(r)
         /\ Relay!Leave(c) => Seat(r)' = IF r = RoleOf[c] THEN NoConn ELSE Seat(r)
         /\ Relay!Refuse(c) \/ Relay!Send(c) \/ Relay!Receive(c) => Seat(r)' = Seat(r)
  <1>1. RoleOf[c] \in Roles /\ IdOf[c] = Id /\ Id \in Ids
    BY ConnFacts
  <1>2. Relay!Join(c) => Seat(r)' = IF r = RoleOf[c] THEN c ELSE Seat(r)
    BY <1>1 DEF Relay!Join, Seat, RelayTypes
  <1>3. Relay!Leave(c) => Seat(r)' = IF r = RoleOf[c] THEN NoConn ELSE Seat(r)
    BY <1>1 DEF Relay!Leave, Seat, RelayTypes
  <1>4. Relay!Refuse(c) \/ Relay!Send(c) \/ Relay!Receive(c) => Seat(r)' = Seat(r)
    BY DEF Relay!Refuse, Relay!Send, Relay!Receive, Seat
  <1> QED
    BY <1>2, <1>3, <1>4

LEMMA StatusStep ==
  ASSUME RelayTypes, NEW c \in Conns, NEW x \in Conns
  PROVE  /\ Relay!Join(c) => status[c] = "new" /\ status'[x] = IF x = c THEN "in" ELSE status[x]
         /\ Relay!Refuse(c) => status[c] = "new" /\ status'[x] = IF x = c THEN "out" ELSE status[x]
         /\ Relay!Leave(c) => status[c] = "in" /\ status'[x] = IF x = c THEN "out" ELSE status[x]
         /\ Relay!Send(c) => status[c] = "in" /\ status' = status
         /\ Relay!Receive(c) => status' = status
  BY DEF Relay!Join, Relay!Refuse, Relay!Leave, Relay!Send, Relay!Receive, RelayTypes

LEMMA RelayCases ==
  ASSUME NEW c \in Conns, RelayStep(c)
  PROVE  \/ Relay!Join(c) \/ Relay!Refuse(c) \/ Relay!Send(c)
         \/ Relay!Receive(c) \/ Relay!Leave(c)
  BY DEF RelayStep, Admit, Forward, Carry, Depart

LEMMA SeatedStep ==
  ASSUME RelayTypes, Seated, NEW c \in Conns, RelayStep(c)
  PROVE  Seated'
  <1>1. /\ "agent" \in Roles /\ "viewer" \in Roles
        /\ RoleOf[c] = IF c = Agent THEN "agent" ELSE "viewer"
        /\ c \in Viewers <=> c # Agent
    BY ConnFacts
  <1>2. Seat("agent")' \in {Agent, NoConn} /\ Seat("viewer")' \in Viewers \cup {NoConn}
    BY <1>1, SeatStep, RelayCases DEF Seated
  <1>3. ASSUME NEW x \in Conns
        PROVE  status'[x] = "in" <=> Seat(RoleOf[x])' = x
    <2>1. RoleOf[x] \in Roles /\ x # NoConn
      BY ConnFacts
    <2>2. status[x] = "in" <=> Seat(RoleOf[x]) = x
      BY DEF Seated
    <2>3. status[c] = "in" <=> Seat(RoleOf[c]) = c
      BY DEF Seated
    <2>4. CASE Relay!Join(c)
      <3>1. Seat(RoleOf[c]) = NoConn
        BY <2>4, PeerFacts DEF Relay!Join
      <3>2. Seat(RoleOf[x])' = IF RoleOf[x] = RoleOf[c] THEN c ELSE Seat(RoleOf[x])
        BY <2>1, <2>4, SeatStep
      <3> QED
        BY <2>1, <2>2, <2>4, <3>1, <3>2, StatusStep
    <2>5. CASE Relay!Leave(c)
      <3>1. Seat(RoleOf[x])' = IF RoleOf[x] = RoleOf[c] THEN NoConn ELSE Seat(RoleOf[x])
        BY <2>1, <2>5, SeatStep
      <3>2. Seat(RoleOf[c]) = c
        BY <2>3, <2>5, StatusStep
      <3> QED
        BY <2>1, <2>2, <2>5, <3>1, <3>2, StatusStep
    <2>6. CASE Relay!Refuse(c)
      <3>1. Seat(RoleOf[x])' = Seat(RoleOf[x])
        BY <2>1, <2>6, SeatStep
      <3> QED
        BY <2>2, <2>6, <3>1, StatusStep
    <2>7. CASE Relay!Send(c) \/ Relay!Receive(c)
      <3>1. Seat(RoleOf[x])' = Seat(RoleOf[x])
        BY <2>1, <2>7, SeatStep
      <3> QED
        BY <2>2, <2>7, <3>1, StatusStep
    <2> QED
      BY <2>4, <2>5, <2>6, <2>7, RelayCases
  <1> QED
    BY <1>2, <1>3 DEF Seated

\* A frame that is added is a viewer's on its way to the session, or the session's
\* on its way to the viewer that is in.
LEMMA Added ==
  ASSUME RelayTypes, Seated, NEW c \in Conns, Relay!Send(c),
         NEW x \in Conns, x = Relay!PeerOf(c)
  PROVE  /\ x = Agent <=> c # Agent
         /\ status[x] = "in" /\ status[c] = "in"
         /\ c # Agent => Seat("agent") = Agent /\ Seat("viewer") = c
  <1>1. /\ x = IF c = Agent THEN Seat("viewer") ELSE Seat("agent")
        /\ x # NoConn
    BY PeerFacts, ConnFacts
  <1>2. x = Agent <=> c # Agent
    BY <1>1, ConnFacts DEF Seated
  <1>3. status[c] = "in"
    BY DEF Relay!Send
  <1>4. Seat(RoleOf[c]) = c
    BY <1>3 DEF Seated
  <1>5. Seat(RoleOf[x]) = x
    BY <1>1, <1>2, ConnFacts
  <1> QED
    BY <1>1, <1>2, <1>3, <1>4, <1>5, ConnFacts DEF Seated

LEMMA NewEmptyStep ==
  ASSUME RelayTypes, Seated, NewEmpty, NEW c \in Conns, RelayStep(c)
  PROVE  NewEmpty'
  <1> SUFFICES ASSUME NEW x \in Conns, status'[x] = "new"
               PROVE  Way(x)' = <<>>
    BY DEF NewEmpty
  <1>1. status[x] = "new"
    BY StatusStep, RelayCases
  <1>2. Way(x) = <<>>
    BY <1>1 DEF NewEmpty
  <1>3. ~(Relay!Send(c) /\ x = Relay!PeerOf(c))
    BY <1>1, Added
  <1> QED
    BY <1>2, <1>3, WayStep

LEMMA SentStep ==
  ASSUME RelayTypes, NEW c \in Conns, RelayStep(c)
  PROVE  /\ \A x \in Conns : sent[x] \in Nat /\ sent'[x] \in Nat /\ sent[x] <= sent'[x]
         /\ Relay!Send(c) => sent'[c] = sent[c] + 1
  <1>1. \A x \in Conns : sent[x] \in Nat
    BY DEF RelayTypes
  <1>2. sent' = sent \/ sent' = [sent EXCEPT ![c] = @ + 1]
    BY RelayCases
    DEF Relay!Join, Relay!Refuse, Relay!Leave, Relay!Send, Relay!Receive
  <1>3. Relay!Send(c) => sent' = [sent EXCEPT ![c] = @ + 1]
    BY DEF Relay!Send
  <1>4. sent \in [Conns -> Nat]
    BY DEF RelayTypes
  <1>5. \A x \in Conns : sent'[x] = sent[x] \/ (x = c /\ sent'[x] = sent[x] + 1)
    BY <1>2, <1>4
  <1>6. Relay!Send(c) => sent'[c] = sent[c] + 1
    BY <1>3, <1>4
  <1> QED
    BY <1>1, <1>5, <1>6

LEMMA WaysFromStep ==
  ASSUME RelayTypes, Seated, WaysFrom, NEW c \in Conns, RelayStep(c)
  PROVE  WaysFrom'
  <1> SUFFICES ASSUME NEW x \in Conns, NEW k \in 1..Len(Way(x)')
               PROVE  /\ Way(x)'[k].from = Agent <=> x # Agent
                      /\ Way(x)'[k].n \in 1..sent'[Way(x)'[k].from]
    BY DEF WaysFrom
  <1>1. CASE k \in 1..Len(Way(x))
    <2>1. Way(x)'[k] = Way(x)[k]
      BY <1>1, WayGrows
    <2>2. Way(x)[k].from \in Conns
      BY <1>1, WayType, FrameFacts
    <2>3. /\ Way(x)[k].from = Agent <=> x # Agent
          /\ Way(x)[k].n \in 1..sent[Way(x)[k].from]
      BY <1>1 DEF WaysFrom
    <2>4. /\ sent[Way(x)[k].from] \in Nat /\ sent'[Way(x)[k].from] \in Nat
          /\ sent[Way(x)[k].from] <= sent'[Way(x)[k].from]
      BY <2>2, SentStep
    <2> QED
      BY <2>1, <2>3, <2>4
  <1>2. CASE /\ Relay!Send(c) /\ x = Relay!PeerOf(c)
             /\ Way(x)'[k].from = c /\ Way(x)'[k].n = sent[c] + 1
    <2>1. x = Agent <=> c # Agent
      BY <1>2, Added
    <2>2. sent'[c] = sent[c] + 1 /\ sent[c] \in Nat
      BY <1>2, SentStep
    <2> QED
      BY <1>2, <2>1, <2>2
  <1> QED
    BY <1>1, <1>2, WayGrows

LEMMA ToOneStep ==
  ASSUME RelayTypes, Seated, WaysFrom, ToOne, NEW c \in Conns, RelayStep(c)
  PROVE  ToOne'
  \* A frame that is added is numbered as none that is on a way to a viewer.
  <1>1. ASSUME NEW v \in Viewers, NEW w \in Viewers,
               NEW j \in 1..Len(Way(v)'), NEW k \in 1..Len(Way(w)),
               j \notin 1..Len(Way(v))
        PROVE  Way(v)'[j].n # Way(w)[k].n /\ v = Relay!PeerOf(c)
    <2>0. v \in Conns /\ w \in Conns /\ v # Agent /\ w # Agent
      BY ConnFacts DEF Conns
    <2>1. /\ Relay!Send(c) /\ v = Relay!PeerOf(c) /\ Way(v)'[j].n = sent[c] + 1
      BY <1>1, <2>0, WayGrows
    <2>2. c = Agent
      BY <2>0, <2>1, Added
    <2>3. Way(w)[k].n \in 1..sent[Agent]
      BY <2>0 DEF WaysFrom
    <2>4. sent[Agent] \in Nat
      BY <2>2 DEF RelayTypes
    <2> QED
      BY <2>1, <2>2, <2>3, <2>4
  <1> SUFFICES ASSUME NEW v \in Viewers, NEW w \in Viewers,
                      NEW j \in 1..Len(Way(v)'), NEW k \in 1..Len(Way(w)'),
                      Way(v)'[j].n = Way(w)'[k].n
               PROVE  v = w
    BY DEF ToOne
  <1>2. v \in Conns /\ w \in Conns
    BY DEF Conns
  <1>3. /\ j \in 1..Len(Way(v)) => Way(v)'[j] = Way(v)[j]
        /\ k \in 1..Len(Way(w)) => Way(w)'[k] = Way(w)[k]
    BY <1>2, WayGrows
  <1>4. CASE j \in 1..Len(Way(v)) /\ k \in 1..Len(Way(w))
    BY <1>3, <1>4 DEF ToOne
  <1>5. CASE j \notin 1..Len(Way(v)) /\ k \in 1..Len(Way(w))
    BY <1>1, <1>3, <1>5
  <1>6. CASE j \in 1..Len(Way(v)) /\ k \notin 1..Len(Way(w))
    BY <1>1, <1>3, <1>6
  <1>7. CASE j \notin 1..Len(Way(v)) /\ k \notin 1..Len(Way(w))
    BY <1>2, <1>7, WayGrows
  <1> QED
    BY <1>4, <1>5, <1>6, <1>7

LEMMA OneViewerStep ==
  ASSUME RelayTypes, Seated, WaysFrom, OneViewer, Paired, NEW c \in Conns, RelayStep(c)
  PROVE  OneViewer'
  <1>0. Agent \in Conns /\ Len(Way(Agent)) \in Nat
    BY ConnFacts, WayType
  <1>1. ASSUME NEW j \in 1..Len(Way(Agent)'), NEW k \in 1..Len(Way(Agent)), j \notin 1..Len(Way(Agent))
        PROVE  /\ Way(Agent)'[j].from = Way(Agent)[k].from
               /\ Way(Agent)[k].n < Way(Agent)'[j].n /\ k < j
    <2>1. /\ Relay!Send(c) /\ Agent = Relay!PeerOf(c) /\ ~sealed[Agent]
          /\ j = Len(Way(Agent)) + 1
          /\ Way(Agent)'[j].from = c /\ Way(Agent)'[j].n = sent[c] + 1
      BY <1>0, <1>1, WayGrows
    <2>2. Seat("agent") = Agent /\ Seat("viewer") = c
      BY <1>0, <2>1, Added
    <2>3. Way(Agent) # <<>>
      BY <1>0
    <2>4. Way(Agent)[1].from = c
      BY <2>1, <2>2, <2>3 DEF Paired
    <2>5. Way(Agent)[k].from = Way(Agent)[1].from
      BY <1>0 DEF OneViewer
    <2>6. Way(Agent)[k].n \in 1..sent[c] /\ sent[c] \in Nat
      BY <1>0, <2>4, <2>5 DEF WaysFrom, RelayTypes
    <2> QED
      BY <1>0, <2>1, <2>4, <2>5, <2>6
  <1> SUFFICES ASSUME NEW j \in 1..Len(Way(Agent)'), NEW k \in 1..Len(Way(Agent)')
               PROVE  /\ Way(Agent)'[j].from = Way(Agent)'[k].from
                      /\ j < k => Way(Agent)'[j].n < Way(Agent)'[k].n
    BY DEF OneViewer
  <1>2. /\ j \in 1..Len(Way(Agent)) => Way(Agent)'[j] = Way(Agent)[j]
        /\ k \in 1..Len(Way(Agent)) => Way(Agent)'[k] = Way(Agent)[k]
    BY <1>0, WayGrows
  <1>3. CASE j \in 1..Len(Way(Agent)) /\ k \in 1..Len(Way(Agent))
    BY <1>2, <1>3 DEF OneViewer
  <1>4. CASE j \notin 1..Len(Way(Agent)) /\ k \in 1..Len(Way(Agent))
    BY <1>1, <1>2, <1>4
  <1>5. CASE j \in 1..Len(Way(Agent)) /\ k \notin 1..Len(Way(Agent))
    BY <1>1, <1>2, <1>5
  <1>6. CASE j \notin 1..Len(Way(Agent)) /\ k \notin 1..Len(Way(Agent))
    <2>1. j = Len(Way(Agent)) + 1 /\ k = Len(Way(Agent)) + 1
      BY <1>0, <1>6, WayGrows
    <2> QED
      BY <1>0, <2>1
  <1> QED
    BY <1>3, <1>4, <1>5, <1>6

LEMMA SealedStep ==
  ASSUME RelayTypes, NEW c \in Conns, RelayStep(c), NEW x \in Conns
  PROVE  /\ sealed[x] => sealed'[x]
         /\ Relay!Leave(c) /\ x = Relay!PeerOf(c) => sealed'[x]
  <1>1. x # NoConn /\ sealed \in [Conns -> BOOLEAN]
    BY ConnFacts DEF RelayTypes
  <1>2. sealed' = sealed \/ (Relay!Leave(c) /\ sealed' = Relay!SealedBy(c))
    BY RelayCases
    DEF Relay!Join, Relay!Refuse, Relay!Leave, Relay!Send, Relay!Receive
  <1>3. Relay!Leave(c) => sealed' = Relay!SealedBy(c)
    BY DEF Relay!Leave
  <1>4. /\ sealed[x] => Relay!SealedBy(c)[x]
        /\ x = Relay!PeerOf(c) => Relay!SealedBy(c)[x]
    BY <1>1 DEF Relay!SealedBy
  <1> QED
    BY <1>2, <1>3, <1>4

LEMMA NoSend ==
  ASSUME RelayTypes, NEW c \in Conns,
         Relay!Join(c) \/ Relay!Refuse(c) \/ Relay!Receive(c) \/ Relay!Leave(c)
  PROVE  ~Relay!Send(c)
  <1>1. sent[c] \in Nat
    BY DEF RelayTypes
  <1>2. sent' = sent
    BY DEF Relay!Join, Relay!Refuse, Relay!Leave, Relay!Receive
  <1>3. Relay!Send(c) => sent'[c] = sent[c] + 1
    BY DEF Relay!Send, RelayTypes
  <1> QED
    BY <1>1, <1>2, <1>3

LEMMA PairedStep ==
  ASSUME RelayTypes, Seated, NewEmpty, OneViewer, Paired, NEW c \in Conns, RelayStep(c)
  PROVE  Paired'
  <1>0. /\ Agent \in Conns /\ Len(Way(Agent)) \in Nat /\ Way(Agent) \in Seq(Frames)
        /\ "agent" \in Roles /\ "viewer" \in Roles
        /\ RoleOf[c] = IF c = Agent THEN "agent" ELSE "viewer"
        /\ c \in Viewers <=> c # Agent
        /\ Agent # NoConn /\ Agent \notin Viewers
    BY ConnFacts, WayType
  <1> SUFFICES ASSUME Seat("agent")' = Agent, ~sealed'[Agent], Way(Agent)' # <<>>
               PROVE  Seat("viewer")' = Way(Agent)'[1].from
    BY DEF Paired
  <1>1. ~sealed[Agent]
    BY <1>0, SealedStep
  <1>2. Way(Agent) # <<>> => 1 \in 1..Len(Way(Agent)) /\ Way(Agent)'[1] = Way(Agent)[1]
    <2>1. Way(Agent) # <<>> => 1 \in 1..Len(Way(Agent))
      BY <1>0
    <2> QED
      BY <1>0, <2>1, WayGrows
  <1>3. ~Relay!Send(c) => Way(Agent)' = Way(Agent)
    BY <1>0, WayStep
  <1>4. CASE Relay!Join(c)
    <2>1. Way(Agent) # <<>>
      BY <1>0, <1>3, <1>4, NoSend
    <2>2. c # Agent
      BY <1>4, <2>1, StatusStep DEF NewEmpty
    <2>3. Seat("agent") = Agent
      BY <1>0, <1>4, <2>2, SeatStep
    <2>4. Seat("viewer") = Way(Agent)[1].from
      BY <1>1, <2>1, <2>3 DEF Paired
    <2>5. Way(Agent)[1].from \in Conns
      BY <1>0, <1>2, <2>1, WayType, FrameFacts
    <2>6. Seat("viewer") = NoConn
      BY <1>0, <1>4, <2>2, PeerFacts DEF Relay!Join
    <2> QED
      BY <2>4, <2>5, <2>6, ConnFacts
  <1>5. CASE Relay!Refuse(c) \/ Relay!Receive(c)
    <2>1. Way(Agent) # <<>>
      BY <1>0, <1>3, <1>5, NoSend
    <2> QED
      BY <1>0, <1>1, <1>2, <1>5, <2>1, SeatStep DEF Paired
  <1>6. CASE Relay!Send(c)
    <2>1. Seat("agent") = Agent /\ Seat("viewer")' = Seat("viewer")
      BY <1>0, <1>6, SeatStep
    <2>2. CASE Way(Agent) # <<>>
      BY <1>1, <1>2, <2>1, <2>2 DEF Paired
    <2>3. CASE Way(Agent) = <<>>
      <3>1. /\ Agent = Relay!PeerOf(c)
            /\ Way(Agent)' = Append(Way(Agent), [from |-> c, n |-> sent[c] + 1])
        BY <1>0, <2>3, WayStep
      <3>2. Seat("viewer") = c
        BY <1>0, <1>6, <3>1, Added
      <3>3. Way(Agent)'[1].from = c
        BY <2>3, <3>1
      <3> QED
        BY <2>1, <3>2, <3>3
    <2> QED
      BY <2>2, <2>3
  <1>7. CASE Relay!Leave(c)
    <2>1. c # Agent
      BY <1>0, <1>7, SeatStep
    <2>2. Seat("agent") = Agent
      BY <1>0, <1>7, <2>1, SeatStep
    <2>3. Agent = Relay!PeerOf(c)
      BY <2>1, <2>2, PeerFacts
    <2> QED
      BY <1>0, <1>7, <2>3, SealedStep
  <1> QED
    BY <1>4, <1>5, <1>6, <1>7, RelayCases

LEMMA RelayInvStep ==
  ASSUME RelayInv, NEW c \in Conns, RelayStep(c)
  PROVE  RelayInv'
  <1>1. /\ RelayTypes /\ Seated /\ NewEmpty /\ WaysFrom
        /\ ToOne /\ OneViewer /\ Paired
    BY DEF RelayInv
  <1>2. RelayTypes' /\ Seated' /\ NewEmpty' /\ WaysFrom'
    BY <1>1, RelayTypesStep, SeatedStep, NewEmptyStep, WaysFromStep
  <1>3. ToOne' /\ OneViewer' /\ Paired'
    BY <1>1, ToOneStep, OneViewerStep, PairedStep
  <1> QED
    BY <1>2, <1>3 DEF RelayInv

LEMMA RelayInvInit == Relay!Init => RelayInv
  <1> SUFFICES ASSUME Relay!Init PROVE RelayInv
    OBVIOUS
  <1>1. \A c \in Conns : Way(c) = <<>>
    BY DEF Relay!Init, Way
  <1>2. RelayTypes
    BY DEF Relay!Init, RelayTypes, Roles, Frames
  <1>3. Seat("agent") = NoConn /\ Seat("viewer") = NoConn
    BY ConnFacts DEF Relay!Init, Seat, Roles, Relay!Roles, Ids
  <1>4. Seated
    <2>1. \A c \in Conns : RoleOf[c] \in {"agent", "viewer"} /\ c # NoConn /\ status[c] = "new"
      BY ConnFacts DEF Relay!Init
    <2> QED
      BY <1>3, <2>1 DEF Seated
  <1>5. NewEmpty /\ WaysFrom
    BY <1>1 DEF NewEmpty, WaysFrom
  <1>6. Agent \in Conns /\ Viewers \subseteq Conns
    BY DEF Conns
  <1> QED
    BY <1>1, <1>2, <1>4, <1>5, <1>6 DEF RelayInv, ToOne, OneViewer, Paired

----------------------------------------------------------------------------
(***************************************************************************)
(* What clients say and hear.                                              *)
(***************************************************************************)

\* The k-th frame a client has got.
Got(c, k) == said[got[c][k].from][got[c][k].n]

SaidBound  == \A c \in Conns : sent[c] <= Len(said[c])
HeardBound == \A c \in Conns : heard[c] <= Len(got[c])

Basic == TypeOK /\ RelayInv /\ SaidBound /\ HeardBound

\* The relay hands out what was said, and to the session a viewer's.
LEMMA GotFacts ==
  ASSUME Basic, NEW c \in Conns
  PROVE  /\ got[c] \in Seq(Frames) /\ Len(got[c]) \in Nat /\ DOMAIN got[c] = 1..Len(got[c])
         /\ \A k \in 1..Len(got[c]) :
              /\ got[c][k] \in Frames /\ got[c][k].from \in Conns
              /\ got[c][k].from = Agent <=> c # Agent
              /\ said[got[c][k].from] \in Seq(Messages)
              /\ got[c][k].n \in 1..Len(said[got[c][k].from])
              /\ Got(c, k) \in Messages
              /\ k \in 1..Len(Way(c)) /\ Way(c)[k] = got[c][k]
  <1>1. RelayTypes /\ WaysFrom /\ SaidBound /\ TypeOK
    BY DEF Basic, RelayInv
  <1>2. got[c] \in Seq(Frames) /\ Len(got[c]) \in Nat /\ DOMAIN got[c] = 1..Len(got[c])
    BY <1>1, WayType
  <1>3. ASSUME NEW k \in 1..Len(got[c])
        PROVE  /\ got[c][k] \in Frames /\ got[c][k].from \in Conns
               /\ got[c][k].from = Agent <=> c # Agent
               /\ said[got[c][k].from] \in Seq(Messages)
               /\ got[c][k].n \in 1..Len(said[got[c][k].from])
               /\ Got(c, k) \in Messages
               /\ k \in 1..Len(Way(c)) /\ Way(c)[k] = got[c][k]
    <2>1. k \in 1..Len(Way(c)) /\ Way(c)[k] = got[c][k]
      BY <1>1, WayType
    <2>2. got[c][k] \in Frames /\ got[c][k].from \in Conns
      BY <1>2, FrameFacts
    <2>3. /\ got[c][k].from = Agent <=> c # Agent
          /\ got[c][k].n \in 1..sent[got[c][k].from]
      BY <1>1, <2>1 DEF WaysFrom
    <2>4. /\ sent[got[c][k].from] <= Len(said[got[c][k].from])
          /\ sent[got[c][k].from] \in Nat
          /\ said[got[c][k].from] \in Seq(Messages)
      BY <1>1, <2>2 DEF SaidBound, RelayTypes, TypeOK
    <2>5. got[c][k].n \in 1..Len(said[got[c][k].from])
      BY <2>3, <2>4
    <2>6. Got(c, k) \in Messages
      BY <2>4, <2>5 DEF Got
    <2> QED
      BY <2>1, <2>2, <2>3, <2>4, <2>5, <2>6
  <1> QED
    BY <1>2, <1>3

LEMMA SaidTypes ==
  ASSUME NEW s \in Seq(Messages), NEW t \in Seq(Messages)
  PROVE  /\ s \o t \in Seq(Messages) /\ Len(s) \in Nat /\ Len(t) \in Nat
         /\ Len(s \o t) = Len(s) + Len(t)
         /\ \A k \in 1..Len(s) : k \in 1..Len(s \o t) /\ (s \o t)[k] = s[k]
         /\ \A k \in 1..Len(t) : (s \o t)[Len(s) + k] = t[k]
         /\ \A k \in 1..Len(s \o t) :
              \/ k \in 1..Len(s)
              \/ k - Len(s) \in 1..Len(t) /\ (s \o t)[k] = t[k - Len(s)]
  OBVIOUS

\* A say of a client leaves what the others say alone.
LEMMA SayStep ==
  ASSUME TypeOK, NEW c \in Conns, NEW ms \in Seq(Messages), Say(c, ms)
  PROVE  /\ said' \in [Conns -> Seq(Messages)]
         /\ said'[c] = said[c] \o ms /\ said[c] \in Seq(Messages)
         /\ \A x \in Conns : x # c => said'[x] = said[x]
  <1>1. said \in [Conns -> Seq(Messages)]
    BY DEF TypeOK
  <1>2. said[c] \o ms \in Seq(Messages)
    BY <1>1, SaidTypes
  <1> QED
    BY <1>1, <1>2 DEF Say

LEMMA MessageFacts ==
  /\ \A kind \in {"hello", "ready", "tools", "error"} :
       /\ Frame(kind) \in Messages /\ <<Frame(kind)>> \in Seq(Messages)
       /\ Frame(kind).kind = kind
  /\ <<Frame("ready"), Frame("tools")>> \in Seq(Messages)
  /\ \A v \in Viewers :
       /\ CallBy(v) \in Messages /\ <<CallBy(v)>> \in Seq(Messages)
       /\ CallBy(v).kind = "call" /\ CallBy(v).of = v /\ CallBy(v).early = ~HasReady(v)
  /\ \A m \in Messages :
       /\ ResultOf(m) \in Messages /\ <<ResultOf(m)>> \in Seq(Messages)
       /\ ResultOf(m).kind = "result" /\ ResultOf(m).of = m.of /\ ResultOf(m).early = m.early
  /\ NoCall \in Messages
  <1>1. \A kind \in {"hello", "ready", "tools", "error"} :
          Frame(kind) \in Messages /\ Frame(kind).kind = kind
    BY DEF Frame, Messages
  <1>2. \A v \in Viewers :
          CallBy(v) \in Messages
          /\ CallBy(v).kind = "call" /\ CallBy(v).of = v /\ CallBy(v).early = ~HasReady(v)
    <2>1. \A v \in Viewers : HasReady(v) \in BOOLEAN
      BY DEF HasReady
    <2> QED
      BY <2>1 DEF CallBy, Messages
  <1>3. \A m \in Messages :
          /\ ResultOf(m) \in Messages
          /\ ResultOf(m).kind = "result" /\ ResultOf(m).of = m.of /\ ResultOf(m).early = m.early
    BY DEF ResultOf, Messages
  <1>4. NoCall \in Messages
    BY DEF NoCall, Messages
  <1> QED
    BY <1>1, <1>2, <1>3, <1>4

LEMMA HearStep ==
  ASSUME Basic, NEW c \in Conns, Hear(c)
  PROVE  /\ heard[c] + 1 \in 1..Len(got[c]) /\ heard[c] \in Nat
         /\ NextFrame(c) = Got(c, heard[c] + 1) /\ NextFrame(c) \in Messages
         /\ Sender(c) = got[c][heard[c] + 1].from
         /\ heard' \in [Conns -> Nat]
         /\ heard'[c] = heard[c] + 1
         /\ \A x \in Conns : x # c => heard'[x] = heard[x]
  <1>1. heard \in [Conns -> Nat] /\ Len(got[c]) \in Nat /\ heard[c] < Len(got[c])
    BY GotFacts DEF Basic, TypeOK, Hear, Unread
  <1>2. heard[c] + 1 \in 1..Len(got[c])
    BY <1>1
  <1>3. NextFrame(c) = Got(c, heard[c] + 1)
    BY DEF NextFrame, Got
  <1>4. NextFrame(c) \in Messages
    BY <1>2, <1>3, GotFacts
  <1>5. Sender(c) = got[c][heard[c] + 1].from
    BY DEF Sender
  <1> QED
    BY <1>1, <1>2, <1>3, <1>4, <1>5 DEF Hear

\* What a step may add to what the session, or a viewer, has said.
SessionSays(ms) ==
  \/ ms \in {<<>>, <<Frame("error")>>}
  \/ /\ ms = <<Frame("ready"), Frame("tools")>>
     /\ Hear(Agent) /\ NextFrame(Agent).kind = "hello"
  \/ ms = <<ResultOf(call)>> /\ stage[Agent] = "busy"
ViewerSays(v, ms) == ms \in {<<>>, <<Frame("hello")>>, <<CallBy(v)>>}
Says(c, ms) == IF c = Agent THEN SessionSays(ms) ELSE ViewerSays(c, ms)

LEMMA Silent ==
  ASSUME TypeOK, said' = said, NEW x \in Conns
  PROVE  \E ms \in Seq(Messages) : said'[x] = said[x] \o ms /\ Says(x, ms)
  <1>1. said[x] \in Seq(Messages)
    BY DEF TypeOK
  <1>2. said[x] \o <<>> = said[x] /\ <<>> \in Seq(Messages)
    BY <1>1
  <1>3. Says(x, <<>>)
    BY DEF Says, SessionSays, ViewerSays
  <1> QED
    BY <1>2, <1>3

LEMMA OneSays ==
  ASSUME TypeOK, NEW c \in Conns, NEW ms \in Seq(Messages), Say(c, ms), Says(c, ms),
         NEW x \in Conns
  PROVE  \E ns \in Seq(Messages) : said'[x] = said[x] \o ns /\ Says(x, ns)
  <1>1. CASE x = c
    BY <1>1, SayStep
  <1>2. CASE x # c
    <2>1. said'[x] = said[x] /\ said[x] \in Seq(Messages)
      BY <1>2, SayStep DEF TypeOK
    <2>2. said[x] \o <<>> = said[x] /\ <<>> \in Seq(Messages)
      BY <2>1
    <2>3. Says(x, <<>>)
      BY DEF Says, SessionSays, ViewerSays
    <2> QED
      BY <2>1, <2>2, <2>3
  <1> QED
    BY <1>1, <1>2

LEMMA SaysStep ==
  ASSUME Basic, Next, NEW x \in Conns
  PROVE  \E ms \in Seq(Messages) : said'[x] = said[x] \o ms /\ Says(x, ms)
  <1>0. TypeOK /\ Agent \in Conns /\ call \in Messages
    BY ConnFacts DEF Basic, TypeOK
  <1> DEFINE Goal == \E ms \in Seq(Messages) : said'[x] = said[x] \o ms /\ Says(x, ms)
  <1> SUFFICES Goal
    OBVIOUS
  <1>1. said' = said => Goal
    BY <1>0, Silent
  <1>2. ASSUME Say(Agent, <<Frame("error")>>)
        PROVE  Goal
    <2>1. Says(Agent, <<Frame("error")>>)
      BY DEF Says, SessionSays
    <2> QED
      BY <1>0, <1>2, <2>1, OneSays, MessageFacts
  <1>3. ASSUME NEW v \in Viewers,
               Say(v, <<Frame("hello")>>) \/ Say(v, <<CallBy(v)>>)
        PROVE  Goal
    <2>1. v \in Conns /\ v # Agent
      BY ConnFacts DEF Conns
    <2>2. Says(v, <<Frame("hello")>>) /\ Says(v, <<CallBy(v)>>)
      BY <2>1 DEF Says, ViewerSays
    <2>3. <<Frame("hello")>> \in Seq(Messages) /\ <<CallBy(v)>> \in Seq(Messages)
      BY MessageFacts
    <2>4. CASE Say(v, <<Frame("hello")>>)
      BY <1>0, <2>1, <2>2, <2>3, <2>4, OneSays
    <2>5. CASE Say(v, <<CallBy(v)>>)
      BY <1>0, <2>1, <2>2, <2>3, <2>5, OneSays
    <2> QED
      BY <1>3, <2>4, <2>5
  <1>4. CASE OnHello
    <2>1. Says(Agent, <<Frame("ready"), Frame("tools")>>)
      BY <1>4 DEF OnHello, Says, SessionSays
    <2>2. Say(Agent, <<Frame("ready"), Frame("tools")>>) => Goal
      BY <1>0, <2>1, OneSays, MessageFacts
    <2> QED
      BY <1>2, <1>4, <2>2 DEF OnHello
  <1>5. CASE OnCall
    BY <1>1, <1>2, <1>5 DEF OnCall
  <1>6. CASE CallReturns
    <2>1. Says(Agent, <<ResultOf(call)>>)
      BY <1>6 DEF CallReturns, Says, SessionSays
    <2>2. Say(Agent, <<ResultOf(call)>>) => Goal
      BY <1>0, <2>1, OneSays, MessageFacts
    <2> QED
      BY <1>2, <1>6, <2>2 DEF CallReturns
  <1>7. CASE Expire
    BY <1>2, <1>7 DEF Expire
  <1>8. ASSUME NEW v \in Headless, ViewerStep(v)
        PROVE  Goal
    <2>1. v \in Viewers
      BY DEF Viewers
    <2>2. said' = said \/ Say(v, <<Frame("hello")>>) \/ Say(v, <<CallBy(v)>>)
      BY <1>8 DEF ViewerStep, Connect, AwaitReady, AwaitResult, Give
    <2> QED
      BY <1>1, <1>3, <2>1, <2>2
  <1>9. ASSUME NEW v \in Others, OtherStep(v)
        PROVE  Goal
    <2>1. v \in Viewers
      BY DEF Viewers
    <2>2. said' = said \/ Say(v, <<Frame("hello")>>) \/ Say(v, <<CallBy(v)>>)
      BY <1>9 DEF OtherStep, OtherConnects, OtherSays, OtherQuits
    <2> QED
      BY <1>1, <1>3, <2>1, <2>2
  <1>10. CASE Dial \/ Shut \/ Quiescent
    BY <1>1, <1>10 DEF Dial, Shut, Quiescent, vars
  <1>11. ASSUME NEW c \in Conns, RelayStep(c)
         PROVE  Goal
    BY <1>1, <1>11 DEF RelayStep
  <1> HIDE DEF Goal
  <1> QED
    BY <1>4, <1>5, <1>6, <1>7, <1>8, <1>9, <1>10, <1>11 DEF Next, SessionStep

\* What was said stays said; what is added is one of these.
LEMMA SaidStep ==
  ASSUME Basic, Next, NEW x \in Conns
  PROVE  /\ said[x] \in Seq(Messages) /\ said'[x] \in Seq(Messages)
         /\ Len(said[x]) \in Nat /\ Len(said'[x]) \in Nat /\ Len(said[x]) <= Len(said'[x])
         /\ \A k \in 1..Len(said[x]) : k \in 1..Len(said'[x]) /\ said'[x][k] = said[x][k]
  <1>1. PICK ms \in Seq(Messages) : said'[x] = said[x] \o ms
    BY SaysStep
  <1>2. said[x] \in Seq(Messages)
    BY DEF Basic, TypeOK
  <1> QED
    BY <1>1, <1>2, SaidTypes

LEMMA SessionAdds ==
  ASSUME Basic, Next, NEW k \in 1..Len(said'[Agent])
  PROVE  \/ k \in 1..Len(said[Agent])
         \/ said'[Agent][k].kind \in {"tools", "error"}
         \/ /\ k = Len(said[Agent]) + 1 /\ said'[Agent][k].kind = "ready"
            /\ Hear(Agent) /\ NextFrame(Agent).kind = "hello"
         \/ said'[Agent][k] = ResultOf(call) /\ stage[Agent] = "busy"
  <1>0. Agent \in Conns /\ said[Agent] \in Seq(Messages)
    BY DEF Basic, TypeOK, Conns
  <1>1. PICK ms \in Seq(Messages) : said'[Agent] = said[Agent] \o ms /\ SessionSays(ms)
    BY <1>0, SaysStep DEF Says
  <1>2. \/ k \in 1..Len(said[Agent])
        \/ k - Len(said[Agent]) \in 1..Len(ms) /\ said'[Agent][k] = ms[k - Len(said[Agent])]
    BY <1>0, <1>1, SaidTypes
  <1>3. ASSUME NEW i \in 1..Len(ms)
        PROVE  \/ ms[i].kind \in {"tools", "error"}
               \/ /\ i = 1 /\ ms[i].kind = "ready"
                  /\ Hear(Agent) /\ NextFrame(Agent).kind = "hello"
               \/ ms[i] = ResultOf(call) /\ stage[Agent] = "busy"
    <2>1. CASE ms = <<>>
      BY <2>1
    <2>2. CASE ms = <<Frame("error")>>
      BY <2>2, MessageFacts
    <2>3. CASE /\ ms = <<Frame("ready"), Frame("tools")>>
               /\ Hear(Agent) /\ NextFrame(Agent).kind = "hello"
      <3>1. i = 1 \/ i = 2
        BY <2>3
      <3>2. ms[1].kind = "ready" /\ ms[2].kind = "tools"
        BY <2>3, MessageFacts
      <3> QED
        BY <2>3, <3>1, <3>2
    <2>4. CASE ms = <<ResultOf(call)>> /\ stage[Agent] = "busy"
      BY <2>4
    <2> QED
      BY <1>1, <2>1, <2>2, <2>3, <2>4 DEF SessionSays
  <1>4. CASE k \in 1..Len(said[Agent])
    BY <1>4
  <1>5. CASE k \notin 1..Len(said[Agent])
    <2>1. PICK i \in 1..Len(ms) : i = k - Len(said[Agent]) /\ said'[Agent][k] = ms[i]
      BY <1>2, <1>5
    <2>2. Len(said[Agent]) \in Nat /\ k = Len(said[Agent]) + i
      BY <1>0, <2>1
    <2> QED
      BY <1>3, <2>1, <2>2
  <1> QED
    BY <1>4, <1>5

LEMMA ViewerAdds ==
  ASSUME Basic, Next, NEW v \in Viewers, NEW k \in 1..Len(said'[v])
  PROVE  \/ k \in 1..Len(said[v])
         \/ said'[v][k].kind = "hello"
         \/ said'[v][k] = CallBy(v)
  <1>0. v \in Conns /\ v # Agent /\ said[v] \in Seq(Messages)
    BY ConnFacts DEF Basic, TypeOK, Conns
  <1>1. PICK ms \in Seq(Messages) : said'[v] = said[v] \o ms /\ ViewerSays(v, ms)
    BY <1>0, SaysStep DEF Says
  <1>2. \/ k \in 1..Len(said[v])
        \/ k - Len(said[v]) \in 1..Len(ms) /\ said'[v][k] = ms[k - Len(said[v])]
    BY <1>0, <1>1, SaidTypes
  <1>3. \A i \in 1..Len(ms) : ms[i].kind = "hello" \/ ms[i] = CallBy(v)
    BY <1>1, MessageFacts DEF ViewerSays
  <1> QED
    BY <1>2, <1>3

\* Outside the relay's steps nothing on the way changes.
LEMMA RelayStill ==
  ASSUME Next
  PROVE  (\E c \in Conns : RelayStep(c)) \/ UNCHANGED relay
  BY DEF Next, SessionStep, Dial, OnHello, OnCall, CallReturns, Expire, Shut,
         ViewerStep, Connect, AwaitReady, AwaitResult, Give,
         OtherStep, OtherConnects, OtherSays, OtherQuits, Quiescent, vars, relay

LEMMA StillInv ==
  ASSUME RelayInv, UNCHANGED relay
  PROVE  RelayInv'
  <1>1. /\ holder' = holder /\ status' = status /\ sent' = sent
        /\ pipe' = pipe /\ sealed' = sealed /\ got' = got
    BY DEF relay
  <1>2. RelayTypes' /\ Seated' /\ NewEmpty'
    BY <1>1 DEF RelayInv, RelayTypes, Seated, Seat, NewEmpty, Way
  <1>0. \A c : Way(c)' = Way(c)
    BY <1>1 DEF Way
  <1>3. WaysFrom' /\ ToOne'
    BY <1>0, <1>1 DEF RelayInv, WaysFrom, ToOne
  <1>4. OneViewer' /\ Paired'
    BY <1>0, <1>1 DEF RelayInv, Seat, OneViewer, Paired
  <1> QED
    BY <1>2, <1>3, <1>4 DEF RelayInv

LEMMA GotStep ==
  ASSUME Basic, Next, NEW x \in Conns
  PROVE  /\ Len(got[x]) <= Len(got'[x]) /\ Len(got'[x]) \in Nat
         /\ \A k \in 1..Len(got[x]) : k \in 1..Len(got'[x]) /\ got'[x][k] = got[x][k]
  <1>0. got[x] \in Seq(Frames) /\ pipe[x] \in Seq(Frames) /\ RelayTypes
    BY WayType DEF Basic, RelayInv
  <1>1. CASE got'[x] = got[x]
    BY <1>0, <1>1
  <1>2. CASE pipe[x] # <<>> /\ got'[x] = Append(got[x], Head(pipe[x]))
    <2>1. Head(pipe[x]) \in Frames
      BY <1>0, <1>2
    <2> QED
      BY <1>0, <1>2, <2>1, AppendAt
  <1>3. ASSUME NEW c \in Conns, RelayStep(c)
        PROVE  \/ got'[x] = got[x]
               \/ pipe[x] # <<>> /\ got'[x] = Append(got[x], Head(pipe[x]))
    <2>1. got' = got \/ Relay!Receive(c)
      BY <1>3, RelayCases DEF Relay!Join, Relay!Refuse, Relay!Send, Relay!Leave
    <2>2. Relay!Receive(c) => \/ got'[x] = got[x]
                              \/ pipe[x] # <<>> /\ got'[x] = Append(got[x], Head(pipe[x]))
      BY <1>0 DEF Relay!Receive, RelayTypes
    <2> QED
      BY <2>1, <2>2
  <1> QED
    BY <1>1, <1>2, <1>3, RelayStill DEF relay

Stages == {"new", "loop", "busy", "hello", "called", "open", "over", "done", "failed"}

LEMMA EnterStep ==
  ASSUME TypeOK, NEW c \in Conns, NEW s \in Stages, Enter(c, s)
  PROVE  /\ stage' \in [Conns -> Stages]
         /\ stage'[c] = s
         /\ \A x \in Conns : x # c => stage'[x] = stage[x]
  BY DEF TypeOK, Enter, Stages

\* Only the client itself reads what it got, and a frame at a time.
LEMMA HeardStep ==
  ASSUME Basic, Next, NEW x \in Conns
  PROVE  heard'[x] = heard[x] \/ Hear(x)
  <1>1. heard' = heard \/ \E c \in Conns : Hear(c)
    <2>1. Agent \in Conns /\ Headless \subseteq Conns
      BY DEF Conns, Viewers
    <2> QED
      BY <2>1
      DEF Next, RelayStep, SessionStep, Dial, OnHello, OnCall, CallReturns, Expire, Shut,
          ViewerStep, Connect, AwaitReady, AwaitResult, Give,
          OtherStep, OtherConnects, OtherSays, OtherQuits, Quiescent, vars
  <1>2. ASSUME NEW c \in Conns, Hear(c), x # c
        PROVE  heard'[x] = heard[x]
    BY <1>2, HearStep
  <1> QED
    BY <1>1, <1>2

LEMMA TypesOfSession ==
  ASSUME Basic, SessionStep
  PROVE  TypeOK'
  <1>0. /\ TypeOK /\ Agent \in Conns
        /\ stage \in [Conns -> Stages] /\ heard \in [Conns -> Nat]
        /\ said \in [Conns -> Seq(Messages)]
        /\ "loop" \in Stages /\ "over" \in Stages /\ "busy" \in Stages
    BY DEF Basic, TypeOK, Conns, Stages
  <1>1. stage' \in [Conns -> Stages]
    <2>1. \/ UNCHANGED stage \/ Enter(Agent, "loop")
          \/ Enter(Agent, "over") \/ Enter(Agent, "busy")
      BY DEF SessionStep, Dial, OnHello, OnCall, CallReturns, Expire, Shut
    <2> QED
      BY <1>0, <2>1, EnterStep
  <1>2. heard' \in [Conns -> Nat]
    <2>1. UNCHANGED heard \/ Hear(Agent)
      BY DEF SessionStep, Dial, OnHello, OnCall, CallReturns, Expire, Shut
    <2> QED
      BY <1>0, <2>1, HearStep
  <1>3. said' \in [Conns -> Seq(Messages)]
    <2>1. \/ UNCHANGED said \/ Say(Agent, <<Frame("error")>>)
          \/ Say(Agent, <<ResultOf(call)>>) \/ Say(Agent, <<Frame("ready"), Frame("tools")>>)
      BY DEF SessionStep, Dial, OnHello, OnCall, CallReturns, Expire, Shut
    <2>2. /\ <<Frame("error")>> \in Seq(Messages) /\ <<ResultOf(call)>> \in Seq(Messages)
          /\ <<Frame("ready"), Frame("tools")>> \in Seq(Messages)
      BY <1>0, MessageFacts DEF TypeOK
    <2> QED
      BY <1>0, <2>1, <2>2, SayStep
  <1>4. verified' \in BOOLEAN /\ expired' \in BOOLEAN
    BY <1>0 DEF TypeOK, SessionStep, Dial, OnHello, OnCall, CallReturns, Expire, Shut, session
  <1>5. vouched' \subseteq Viewers
    <2>1. Hear(Agent) => Sender(Agent) \in Viewers
      <3> SUFFICES ASSUME Hear(Agent) PROVE Sender(Agent) \in Viewers
        OBVIOUS
      <3>1. heard[Agent] + 1 \in 1..Len(got[Agent]) /\ Sender(Agent) = got[Agent][heard[Agent] + 1].from
        BY <1>0, HearStep
      <3>2. Sender(Agent) \in Conns /\ Sender(Agent) # Agent
        BY <1>0, <3>1, GotFacts
      <3> QED
        BY <3>2 DEF Conns
    <2>2. vouched' = vouched \/ (Hear(Agent) /\ vouched' = vouched \cup {Sender(Agent)})
      BY DEF SessionStep, Dial, OnHello, OnCall, CallReturns, Expire, Shut, session
    <2> QED
      BY <1>0, <2>1, <2>2 DEF TypeOK
  <1>6. call' \in Messages
    <2>1. \/ call' = call \/ call' = NoCall \/ (Hear(Agent) /\ call' = NextFrame(Agent))
      BY DEF SessionStep, Dial, OnHello, OnCall, CallReturns, Expire, Shut, session
    <2> QED
      BY <1>0, <2>1, HearStep, MessageFacts DEF TypeOK
  <1>7. UNCHANGED <<toolkit, answer>>
    BY DEF SessionStep, Dial, OnHello, OnCall, CallReturns, Expire, Shut, client
  <1> QED
    BY <1>0, <1>1, <1>2, <1>3, <1>4, <1>5, <1>6, <1>7 DEF TypeOK, Stages

LEMMA TypesOfViewer ==
  ASSUME Basic, NEW v \in Headless, ViewerStep(v)
  PROVE  TypeOK'
  <1>0. /\ TypeOK /\ v \in Conns /\ v \in Viewers
        /\ stage \in [Conns -> Stages] /\ heard \in [Conns -> Nat]
        /\ said \in [Conns -> Seq(Messages)]
        /\ "hello" \in Stages /\ "called" \in Stages /\ "done" \in Stages /\ "failed" \in Stages
    BY DEF Basic, TypeOK, Conns, Viewers, Stages
  <1>1. stage' \in [Conns -> Stages]
    <2>1. \/ UNCHANGED stage \/ Enter(v, "hello") \/ Enter(v, "called")
          \/ Enter(v, "done") \/ Enter(v, "failed")
      BY DEF ViewerStep, Connect, AwaitReady, AwaitResult, Give, LinkClosed, Interrupt
    <2> QED
      BY <1>0, <2>1, EnterStep
  <1>2. heard' \in [Conns -> Nat]
    <2>1. UNCHANGED heard \/ Hear(v)
      BY DEF ViewerStep, Connect, AwaitReady, AwaitResult, Give
    <2> QED
      BY <1>0, <2>1, HearStep
  <1>3. said' \in [Conns -> Seq(Messages)]
    <2>1. UNCHANGED said \/ Say(v, <<Frame("hello")>>) \/ Say(v, <<CallBy(v)>>)
      BY DEF ViewerStep, Connect, AwaitReady, AwaitResult, Give
    <2>2. <<Frame("hello")>> \in Seq(Messages) /\ <<CallBy(v)>> \in Seq(Messages)
      BY <1>0, MessageFacts
    <2> QED
      BY <1>0, <2>1, <2>2, SayStep
  <1>4. toolkit' \in [ready : SUBSET Headless, tools : SUBSET Headless]
    <2>1. toolkit' = toolkit \/ toolkit' = Noted(v)
      BY DEF ViewerStep, Connect, AwaitReady, AwaitResult, Give, client
    <2>2. /\ [toolkit EXCEPT !.ready = @ \cup {v}] \in [ready : SUBSET Headless, tools : SUBSET Headless]
          /\ [toolkit EXCEPT !.tools = @ \cup {v}] \in [ready : SUBSET Headless, tools : SUBSET Headless]
      BY <1>0 DEF TypeOK
    <2> QED
      BY <1>0, <2>1, <2>2 DEF TypeOK, Noted
  <1>5. answer' \in [Headless -> Messages]
    <2>1. \/ answer' = answer
          \/ Hear(v) /\ answer' = [answer EXCEPT ![v] = NextFrame(v)]
      BY DEF ViewerStep, Connect, AwaitReady, AwaitResult, Give, client
    <2>2. Hear(v) => NextFrame(v) \in Messages
      BY <1>0, HearStep
    <2> QED
      BY <1>0, <2>1, <2>2 DEF TypeOK
  <1>6. UNCHANGED <<verified, vouched, call, expired>>
    BY DEF ViewerStep, Connect, AwaitReady, AwaitResult, Give, session
  <1> QED
    BY <1>0, <1>1, <1>2, <1>3, <1>4, <1>5, <1>6 DEF TypeOK, Stages

LEMMA TypesOfOther ==
  ASSUME Basic, NEW v \in Others, OtherStep(v)
  PROVE  TypeOK'
  <1>0. /\ TypeOK /\ v \in Conns /\ v \in Viewers
        /\ stage \in [Conns -> Stages] /\ said \in [Conns -> Seq(Messages)]
        /\ "open" \in Stages /\ "over" \in Stages
    BY DEF Basic, TypeOK, Conns, Viewers, Stages
  <1>1. stage' \in [Conns -> Stages]
    <2>1. UNCHANGED stage \/ Enter(v, "open") \/ Enter(v, "over")
      BY DEF OtherStep, OtherConnects, OtherSays, OtherQuits
    <2> QED
      BY <1>0, <2>1, EnterStep
  <1>2. said' \in [Conns -> Seq(Messages)]
    <2>1. UNCHANGED said \/ Say(v, <<Frame("hello")>>) \/ Say(v, <<CallBy(v)>>)
      BY DEF OtherStep, OtherConnects, OtherSays, OtherQuits
    <2>2. <<Frame("hello")>> \in Seq(Messages) /\ <<CallBy(v)>> \in Seq(Messages)
      BY <1>0, MessageFacts
    <2> QED
      BY <1>0, <2>1, <2>2, SayStep
  <1>3. UNCHANGED <<heard, toolkit, answer, verified, vouched, call, expired>>
    BY DEF OtherStep, OtherConnects, OtherSays, OtherQuits, session, client
  <1> QED
    BY <1>0, <1>1, <1>2, <1>3 DEF TypeOK, Stages

LEMMA BasicInit == Init => Basic
  <1> SUFFICES ASSUME Init PROVE Basic
    OBVIOUS
  <1>1. RelayInv
    BY RelayInvInit DEF Init
  <1>2. TypeOK
    <2>1. <<>> \in Seq(Messages) /\ NoCall \in Messages
      BY MessageFacts
    <2> QED
      BY <2>1 DEF Init, TypeOK
  <1>3. SaidBound /\ HeardBound
    BY DEF Init, Relay!Init, SaidBound, HeardBound
  <1> QED
    BY <1>1, <1>2, <1>3 DEF Basic

LEMMA BasicStep ==
  ASSUME Basic, Next
  PROVE  Basic'
  <1>1. RelayInv'
    BY RelayInvStep, StillInv, RelayStill DEF Basic
  <1>2. TypeOK'
    <2>1. ASSUME NEW c \in Conns, RelayStep(c)
          PROVE  TypeOK'
      BY <2>1 DEF Basic, TypeOK, RelayStep, client, session
    <2>2. Quiescent => TypeOK'
      BY DEF Basic, TypeOK, Quiescent, vars, client, session
    <2> QED
      BY <2>1, <2>2, TypesOfSession, TypesOfViewer, TypesOfOther DEF Next
  <1>3. SaidBound'
    <2> SUFFICES ASSUME NEW x \in Conns
                 PROVE  sent'[x] <= Len(said'[x])
      BY DEF SaidBound
    <2>1. /\ sent[x] <= Len(said[x]) /\ sent[x] \in Nat
          /\ Len(said[x]) <= Len(said'[x]) /\ Len(said[x]) \in Nat /\ Len(said'[x]) \in Nat
      BY SaidStep DEF Basic, SaidBound, RelayInv, RelayTypes
    <2>2. CASE sent'[x] = sent[x]
      BY <2>1, <2>2
    <2>3. CASE sent[x] < Len(said[x]) /\ sent'[x] = sent[x] + 1
      BY <2>1, <2>3
    <2>4. ASSUME NEW c \in Conns, RelayStep(c)
          PROVE  sent'[x] = sent[x] \/ (sent[x] < Len(said[x]) /\ sent'[x] = sent[x] + 1)
      <3>1. sent' = sent \/ Forward(c)
        BY <2>4
        DEF RelayStep, Admit, Carry, Depart, Relay!Join, Relay!Refuse, Relay!Receive, Relay!Leave
      <3>2. Forward(c) => \/ sent'[x] = sent[x]
                          \/ sent[x] < Len(said[x]) /\ sent'[x] = sent[x] + 1
        BY DEF Forward, Relay!Send, Basic, RelayInv, RelayTypes
      <3> QED
        BY <3>1, <3>2
    <2> QED
      BY <2>2, <2>3, <2>4, RelayStill DEF relay
  <1>4. HeardBound'
    <2> SUFFICES ASSUME NEW x \in Conns
                 PROVE  heard'[x] <= Len(got'[x])
      BY DEF HeardBound
    <2>1. /\ heard[x] <= Len(got[x]) /\ heard[x] \in Nat
          /\ Len(got[x]) <= Len(got'[x]) /\ Len(got[x]) \in Nat /\ Len(got'[x]) \in Nat
      BY GotStep, GotFacts DEF Basic, HeardBound, TypeOK
    <2>2. CASE heard'[x] = heard[x]
      BY <2>1, <2>2
    <2>3. CASE Hear(x)
      <3>1. heard'[x] = heard[x] + 1 /\ heard[x] + 1 \in 1..Len(got[x])
        BY <2>3, HearStep
      <3> QED
        BY <2>1, <3>1
    <2> QED
      BY <2>2, <2>3, HeardStep
  <1> QED
    BY <1>1, <1>2, <1>3, <1>4 DEF Basic

LEMMA BasicStill ==
  ASSUME Basic, UNCHANGED vars
  PROVE  Basic'
  <1>1. UNCHANGED relay /\ UNCHANGED <<said, heard, stage, client, session, got, sent>>
    BY DEF vars, relay
  <1>2. RelayInv'
    BY <1>1, StillInv DEF Basic
  <1>3. TypeOK'
    BY <1>1 DEF Basic, TypeOK, client, session
  <1>4. SaidBound' /\ HeardBound'
    BY <1>1 DEF Basic, SaidBound, HeardBound
  <1> QED
    BY <1>2, <1>3, <1>4 DEF Basic

\* Every frame a client got was said by whoever it is from, and nobody has read more
\* than it got: the state stays in its types.
THEOREM TypeCorrect == Spec => []TypeOK
  <1>1. Init => Basic
    BY BasicInit
  <1>2. Basic /\ [Next]_vars => Basic'
    BY BasicStep, BasicStill
  <1>3. Basic => TypeOK
    BY DEF Basic
  <1> QED
    BY <1>1, <1>2, <1>3, PTL DEF Spec

----------------------------------------------------------------------------
(***************************************************************************)
(* The story of a tunnel.                                                  *)
(***************************************************************************)

\* The one viewer the session ever hears, and what it made of a message: a call of
\* that viewer, made after its Ready unless it says otherwise.
Visitor == Way(Agent)[1].from
Visited == Way(Agent) # <<>>
Foreign(m) == Visited /\ m.of = Visitor /\ (~m.early => HasReady(m.of))

VerifiedBy == verified => Visited /\ Visitor \in vouched
BusyCall   == stage[Agent] = "busy" => call.of \in vouched /\ Foreign(call)

\* A viewer calls in its own name; the session answers the visitor.
CallsOwn ==
  \A v \in Viewers : \A k \in 1..Len(said[v]) :
    said[v][k].kind = "call" => said[v][k].of = v /\ (~said[v][k].early => HasReady(v))
ResultsOf ==
  \A k \in 1..Len(said[Agent]) : said[Agent][k].kind = "result" => Foreign(said[Agent][k])

\* A Ready answers a Hello, and two answer two.
HeardHello(i) == i \in 1..heard[Agent] /\ Got(Agent, i).kind = "hello"
ReadyAt(k)    == k \in 1..Len(said[Agent]) /\ said[Agent][k].kind = "ready"
ReadyPerHello ==
  /\ \A k \in Nat : ReadyAt(k) => \E i \in Nat : HeardHello(i)
  /\ \A j, k \in Nat : ReadyAt(j) /\ ReadyAt(k) /\ j < k
       => \E i, l \in Nat : i < l /\ HeardHello(i) /\ HeardHello(l)

\* A headless viewer calls after a Ready, and is done with a Result.
ReadyRead ==
  \A v \in Headless :
    /\ v \in toolkit.ready => HasReady(v)
    /\ stage[v] \in {"called", "done"} => HasReady(v)
    /\ stage[v] = "done" => Foreign(answer[v])

Story == VerifiedBy /\ BusyCall /\ CallsOwn /\ ResultsOf /\ ReadyPerHello /\ ReadyRead
Inv == Basic /\ Story

\* What was got stays got, and stays what it was.
LEMMA GotKept ==
  ASSUME Basic, Next, NEW c \in Conns, NEW k \in 1..Len(got[c])
  PROVE  k \in 1..Len(got'[c]) /\ Got(c, k)' = Got(c, k)
  <1>1. k \in 1..Len(got'[c]) /\ got'[c][k] = got[c][k]
    BY GotStep
  <1>2. got[c][k].from \in Conns /\ got[c][k].n \in 1..Len(said[got[c][k].from])
    BY GotFacts
  <1>3. said'[got[c][k].from][got[c][k].n] = said[got[c][k].from][got[c][k].n]
    BY <1>2, SaidStep
  <1> QED
    BY <1>1, <1>3 DEF Got

LEMMA HasReadyIs ==
  ASSUME Basic, NEW c \in Conns
  PROVE  HasReady(c) <=> \E k \in 1..Len(got[c]) : Got(c, k).kind = "ready"
  BY GotFacts DEF HasReady, Got

LEMMA HasReadyIsAfter ==
  ASSUME Basic', NEW c \in Conns
  PROVE  HasReady(c)' <=> \E k \in 1..Len(got'[c]) : Got(c, k)'.kind = "ready"
  <1>1. DOMAIN got'[c] = 1..Len(got'[c])
    BY DEF Basic, RelayInv, RelayTypes
  <1> QED
    BY <1>1 DEF HasReady, Got

LEMMA HasReadyStays ==
  ASSUME Basic, Next, NEW c \in Conns, HasReady(c)
  PROVE  HasReady(c)'
  <1>1. PICK k \in 1..Len(got[c]) : Got(c, k).kind = "ready"
    BY HasReadyIs
  <1>2. k \in 1..Len(got'[c]) /\ Got(c, k)'.kind = "ready"
    BY <1>1, GotKept
  <1> QED
    BY <1>2, BasicStep, HasReadyIsAfter

LEMMA WayKept ==
  ASSUME Basic, Next, NEW c \in Conns, NEW k \in 1..Len(Way(c))
  PROVE  k \in 1..Len(Way(c)') /\ Way(c)'[k] = Way(c)[k]
  <1>1. UNCHANGED relay => Way(c)' = Way(c)
    BY DEF relay, Way
  <1> QED
    BY <1>1, WayGrows, RelayStill DEF Basic, RelayInv

LEMMA VisitorIs ==
  ASSUME Basic, Visited
  PROVE  /\ Visitor \in Viewers /\ Visitor \in Conns /\ Visitor # Agent
         /\ 1 \in 1..Len(Way(Agent))
  <1>0. Agent \in Conns /\ RelayTypes /\ WaysFrom
    BY DEF Conns, Basic, RelayInv
  <1>1. Way(Agent) \in Seq(Frames)
    BY <1>0, WayType
  <1>2. 1 \in 1..Len(Way(Agent))
    BY <1>1 DEF Visited
  <1>3. Way(Agent)[1].from \in Conns /\ Way(Agent)[1].from # Agent
    BY <1>0, <1>2, WayType, FrameFacts DEF WaysFrom
  <1> QED
    BY <1>2, <1>3 DEF Visitor, Conns

LEMMA VisitorStays ==
  ASSUME Basic, Next, Visited
  PROVE  Visited' /\ Visitor' = Visitor /\ Visitor \in Viewers
  <1>1. Agent \in Conns /\ 1 \in 1..Len(Way(Agent))
    BY VisitorIs DEF Conns
  <1>2. 1 \in 1..Len(Way(Agent)') /\ Way(Agent)'[1] = Way(Agent)[1]
    BY <1>1, WayKept
  <1>3. Way(Agent)' # <<>>
    BY <1>2
  <1> QED
    BY <1>2, <1>3, VisitorIs DEF Visited, Visitor

LEMMA ForeignStays ==
  ASSUME Basic, Next, NEW m, Foreign(m)
  PROVE  Foreign(m)'
  <1>1. Visited /\ m.of = Visitor /\ (~m.early => HasReady(m.of))
    BY DEF Foreign
  <1>2. Visited' /\ Visitor' = Visitor /\ Visitor \in Viewers
    BY <1>1, VisitorStays
  <1>3. m.of \in Conns
    BY <1>1, <1>2 DEF Conns
  <1>4. HasReady(m.of) => HasReady(m.of)'
    BY <1>3, HasReadyStays
  <1> QED
    BY <1>1, <1>2, <1>4 DEF Foreign

\* What the session hears is the visitor's.
LEMMA HearVisitor ==
  ASSUME Basic, NEW k \in 1..Len(got[Agent])
  PROVE  Visited /\ got[Agent][k].from = Visitor /\ Visitor \in Viewers
  <1>0. Agent \in Conns /\ OneViewer /\ RelayTypes
    BY DEF Conns, Basic, RelayInv
  <1>1. /\ k \in 1..Len(Way(Agent)) /\ Way(Agent)[k] = got[Agent][k]
        /\ got[Agent][k].from \in Conns /\ got[Agent][k].from # Agent
    BY <1>0, GotFacts
  <1>2. Way(Agent) \in Seq(Frames)
    BY <1>0, WayType
  <1>3. 1 \in 1..Len(Way(Agent)) /\ Way(Agent) # <<>>
    BY <1>1, <1>2
  <1>4. Way(Agent)[k].from = Way(Agent)[1].from
    BY <1>0, <1>1, <1>3 DEF OneViewer
  <1> QED
    BY <1>1, <1>3, <1>4 DEF Visited, Visitor, Conns

LEMMA VerifiedByStep ==
  ASSUME Inv, Next
  PROVE  VerifiedBy'
  <1>0. Basic /\ VerifiedBy /\ Agent \in Conns
    BY DEF Inv, Story, Conns
  <1> SUFFICES ASSUME verified' PROVE Visited' /\ Visitor' \in vouched'
    BY DEF VerifiedBy
  <1>1. CASE verified' = verified /\ vouched' = vouched
    BY <1>0, <1>1, VisitorStays DEF VerifiedBy
  <1>2. CASE Hear(Agent) /\ vouched' = vouched \cup {Sender(Agent)}
    <2>1. heard[Agent] + 1 \in 1..Len(got[Agent]) /\ Sender(Agent) = got[Agent][heard[Agent] + 1].from
      BY <1>0, <1>2, HearStep
    <2>2. Visited /\ Sender(Agent) = Visitor
      BY <1>0, <2>1, HearVisitor
    <2> QED
      BY <1>0, <1>2, <2>2, VisitorStays
  <1> QED
    BY <1>1, <1>2
    DEF Next, RelayStep, SessionStep, Dial, OnHello, OnCall, CallReturns, Expire, Shut,
        ViewerStep, Connect, AwaitReady, AwaitResult, Give,
        OtherStep, OtherConnects, OtherSays, OtherQuits, Quiescent, vars, session

\* A step of a client is no step of another's.
LEMMA StageStep ==
  ASSUME Basic, Next
  PROVE  /\ \A x \in Conns : stage'[x] = stage[x] \/ (x = Agent /\ SessionStep)
                             \/ (x \in Headless /\ ViewerStep(x))
                             \/ (x \in Others /\ OtherStep(x))
         /\ SessionStep \/ call' = call
         /\ SessionStep \/ (\E v \in Headless : ViewerStep(v)) \/ (toolkit' = toolkit /\ answer' = answer)
  <1>0. TypeOK /\ Agent \in Conns /\ Headless \subseteq Conns /\ Others \subseteq Conns
    BY DEF Basic, Conns, Viewers
  <1>1. CASE SessionStep
    <2>1. \/ UNCHANGED stage \/ Enter(Agent, "loop")
          \/ Enter(Agent, "over") \/ Enter(Agent, "busy")
      BY <1>1 DEF SessionStep, Dial, OnHello, OnCall, CallReturns, Expire, Shut
    <2>2. \A x \in Conns : x # Agent => stage'[x] = stage[x]
      BY <1>0, <2>1, EnterStep DEF Stages
    <2> QED
      BY <1>1, <2>2
  <1>2. ASSUME NEW v \in Headless, ViewerStep(v)
        PROVE  call' = call /\ \A x \in Conns : x # v => stage'[x] = stage[x]
    <2>1. \/ UNCHANGED stage \/ Enter(v, "hello") \/ Enter(v, "called")
          \/ Enter(v, "done") \/ Enter(v, "failed")
      BY <1>2 DEF ViewerStep, Connect, AwaitReady, AwaitResult, Give, LinkClosed, Interrupt
    <2>2. call' = call
      BY <1>2 DEF ViewerStep, Connect, AwaitReady, AwaitResult, Give, session
    <2> QED
      BY <1>0, <2>1, <2>2, EnterStep DEF Stages
  <1>3. ASSUME NEW v \in Others, OtherStep(v)
        PROVE  /\ call' = call /\ toolkit' = toolkit /\ answer' = answer
               /\ \A x \in Conns : x # v => stage'[x] = stage[x]
    <2>1. UNCHANGED stage \/ Enter(v, "open") \/ Enter(v, "over")
      BY <1>3 DEF OtherStep, OtherConnects, OtherSays, OtherQuits
    <2>2. call' = call /\ toolkit' = toolkit /\ answer' = answer
      BY <1>3 DEF OtherStep, OtherConnects, OtherSays, OtherQuits, session, client
    <2> QED
      BY <1>0, <2>1, <2>2, EnterStep DEF Stages
  <1>4. CASE (\E c \in Conns : RelayStep(c)) \/ Quiescent
    BY <1>4 DEF RelayStep, Quiescent, vars, session, client
  <1> QED
    BY <1>1, <1>2, <1>3, <1>4 DEF Next

LEMMA BusyCallStep ==
  ASSUME Inv, Next
  PROVE  BusyCall'
  <1>0. Basic /\ Agent \in Conns /\ Agent \notin Headless /\ Agent \notin Others
    BY TunnelAssumption DEF Inv, Conns, Viewers
  <1> SUFFICES ASSUME stage'[Agent] = "busy"
               PROVE  call'.of \in vouched' /\ Foreign(call)'
    BY DEF BusyCall
  <1>1. ASSUME NEW m, Foreign(m), m.of \in vouched', call' = m
        PROVE  call'.of \in vouched' /\ Foreign(call)'
    <2>1. Foreign(m)'
      BY <1>0, <1>1, ForeignStays
    <2> QED
      BY <1>1, <2>1 DEF Foreign, HasReady
  <1>2. vouched \subseteq vouched'
    BY DEF Next, RelayStep, SessionStep, Dial, OnHello, OnCall, CallReturns, Expire, Shut,
           ViewerStep, Connect, AwaitReady, AwaitResult, Give,
           OtherStep, OtherConnects, OtherSays, OtherQuits, Quiescent, vars, session
  <1>3. CASE stage[Agent] = "busy" /\ call' = call
    <2>1. Foreign(call) /\ call.of \in vouched
      BY <1>3 DEF Inv, Story, BusyCall
    <2> QED
      BY <1>1, <1>2, <1>3, <2>1
  <1>4. CASE OnCall /\ verified /\ call' = NextFrame(Agent)
    <2>1. /\ Hear(Agent) /\ NextFrame(Agent).kind = "call" /\ vouched' = vouched
      BY <1>4 DEF OnCall
    <2>2. /\ heard[Agent] + 1 \in 1..Len(got[Agent])
          /\ NextFrame(Agent) = Got(Agent, heard[Agent] + 1)
      BY <1>0, <2>1, HearStep
    <2>3. Visited /\ got[Agent][heard[Agent] + 1].from = Visitor /\ Visitor \in Viewers
      BY <1>0, <2>2, HearVisitor
    <2>4. PICK n \in 1..Len(said[Visitor]) : NextFrame(Agent) = said[Visitor][n]
      BY <1>0, <2>2, <2>3, GotFacts DEF Got
    <2>5. /\ NextFrame(Agent).of = Visitor
          /\ ~NextFrame(Agent).early => HasReady(Visitor)
      BY <2>1, <2>3, <2>4 DEF Inv, Story, CallsOwn
    <2>6. Foreign(NextFrame(Agent))
      BY <2>3, <2>5 DEF Foreign
    <2>7. Visitor \in vouched
      BY <1>4 DEF Inv, Story, VerifiedBy
    <2>8. NextFrame(Agent).of \in vouched'
      BY <2>1, <2>5, <2>7
    <2> QED
      BY <1>1, <1>4, <2>6, <2>8
  <1>5. CASE ~SessionStep
    BY <1>0, <1>3, <1>5, StageStep
  <1>6. CASE SessionStep
    <2>1. TypeOK
      BY <1>0 DEF Basic
    <2>2. ASSUME NEW s \in Stages, Enter(Agent, s)
          PROVE  s = "busy"
      BY <1>0, <2>1, <2>2, EnterStep
    <2>3. ~Dial /\ ~Shut /\ ~CallReturns
      BY <2>2 DEF Dial, Shut, CallReturns, Stages
    <2>4. CASE OnHello
      <3>1. UNCHANGED stage /\ call' = call
        BY <2>2, <2>4 DEF OnHello, Stages
      <3> QED
        BY <1>3, <3>1
    <2>5. CASE OnCall
      <3>1. (verified /\ call' = NextFrame(Agent)) \/ UNCHANGED <<call, stage>>
        BY <2>5 DEF OnCall
      <3> QED
        BY <1>3, <1>4, <2>5, <3>1
    <2>6. CASE Expire
      BY <1>3, <2>6 DEF Expire
    <2> QED
      BY <1>6, <2>3, <2>4, <2>5, <2>6 DEF SessionStep
  <1> QED
    BY <1>5, <1>6

LEMMA CallsOwnStep ==
  ASSUME Inv, Next
  PROVE  CallsOwn'
  <1>0. Basic /\ CallsOwn
    BY DEF Inv, Story
  <1> SUFFICES ASSUME NEW v \in Viewers, NEW k \in 1..Len(said'[v]), said'[v][k].kind = "call"
               PROVE  said'[v][k].of = v /\ (~said'[v][k].early => HasReady(v)')
    BY DEF CallsOwn
  <1>1. v \in Conns
    BY DEF Conns
  <1>2. HasReady(v) => HasReady(v)'
    BY <1>0, <1>1, HasReadyStays
  <1>3. CASE k \in 1..Len(said[v])
    <2>1. said'[v][k] = said[v][k]
      BY <1>0, <1>1, <1>3, SaidStep
    <2> QED
      BY <1>0, <1>2, <1>3, <2>1 DEF CallsOwn
  <1>4. CASE said'[v][k] = CallBy(v)
    <2>1. CallBy(v).of = v /\ CallBy(v).early = ~HasReady(v)
      BY MessageFacts
    <2>2. ~CallBy(v).early => HasReady(v)
      BY <2>1
    <2> QED
      BY <1>2, <1>4, <2>1, <2>2
  <1> QED
    BY <1>0, <1>3, <1>4, ViewerAdds

LEMMA ResultsOfStep ==
  ASSUME Inv, Next
  PROVE  ResultsOf'
  <1>0. Basic /\ ResultsOf /\ Agent \in Conns
    BY DEF Inv, Story, Conns
  <1>1. ASSUME NEW m, Foreign(m), NEW k \in 1..Len(said'[Agent]), said'[Agent][k] = m
        PROVE  Foreign(said[Agent][k])'
    <2>1. Foreign(m)'
      BY <1>0, <1>1, ForeignStays
    <2> QED
      BY <1>1, <2>1 DEF Foreign, HasReady
  <1> SUFFICES ASSUME NEW k \in 1..Len(said'[Agent]), said'[Agent][k].kind = "result"
               PROVE  Foreign(said[Agent][k])'
    BY DEF ResultsOf
  <1>2. CASE k \in 1..Len(said[Agent])
    <2>1. said'[Agent][k] = said[Agent][k]
      BY <1>0, <1>2, SaidStep
    <2>2. Foreign(said[Agent][k])
      BY <1>0, <1>2, <2>1 DEF ResultsOf
    <2> QED
      BY <1>1, <2>1, <2>2
  <1>3. CASE said'[Agent][k] = ResultOf(call) /\ stage[Agent] = "busy"
    <2>1. Foreign(call) /\ call \in Messages
      BY <1>3 DEF Inv, Story, BusyCall, Basic, TypeOK
    <2>2. Foreign(ResultOf(call))
      BY <2>1, MessageFacts DEF Foreign
    <2> QED
      BY <1>1, <1>3, <2>2
  <1> QED
    BY <1>0, <1>2, <1>3, SessionAdds

\* What the session has heard stays heard.
LEMMA HeardHelloStays ==
  ASSUME Basic, Next, NEW i \in Nat, HeardHello(i)
  PROVE  HeardHello(i)'
  <1>0. Agent \in Conns
    BY DEF Conns
  <1>1. /\ heard[Agent] \in Nat /\ heard[Agent] <= Len(got[Agent]) /\ Len(got[Agent]) \in Nat
        /\ i \in 1..heard[Agent] /\ Got(Agent, i).kind = "hello"
    BY <1>0, GotFacts DEF Basic, TypeOK, HeardBound, HeardHello
  <1>2. i \in 1..Len(got[Agent])
    BY <1>1
  <1>3. Got(Agent, i)'.kind = "hello"
    BY <1>0, <1>1, <1>2, GotKept
  <1>4. heard'[Agent] = heard[Agent] \/ heard'[Agent] = heard[Agent] + 1
    BY <1>0, HeardStep, HearStep
  <1>5. i \in 1..heard'[Agent]
    BY <1>1, <1>4
  <1> QED
    BY <1>3, <1>5 DEF HeardHello

LEMMA ReadyPerHelloStep ==
  ASSUME Inv, Next
  PROVE  ReadyPerHello'
  <1>0. /\ Basic /\ ReadyPerHello /\ Agent \in Conns
        /\ heard[Agent] \in Nat /\ said[Agent] \in Seq(Messages) /\ Len(said[Agent]) \in Nat
    BY DEF Inv, Story, Conns, Basic, TypeOK
  \* A Ready was there before, or answers the Hello that is heard now.
  <1>1. ASSUME NEW k \in Nat, ReadyAt(k)'
        PROVE  \/ ReadyAt(k)
               \/ /\ k = Len(said[Agent]) + 1
                  /\ \E l \in Nat : l = heard[Agent] + 1 /\ HeardHello(l)'
    <2>1. k \in 1..Len(said'[Agent]) /\ said'[Agent][k].kind = "ready"
      BY <1>1 DEF ReadyAt
    <2>2. CASE k \in 1..Len(said[Agent])
      BY <1>0, <2>1, <2>2, SaidStep DEF ReadyAt
    <2>3. CASE said'[Agent][k] = ResultOf(call) /\ stage[Agent] = "busy"
      <3>1. ResultOf(call).kind = "result"
        BY <1>0, MessageFacts DEF Basic, TypeOK
      <3> QED
        BY <2>1, <2>3, <3>1
    <2>4. CASE /\ k = Len(said[Agent]) + 1
               /\ Hear(Agent) /\ NextFrame(Agent).kind = "hello"
      <3>1. /\ heard[Agent] + 1 \in 1..Len(got[Agent])
            /\ NextFrame(Agent) = Got(Agent, heard[Agent] + 1)
            /\ heard'[Agent] = heard[Agent] + 1
        BY <1>0, <2>4, HearStep
      <3>2. PICK i \in 1..Len(got[Agent]) : i = heard[Agent] + 1
        BY <3>1
      <3>3. Got(Agent, i)' = Got(Agent, i)
        BY <1>0, GotKept
      <3>4. i \in 1..heard'[Agent] /\ i \in Nat
        BY <1>0, <3>1, <3>2
      <3>5. HeardHello(i)'
        BY <2>4, <3>1, <3>2, <3>3, <3>4 DEF HeardHello
      <3> QED
        BY <2>4, <3>2, <3>4, <3>5
    <2> QED
      BY <1>0, <2>1, <2>2, <2>3, <2>4, SessionAdds
  \* Two of them are not the same Hello's.
  <1>2. ASSUME NEW i \in Nat, HeardHello(i)
        PROVE  HeardHello(i)' /\ i < heard[Agent] + 1
    <2>1. i \in 1..heard[Agent]
      BY <1>2 DEF HeardHello
    <2> QED
      BY <1>0, <1>2, <2>1, HeardHelloStays
  <1>3. ASSUME NEW k \in Nat, ReadyAt(k)'
        PROVE  \E i \in Nat : HeardHello(i)'
    <2>1. CASE ReadyAt(k)
      <3>1. PICK i \in Nat : HeardHello(i)
        BY <1>0, <2>1 DEF ReadyPerHello
      <3> QED
        BY <1>2, <3>1
    <2>2. CASE \E l \in Nat : HeardHello(l)'
      BY <2>2
    <2> QED
      BY <1>1, <1>3, <2>1, <2>2
  <1>4. ASSUME NEW j \in Nat, NEW k \in Nat, ReadyAt(j)', ReadyAt(k)', j < k
        PROVE  \E i, l \in Nat : i < l /\ HeardHello(i)' /\ HeardHello(l)'
    <2>0. ASSUME NEW n \in Nat, ReadyAt(n)
          PROVE  n <= Len(said[Agent])
      BY <2>0 DEF ReadyAt
    <2>1. CASE ReadyAt(j) /\ ReadyAt(k)
      <3>1. PICK i, l \in Nat : i < l /\ HeardHello(i) /\ HeardHello(l)
        BY <1>0, <1>4, <2>1 DEF ReadyPerHello
      <3> QED
        BY <1>2, <3>1
    <2>2. CASE ReadyAt(j) /\ ~ReadyAt(k)
      <3>1. PICK i \in Nat : HeardHello(i)
        BY <1>0, <2>2 DEF ReadyPerHello
      <3>2. PICK l \in Nat : l = heard[Agent] + 1 /\ HeardHello(l)'
        BY <1>1, <1>4, <2>2
      <3>3. HeardHello(i)' /\ i < l
        BY <1>2, <3>1, <3>2
      <3> QED
        BY <3>2, <3>3
    <2>3. CASE ~ReadyAt(j)
      <3>1. j = Len(said[Agent]) + 1
        BY <1>1, <1>4, <2>3
      <3>2. ~ReadyAt(k) /\ k # Len(said[Agent]) + 1
        BY <1>0, <1>4, <2>0, <3>1
      <3> QED
        BY <1>1, <1>4, <3>2
    <2> QED
      BY <2>1, <2>2, <2>3
  <1> QED
    BY <1>3, <1>4 DEF ReadyPerHello

LEMMA ReadyReadStep ==
  ASSUME Inv, Next
  PROVE  ReadyRead'
  <1>0. Basic /\ ReadyRead /\ TypeOK
    BY DEF Inv, Story, Basic
  <1> SUFFICES ASSUME NEW v \in Headless
               PROVE  /\ v \in toolkit'.ready => HasReady(v)'
                      /\ stage'[v] \in {"called", "done"} => HasReady(v)'
                      /\ stage'[v] = "done" => Foreign(answer[v])'
    BY DEF ReadyRead
  <1>1. /\ v \in Conns /\ v \in Viewers /\ v # Agent /\ v \notin Others /\ Agent \in Conns
        /\ Agent \notin Headless
    BY TunnelAssumption DEF Conns, Viewers
  <1>2. HasReady(v) => HasReady(v)'
    BY <1>0, <1>1, HasReadyStays
  <1>3. ASSUME NEW m, Foreign(m), answer'[v] = m
        PROVE  Foreign(answer[v])'
    <2>1. Foreign(m)'
      BY <1>0, <1>3, ForeignStays
    <2> QED
      BY <1>3, <2>1 DEF Foreign, HasReady
  <1>4. v \in toolkit'.ready => v \in toolkit.ready \/ HasReady(v)
    <2> SUFFICES ASSUME v \in toolkit'.ready, v \notin toolkit.ready
                 PROVE  HasReady(v)
      OBVIOUS
    <2>1. Hear(v) /\ NextFrame(v).kind = "ready"
      <3>1. ASSUME NEW w \in Headless, ViewerStep(w)
            PROVE  Hear(v) /\ NextFrame(v).kind = "ready"
        <4>1. Hear(w) /\ toolkit' = Noted(w)
          BY <3>1 DEF ViewerStep, Connect, AwaitReady, AwaitResult, Give, client
        <4>2. CASE NextFrame(w).kind = "ready"
          <5>1. toolkit'.ready = toolkit.ready \cup {w}
            BY <1>0, <4>1, <4>2 DEF Noted, TypeOK
          <5> QED
            BY <4>1, <4>2, <5>1
        <4>3. CASE NextFrame(w).kind # "ready"
          <5>1. toolkit'.ready = toolkit.ready
            BY <1>0, <4>1, <4>3 DEF Noted, TypeOK
          <5> QED
            BY <5>1
        <4> QED
          BY <4>2, <4>3
      <3>2. CASE SessionStep
        <4>1. toolkit' = toolkit
          BY <3>2 DEF SessionStep, Dial, OnHello, OnCall, CallReturns, Expire, Shut, client
        <4> QED
          BY <4>1
      <3> QED
        BY <1>0, <3>1, <3>2, StageStep
    <2>2. /\ heard[v] + 1 \in 1..Len(got[v]) /\ NextFrame(v) = Got(v, heard[v] + 1)
      BY <1>0, <1>1, <2>1, HearStep
    <2> QED
      BY <1>0, <1>1, <2>1, <2>2, HasReadyIs
  <1>5. v \in toolkit'.ready => HasReady(v)'
    BY <1>0, <1>2, <1>4 DEF ReadyRead
  <1>6. stage'[v] \in {"called", "done"} => HasReady(v)'
    <2> SUFFICES ASSUME stage'[v] \in {"called", "done"}
                 PROVE  HasReady(v)'
      OBVIOUS
    <2>1. CASE stage[v] \in {"called", "done"}
      BY <1>0, <1>2, <2>1 DEF ReadyRead
    <2>2. CASE stage[v] \notin {"called", "done"}
      <3>1. ViewerStep(v)
        BY <1>0, <1>1, <2>2, StageStep
      <3>2. ASSUME NEW s \in Stages, Enter(v, s)
            PROVE  s \in {"called", "done"}
        BY <1>0, <1>1, <3>2, EnterStep
      <3>3. "hello" \in Stages /\ "failed" \in Stages /\ "called" \in Stages
        BY DEF Stages
      <3>4. AwaitReady(v) /\ stage' # stage
        BY <2>2, <3>1, <3>2, <3>3
        DEF ViewerStep, Connect, AwaitResult, Give, LinkClosed, Interrupt
      <3>5. v \in toolkit'.ready
        BY <3>2, <3>3, <3>4 DEF AwaitReady, BothCame
      <3> QED
        BY <1>5, <3>5
    <2> QED
      BY <2>1, <2>2
  <1>7. stage'[v] = "done" => Foreign(answer[v])'
    <2> SUFFICES ASSUME stage'[v] = "done"
                 PROVE  Foreign(answer[v])'
      OBVIOUS
    <2>1. CASE AwaitResult(v) /\ NextFrame(v).kind = "result" /\ answer' = [answer EXCEPT ![v] = NextFrame(v)]
      <3>1. /\ heard[v] + 1 \in 1..Len(got[v]) /\ NextFrame(v) = Got(v, heard[v] + 1)
        BY <1>0, <1>1, <2>1, HearStep DEF AwaitResult
      <3>2. PICK n \in 1..Len(said[Agent]) : NextFrame(v) = said[Agent][n]
        BY <1>0, <1>1, <3>1, GotFacts DEF Got
      <3>3. Foreign(NextFrame(v))
        BY <2>1, <3>2 DEF Inv, Story, ResultsOf
      <3>4. answer'[v] = NextFrame(v)
        BY <1>0, <2>1 DEF TypeOK
      <3> QED
        BY <1>3, <3>3, <3>4
    <2>2. CASE stage[v] = "done" /\ answer'[v] = answer[v]
      BY <1>0, <1>3, <2>2 DEF ReadyRead
    <2>3. CASE ViewerStep(v)
      <3>2. ASSUME NEW s \in Stages, Enter(v, s)
            PROVE  s = "done"
        BY <1>0, <1>1, <3>2, EnterStep
      <3>3. "hello" \in Stages /\ "failed" \in Stages /\ "called" \in Stages
        BY DEF Stages
      <3>4. ~Connect(v) /\ ~Give(v)
        BY <3>2, <3>3 DEF Connect, Give, LinkClosed, Interrupt
      <3>5. ~AwaitReady(v)
        BY <1>0, <1>1, <3>2, <3>3 DEF AwaitReady
      <3>6. AwaitResult(v)
        BY <2>3, <3>4, <3>5 DEF ViewerStep
      <3> QED
        BY <2>1, <3>2, <3>3, <3>6 DEF AwaitResult
    <2>4. CASE ~ViewerStep(v)
      <3>1. stage[v] = "done"
        BY <1>0, <1>1, <2>4, StageStep
      <3>2. ASSUME NEW w \in Headless, ViewerStep(w)
            PROVE  answer'[v] = answer[v]
        <4>1. w # v
          BY <2>4, <3>2
        <4> QED
          BY <1>0, <3>2, <4>1
          DEF ViewerStep, Connect, AwaitReady, AwaitResult, Give, client, TypeOK
      <3>3. SessionStep => answer'[v] = answer[v]
        BY DEF SessionStep, Dial, OnHello, OnCall, CallReturns, Expire, Shut, client
      <3>4. answer'[v] = answer[v]
        BY <1>0, <3>2, <3>3, StageStep
      <3> QED
        BY <2>2, <3>1, <3>4
    <2> QED
      BY <2>3, <2>4
  <1> QED
    BY <1>5, <1>6, <1>7

LEMMA StoryInit == Init => Story
  <1> SUFFICES ASSUME Init PROVE Story
    OBVIOUS
  <1>1. /\ verified = FALSE /\ toolkit.ready = {}
        /\ \A c \in Conns : said[c] = <<>> /\ stage[c] = "new" /\ heard[c] = 0
    BY DEF Init
  <1>2. Agent \in Conns /\ Viewers \subseteq Conns /\ Headless \subseteq Conns
    BY DEF Conns, Viewers
  <1>3. VerifiedBy /\ BusyCall /\ ReadyRead
    BY <1>1, <1>2 DEF VerifiedBy, BusyCall, ReadyRead
  <1>4. CallsOwn /\ ResultsOf /\ ReadyPerHello
    <2>1. \A c \in Conns : 1..Len(said[c]) = {}
      BY <1>1
    <2> QED
      BY <1>2, <2>1 DEF CallsOwn, ResultsOf, ReadyPerHello, ReadyAt
  <1> QED
    BY <1>3, <1>4 DEF Story

LEMMA StoryStill ==
  ASSUME Story, UNCHANGED vars
  PROVE  Story'
  <1>1. /\ got' = got /\ pipe' = pipe /\ said' = said /\ heard' = heard /\ stage' = stage
        /\ toolkit' = toolkit /\ answer' = answer
        /\ verified' = verified /\ vouched' = vouched /\ call' = call
    BY DEF vars, relay, client, session
  <1>2. VerifiedBy'
    BY <1>1 DEF Story, VerifiedBy, Visited, Visitor, Way
  <1>3. BusyCall'
    BY <1>1 DEF Story, BusyCall, Foreign, HasReady, Visited, Visitor, Way
  <1>4. CallsOwn'
    BY <1>1 DEF Story, CallsOwn, HasReady
  <1>5. ResultsOf'
    BY <1>1 DEF Story, ResultsOf, Foreign, HasReady, Visited, Visitor, Way
  <1>6. ReadyPerHello'
    BY <1>1 DEF Story, ReadyPerHello, ReadyAt, HeardHello, Got
  <1>7. ReadyRead'
    BY <1>1 DEF Story, ReadyRead, Foreign, HasReady, Visited, Visitor, Way
  <1> QED
    BY <1>2, <1>3, <1>4, <1>5, <1>6, <1>7 DEF Story

LEMMA InvAlways == Spec => []Inv
  <1>1. Init => Inv
    BY BasicInit, StoryInit DEF Inv
  <1>2. Inv /\ [Next]_vars => Inv'
    <2> SUFFICES ASSUME Inv, [Next]_vars PROVE Inv'
      OBVIOUS
    <2>1. CASE Next
      <3>1. Basic'
        BY <2>1, BasicStep DEF Inv
      <3>2. /\ VerifiedBy' /\ BusyCall' /\ CallsOwn'
            /\ ResultsOf' /\ ReadyPerHello' /\ ReadyRead'
        BY <2>1, VerifiedByStep, BusyCallStep, CallsOwnStep, ResultsOfStep,
           ReadyPerHelloStep, ReadyReadStep
      <3> QED
        BY <3>1, <3>2 DEF Inv, Story
    <2>2. CASE UNCHANGED vars
      BY <2>2, BasicStill, StoryStill DEF Inv
    <2> QED
      BY <2>1, <2>2
  <1> QED
    BY <1>1, <1>2, PTL DEF Spec

\* A call the session hands its child comes from a viewer whose own Hello was
\* verified (session.rs:177): the claims it finds there were left by the only
\* viewer the session is ever sent anything of.
THEOREM CallsAreVouched == Spec => []VouchedCalls
  <1>1. Inv => VouchedCalls
    BY DEF Inv, Story, BusyCall, VouchedCalls
  <1> QED
    BY <1>1, InvAlways, PTL

\* The Result a headless viewer takes answers its own call (get.rs:105), unless the
\* caller had called before its Ready or said Hello twice: a Result that came to
\* another is the visitor's, who with this viewer has read a Ready; a frame of the
\* session goes to one of them, and two Readies answer two Hellos of the visitor.
THEOREM AnswersAreOwn == Spec => []OwnAnswers
  <1>1. ASSUME Inv, NEW v \in Headless, stage[v] = "done"
        PROVE  LET u == answer[v].of IN u = v \/ answer[v].early \/ HelloTwice(u)
    <2> SUFFICES ASSUME answer[v].of # v, ~answer[v].early
                 PROVE  HelloTwice(answer[v].of)
      OBVIOUS
    <2>00. Basic /\ ToOne /\ OneViewer
      BY <1>1 DEF Inv, Basic, RelayInv
    <2>01. v \in Conns /\ v \in Viewers /\ Agent \in Conns /\ Agent \notin Viewers
      BY TunnelAssumption DEF Conns, Viewers
    <2>0. /\ Basic /\ ToOne /\ OneViewer
          /\ v \in Conns /\ v \in Viewers /\ Agent \in Conns /\ Agent \notin Viewers
      BY <2>00, <2>01
    <2>1. PICK u : u = answer[v].of
      OBVIOUS
    <2>2. Foreign(answer[v]) /\ HasReady(v)
      BY <1>1 DEF Inv, Story, ReadyRead
    <2>3. Visited /\ u = Visitor /\ HasReady(u)
      BY <2>1, <2>2 DEF Foreign
    <2>4. u \in Conns /\ u # Agent /\ u \in Viewers
      BY <2>0, <2>3, VisitorIs
    \* The two Readies.
    <2>5. PICK j \in 1..Len(got[u]) : Got(u, j).kind = "ready"
      BY <2>0, <2>3, <2>4, HasReadyIs
    <2>6. PICK k \in 1..Len(got[v]) : Got(v, k).kind = "ready"
      BY <1>1, <2>0, <2>2, HasReadyIs
    <2>7. ASSUME NEW w \in Viewers, NEW i \in 1..Len(got[w]), Got(w, i).kind = "ready"
          PROVE  /\ got[w][i].n \in Nat /\ ReadyAt(got[w][i].n)
                 /\ i \in 1..Len(Way(w)) /\ Way(w)[i] = got[w][i]
      <3>1. w \in Conns /\ w # Agent
        BY <2>0 DEF Conns
      <3>2. /\ got[w][i].from = Agent /\ got[w][i].n \in 1..Len(said[Agent])
            /\ i \in 1..Len(Way(w)) /\ Way(w)[i] = got[w][i]
        BY <2>0, <3>1, GotFacts
      <3> QED
        BY <2>7, <3>2 DEF ReadyAt, Got
    <2>8. got[u][j].n # got[v][k].n
      <3>1. j \in 1..Len(Way(u)) /\ Way(u)[j] = got[u][j]
        BY <2>4, <2>5, <2>7
      <3>2. k \in 1..Len(Way(v)) /\ Way(v)[k] = got[v][k]
        BY <2>0, <2>6, <2>7
      <3>3. Way(u)[j].n = Way(v)[k].n => u = v
        BY <2>0, <2>4, <3>1, <3>2 DEF ToOne
      <3> QED
        BY <2>1, <3>1, <3>2, <3>3
    \* The two Hellos, and where the visitor said them.
    <2>9. PICK i, l \in Nat : i < l /\ HeardHello(i) /\ HeardHello(l)
      <3>1. /\ got[u][j].n \in Nat /\ ReadyAt(got[u][j].n)
            /\ got[v][k].n \in Nat /\ ReadyAt(got[v][k].n)
        BY <2>0, <2>4, <2>5, <2>6, <2>7
      <3>2. got[u][j].n < got[v][k].n \/ got[v][k].n < got[u][j].n
        BY <2>8, <3>1
      <3> QED
        BY <1>1, <3>1, <3>2 DEF Inv, Story, ReadyPerHello
    <2>10. ASSUME NEW n \in Nat, HeardHello(n)
           PROVE  /\ n \in 1..Len(got[Agent]) /\ n \in 1..Len(Way(Agent))
                  /\ Way(Agent)[n] = got[Agent][n] /\ got[Agent][n].from = u
                  /\ got[Agent][n].n \in 1..Len(said[u]) /\ said[u][got[Agent][n].n].kind = "hello"
      <3>1. n \in 1..Len(got[Agent]) /\ Got(Agent, n).kind = "hello"
        BY <2>0, <2>10, GotFacts DEF HeardHello, Basic, HeardBound, TypeOK
      <3>2. got[Agent][n].from = u
        BY <2>0, <2>3, <3>1, HearVisitor
      <3>3. /\ got[Agent][n].n \in 1..Len(said[u])
            /\ n \in 1..Len(Way(Agent)) /\ Way(Agent)[n] = got[Agent][n]
        BY <2>0, <3>1, <3>2, GotFacts
      <3> QED
        BY <3>1, <3>2, <3>3 DEF Got
    <2>11. got[Agent][i].n < got[Agent][l].n
      BY <2>0, <2>9, <2>10 DEF OneViewer
    <2>12. DOMAIN said[u] = 1..Len(said[u])
      BY <2>0, <2>4 DEF Basic, TypeOK
    <2>13. HelloTwice(u)
      BY <2>9, <2>10, <2>11, <2>12 DEF HelloTwice
    <2> QED
      BY <2>1, <2>13
  <1>2. Inv => OwnAnswers
    BY <1>1 DEF OwnAnswers
  <1> QED
    BY <1>2, InvAlways, PTL
=============================================================================
