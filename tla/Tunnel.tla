------------------------------- MODULE Tunnel -------------------------------
(***************************************************************************)
(* One tunnel from end to end: an agent's session (session.rs), the        *)
(* viewers that come to it one after the other, and the relay in between,  *)
(* which is the contract of Pairing that Relay implements.                 *)
(*                                                                         *)
(* A headless viewer is retrieve_magnet of get.rs.  Any other client of    *)
(* the protocol (the browser page, a test) says what it likes when it      *)
(* likes (List is left out: its answer is a part of Hello's).  A socket is *)
(* a client's end: what it has written, what the relay has sent it, and    *)
(* how much of that it has read.                                           *)
(***************************************************************************)
EXTENDS TnlsCore, Sequences, FiniteSets

CONSTANTS Agent,      \* the session's socket
          Headless,   \* sockets of headless viewers
          Others,     \* sockets of other clients
          TokenOf,    \* the token in the link each viewer was given
          Id, NoConn,
          MaxTunnels, \* MAX_TUNNELS
          MaxSaid     \* bound: frames written by one of the Others

Viewers == Headless \cup Others
Conns   == Viewers \cup {Agent}
Ids     == {Id}
IdOf    == [c \in Conns |-> Id]
RoleOf  == [c \in Conns |-> IF c = Agent THEN "agent" ELSE "viewer"]

ASSUME TunnelAssumption ==
  /\ Agent \notin Viewers /\ Headless \cap Others = {} /\ NoConn \notin Conns
  /\ TokenOf \in [Viewers -> TokenKinds]
  /\ MaxTunnels \in Nat \ {0}
  /\ MaxSaid \in Nat

VARIABLES holder, status, sent, pipe, sealed, got,  \* the relay, as in Pairing
          said,      \* frames each client has written to its socket
          heard,     \* how many of the frames it got it has read
          stage,     \* of each client
          toolkit,   \* headless viewers that have read Ready, those that have read Tools
          answer,    \* history: the call whose Result a headless viewer took
          verified,  \* the session has verified a Hello
          vouched,   \* history: whose Hello that was
          call,      \* the call the session is awaiting
          expired    \* the TTL has run out

relay   == <<holder, status, sent, pipe, sealed, got>>
session == <<verified, vouched, call, expired>>
client  == <<toolkit, answer>>
vars    == <<relay, said, heard, stage, client, session>>

Relay == INSTANCE Pairing

NoCall == [kind |-> "none", of |-> NoConn, early |-> FALSE]
Frame(kind) == [kind |-> kind, of |-> NoConn, early |-> FALSE]

\* A call, and whether its viewer made it before a Ready reached it.
HasReady(v) == \E k \in DOMAIN got[v] : said[got[v][k].from][got[v][k].n].kind = "ready"
CallBy(v)   == [kind |-> "call", of |-> v, early |-> ~HasReady(v)]

ResultOf(m) == [m EXCEPT !.kind = "result"]
Messages == [kind : {"hello", "call", "ready", "tools", "result", "error", "none"},
             of : Viewers \cup {NoConn}, early : BOOLEAN]

Say(c, ms) == said' = [said EXCEPT ![c] = @ \o ms]
Enter(c, s) == stage' = [stage EXCEPT ![c] = s]

\* The next frame a client has to read, and the end of its stream: the relay
\* has closed its socket, and everything before that is read.
Unread(c) == heard[c] < Len(got[c])
NextFrame(c) == LET f == got[c][heard[c] + 1] IN said[f.from][f.n]
Sender(c) == got[c][heard[c] + 1].from
Hear(c)   == Unread(c) /\ heard' = [heard EXCEPT ![c] = @ + 1]
ClosedByRelay(c) == sealed[c] /\ pipe[c] = <<>>
Closed(c) == ~Unread(c) /\ (status[c] = "out" \/ ClosedByRelay(c))

Quit(c)  == stage[c] \in {"over", "done", "failed"}
Waits(v) == stage[v] \in {"hello", "called"}

Init ==
  /\ Relay!Init
  /\ said = [c \in Conns |-> <<>>]
  /\ heard = [c \in Conns |-> 0]
  /\ stage = [c \in Conns |-> "new"]
  /\ toolkit = [ready |-> {}, tools |-> {}]
  /\ answer = [v \in Headless |-> NoCall]
  /\ verified = FALSE
  /\ vouched = {}
  /\ call = NoCall
  /\ expired = FALSE

----------------------------------------------------------------------------
(* The relay.  A socket is registered some time after its client sees the  *)
(* upgrade accepted, and leaves when its client has quit: of its own, or   *)
(* to answer the relay's close.  A broken connection is a client that      *)
(* quits before it has read what it got.                                   *)

Admit(c)   == stage[c] # "new" /\ (Relay!Join(c) \/ Relay!Refuse(c))
Forward(c) == sent[c] < Len(said[c]) /\ Relay!Send(c)
Carry(c)   == Relay!Receive(c)
Depart(c)  == Quit(c) /\ Relay!Leave(c)

RelayStep(c) ==
  /\ Admit(c) \/ Forward(c) \/ Carry(c) \/ Depart(c)
  /\ UNCHANGED <<said, heard, stage, client, session>>

----------------------------------------------------------------------------
(* The session *)

Claims == [scope |-> {"request_file"}, exp |-> 1]
Now    == IF expired THEN 1 ELSE 0

\* The relay is dialled; with that, the link is handed out.
Dial ==
  /\ stage[Agent] = "new"
  /\ Enter(Agent, "loop")
  /\ UNCHANGED <<relay, said, heard, client, session>>

OnHello ==
  /\ stage[Agent] = "loop" /\ Hear(Agent) /\ NextFrame(Agent).kind = "hello"
  /\ IF Verify(TokenOf[Sender(Agent)], Claims, Now) = "ok"
     THEN /\ verified' = TRUE
          /\ vouched' = vouched \cup {Sender(Agent)}
          /\ Say(Agent, <<Frame("ready"), Frame("tools")>>)
          /\ UNCHANGED stage
     ELSE /\ Say(Agent, <<Frame("error")>>)
          /\ Enter(Agent, "over")
          /\ UNCHANGED <<verified, vouched>>
  /\ UNCHANGED <<relay, client, call, expired>>

OnCall ==
  /\ stage[Agent] = "loop" /\ Hear(Agent) /\ NextFrame(Agent).kind = "call"
  /\ IF verified /\ DecideCall(Claims, Now, "request_file") = "forward"
     THEN call' = NextFrame(Agent) /\ Enter(Agent, "busy") /\ UNCHANGED said
     ELSE Say(Agent, <<Frame("error")>>) /\ UNCHANGED <<call, stage>>
  /\ UNCHANGED <<relay, client, verified, vouched, expired>>

CallReturns ==
  /\ stage[Agent] = "busy"
  /\ \/ Say(Agent, <<ResultOf(call)>>)
     \/ Say(Agent, <<Frame("error")>>)
  /\ call' = NoCall
  /\ Enter(Agent, "loop")
  /\ UNCHANGED <<relay, heard, client, verified, vouched, expired>>

\* The timer task, whatever the loop is doing.
Expire ==
  /\ stage[Agent] \in {"loop", "busy"} /\ ~expired
  /\ expired' = TRUE
  /\ Say(Agent, <<Frame("error")>>)
  /\ UNCHANGED <<relay, heard, stage, client, verified, vouched, call>>

HungUp == Closed(Agent)

\* The loop breaks: the TTL or the end of the stream, or a signal.
Shut ==
  /\ stage[Agent] = "loop"
  /\ Enter(Agent, "over")
  /\ UNCHANGED <<relay, said, heard, client, session>>

SessionStep == Dial \/ OnHello \/ OnCall \/ CallReturns \/ Expire \/ Shut

----------------------------------------------------------------------------
(* A headless viewer: retrieve_magnet *)

\* It connects with the link it was given and says Hello.
Connect(v) ==
  /\ stage[v] = "new" /\ stage[Agent] # "new"
  /\ Enter(v, "hello")
  /\ Say(v, <<Frame("hello")>>)
  /\ UNCHANGED <<relay, heard, client, session>>

\* Mutant: noted under the sender of the frame.
NotedOfSender(v) == [toolkit EXCEPT !.ready = @ \cup {Sender(v)}]

Noted(v) ==
  CASE NextFrame(v).kind = "ready" -> [toolkit EXCEPT !.ready = @ \cup {v}]
    [] NextFrame(v).kind = "tools" -> [toolkit EXCEPT !.tools = @ \cup {v}]
    [] OTHER -> toolkit

\* Mutant: one of Ready and Tools is enough.
EitherCame(v) == v \in toolkit'.ready \cup toolkit'.tools
BothCame(v)   == v \in toolkit'.ready \cap toolkit'.tools

\* It reads until both Ready and Tools have come, then calls request_file.
AwaitReady(v) ==
  /\ stage[v] = "hello" /\ Hear(v)
  /\ toolkit' = Noted(v)
  /\ CASE NextFrame(v).kind = "error" -> Enter(v, "failed") /\ UNCHANGED said
       [] NextFrame(v).kind # "error" /\ BothCame(v) ->
            Enter(v, "called") /\ Say(v, <<CallBy(v)>>)
       [] OTHER -> UNCHANGED <<stage, said>>
  /\ UNCHANGED <<relay, answer, session>>

\* It reads until a Result or an Error comes; a Result may hold no usable answer.
AwaitResult(v) ==
  /\ stage[v] = "called" /\ Hear(v)
  /\ CASE NextFrame(v).kind = "error"  -> Enter(v, "failed") /\ UNCHANGED answer
       [] NextFrame(v).kind = "result" ->
            \/ Enter(v, "done") /\ answer' = [answer EXCEPT ![v] = NextFrame(v)]
            \/ Enter(v, "failed") /\ UNCHANGED answer
       [] OTHER -> UNCHANGED <<stage, answer>>
  /\ UNCHANGED <<relay, said, toolkit, session>>

\* The stream ends, or its user interrupts it.
LinkClosed(v) == Waits(v) /\ Closed(v) /\ Enter(v, "failed")
Interrupt(v)  == Waits(v) /\ Enter(v, "failed")

Give(v) ==
  /\ LinkClosed(v) \/ Interrupt(v)
  /\ UNCHANGED <<relay, said, heard, client, session>>

ViewerStep(v) == Connect(v) \/ AwaitReady(v) \/ AwaitResult(v) \/ Give(v)

----------------------------------------------------------------------------
(* Any other client *)

OtherConnects(v) ==
  /\ stage[v] = "new" /\ stage[Agent] # "new"
  /\ Enter(v, "open")
  /\ UNCHANGED <<relay, said, heard, client, session>>

OtherSays(v) ==
  /\ stage[v] = "open" /\ Len(said[v]) < MaxSaid
  /\ \E m \in {Frame("hello"), CallBy(v)} : Say(v, <<m>>)
  /\ UNCHANGED <<relay, heard, stage, client, session>>

OtherQuits(v) ==
  /\ stage[v] = "open" /\ Enter(v, "over")
  /\ UNCHANGED <<relay, said, heard, client, session>>

OtherStep(v) == OtherConnects(v) \/ OtherSays(v) \/ OtherQuits(v)

Quiescent == (\A c \in Conns : Quit(c)) /\ UNCHANGED vars

Next ==
  \/ \E c \in Conns : RelayStep(c)
  \/ SessionStep
  \/ \E v \in Headless : ViewerStep(v)
  \/ \E v \in Others : OtherStep(v)
  \/ Quiescent

Spec == Init /\ [][Next]_vars

\* The relay's tasks run, and a client that has quit leaves; the session's tasks
\* run, the child answers and the TTL runs out; a viewer reads what it is sent.
Fairness ==
  /\ \A c \in Conns : WF_vars(RelayStep(c))
  /\ WF_vars(OnHello \/ OnCall \/ CallReturns \/ Expire \/ ((expired \/ HungUp) /\ Shut))
  /\ \A v \in Headless :
       WF_vars(AwaitReady(v) \/ AwaitResult(v) \/ (Closed(v) /\ Give(v)))

LiveSpec == Spec /\ Fairness
----------------------------------------------------------------------------
TypeOK ==
  /\ said \in [Conns -> Seq(Messages)]
  /\ heard \in [Conns -> Nat]
  /\ stage \in [Conns -> {"new", "loop", "busy", "hello", "called", "open",
                          "over", "done", "failed"}]
  /\ toolkit \in [ready : SUBSET Headless, tools : SUBSET Headless]
  /\ answer \in [Headless -> Messages]
  /\ verified \in BOOLEAN /\ expired \in BOOLEAN
  /\ vouched \subseteq Viewers
  /\ call \in Messages

\* The claims of a Hello are kept by the session, not by viewer, and the relay
\* does not tell the session who is at the other end: still, a call that
\* reaches the child comes from the viewer whose own Hello was verified.
VouchedCalls == stage[Agent] = "busy" => call.of \in vouched

\* The Result a headless viewer takes answers its own call, although it does
\* not look at the id, unless a former viewer called before it saw Ready, or said
\* Hello twice and so left a second Ready behind.
HelloTwice(v) == \E j, k \in DOMAIN said[v] : /\ j < k
                                             /\ said[v][j].kind = "hello"
                                             /\ said[v][k].kind = "hello"
OwnAnswers ==
  \A v \in Headless : stage[v] = "done" =>
    LET u == answer[v].of IN u = v \/ answer[v].early \/ HelloTwice(u)

\* A headless viewer that was on the relay together with the session never waits
\* for ever, though it has no timeout: it gets its answer or an error, or the end
\* of the session closes its link.
Served(v) == Waits(v) /\ status[v] = "in" /\ status[Agent] = "in"
ServedViewersEnd == \A v \in Headless : Served(v) ~> ~Waits(v)

\* A link whose session is over is reported dead: no headless viewer waits for
\* ever, whenever it came.
ViewersEnd == \A v \in Headless : Waits(v) ~> ~Waits(v)
=============================================================================
