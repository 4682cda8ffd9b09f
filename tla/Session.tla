------------------------------ MODULE Session ------------------------------
(***************************************************************************)
(* An open tunnel on the agent's side: session.rs, from the spawn of the   *)
(* MCP child to the end of teardown.  The actors are the task that runs    *)
(* open (startup, the select! loop with handle_frame, teardown), the TTL   *)
(* timer task, the signal task or, when a GUI embeds the session, the task *)
(* that bridges its Notify; and outside them the viewer, the child, the    *)
(* clock and whoever revokes the tunnel.                                   *)
(*                                                                         *)
(* Frames for the viewer are kept in the order they enter the outbound     *)
(* channel; the writer task behind it feeds nothing back.                  *)
(***************************************************************************)
EXTENDS TnlsCore, Sequences, FiniteSets

CONSTANTS ChildTools,   \* tools the child advertised
          Names,        \* tools a viewer may name, the child's or not
          Scope,        \* --scope
          Ttl,          \* --ttl, in whole seconds
          Embedding,    \* who runs the session: {FALSE} the CLI, {TRUE} the GUI
          TicksPerSec,  \* resolution of the clock: now_secs() truncates
          MaxClock,     \* bound: ticks
          MaxRead       \* bound: viewer frames read

ASSUME SessionAssumption ==
  /\ ChildTools \subseteq Names
  /\ Ttl \in Nat
  /\ Embedding \subseteq BOOLEAN
  /\ TicksPerSec \in Nat \ {0}
  /\ MaxClock \in Nat
  /\ MaxRead \in Nat

VARIABLES clock,     \* wall clock in ticks
          stage,     \* where open() is
          embedded,  \* args.shutdown is given
          child,     \* "none", "up", "dead" or "closed"
          exp,       \* expiry, unix seconds
          pidfile,   \* the session's pidfile exists
          verified,  \* a Hello has been verified; its claims are the minted ones
          call,      \* the tools/call handle_frame is awaiting
          read,      \* viewer frames read
          asked,     \* history: ids of the Call frames read
          emitted,   \* history: frames put on the outbound channel
          counts,    \* SessionCounts
          reported,  \* the /report message, once sent
          timer,     \* TTL task: its state and the tick it sleeps until
          permit,    \* the internal Notify holds a permit
          handler,   \* SIGINT/SIGTERM task: "none", "waiting" or "spent"
          ext        \* the embedder's Notify: "idle", "notified" or "bridged"

vars == <<clock, stage, embedded, child, exp, pidfile, verified, call, read, asked,
          emitted, counts, reported, timer, permit, handler, ext>>

world   == <<clock, embedded, exp>>
tasks   == <<timer, permit, handler, ext>>
talk    == <<verified, call, read, asked, emitted, counts>>
outside == <<child, pidfile, reported>>

Stages == {"spawn", "dial", "publish", "arm", "loop",
           "report", "kill", "unlink", "closed", "failed", "killed"}
Ended  == stage \in {"closed", "failed", "killed"}
Starting == stage \in {"spawn", "dial", "publish", "arm"}

NowSecs == clock \div TicksPerSec
Claims  == [scope |-> Scope, exp |-> exp]

NoCall == [id |-> 0, tool |-> "none"]
NoId   == 0

Ready         == [kind |-> "ready",  id |-> NoId, code |-> "none", tools |-> {}]
Tools(ts)     == [kind |-> "tools",  id |-> NoId, code |-> "none", tools |-> ts]
Result(k)     == [kind |-> "result", id |-> k,    code |-> "none", tools |-> {}]
Error(k, e)   == [kind |-> "error",  id |-> k,    code |-> e,      tools |-> {}]
Refusal(k, t) == [kind |-> "error",  id |-> k, code |-> "out_of_scope", tools |-> {t}]

Frames ==
  [kind : {"ready", "tools", "result"}, id : Nat, code : {"none"}, tools : SUBSET ChildTools]
  \cup [kind : {"error"}, id : Nat,
        code : {"expired", "unauthorized", "bad_request", "out_of_scope", "tool_error"},
        tools : SUBSET Names]

Emit(fs) == emitted' = emitted \o fs

----------------------------------------------------------------------------
Init ==
  /\ clock \in 0 .. TicksPerSec - 1
  /\ stage = "spawn"
  /\ embedded \in Embedding
  /\ child = "none"
  /\ exp = 0
  /\ pidfile = FALSE
  /\ verified = FALSE
  /\ call = NoCall
  /\ read = 0
  /\ asked = {}
  /\ emitted = <<>>
  /\ counts = [calls |-> 0, blocks |-> 0]
  /\ reported = [calls |-> 0, blocks |-> 0]
  /\ timer = [state |-> "off", at |-> 0]
  /\ permit = FALSE
  /\ handler = "none"
  /\ ext = "idle"

----------------------------------------------------------------------------
(* Startup *)

\* 1-2. The child is spawned and shakes hands; then identity, expiry and token.
Spawn ==
  /\ stage = "spawn"
  /\ stage' = "dial"
  /\ child' = "up"
  /\ exp' = NowSecs + Ttl
  /\ UNCHANGED <<clock, embedded, pidfile, reported, talk, tasks>>

\* 3. The relay is dialled as agent.
Dial ==
  /\ stage = "dial"
  /\ stage' = "publish"
  /\ UNCHANGED <<world, outside, talk, tasks>>

\* 4. The pidfile is written and the link handed out.
Publish ==
  /\ stage = "publish"
  /\ stage' = "arm"
  /\ pidfile' = TRUE
  /\ UNCHANGED <<world, child, reported, talk, tasks>>

\* A failure on the way returns early; dropping McpChild ends the child.  A
\* pidfile of which only the first copy could be written stays behind.
StartFails ==
  /\ stage \in {"spawn", "dial", "publish"}
  /\ stage' = "failed"
  /\ child' = IF child = "none" THEN "none" ELSE "closed"
  /\ pidfile' \in IF stage = "publish" THEN BOOLEAN ELSE {FALSE}
  /\ UNCHANGED <<world, reported, talk, tasks>>

\* Mutant: the timer counts whole seconds from the start of this second.
SleepTruncated == [state |-> "armed", at |-> exp * TicksPerSec - TicksPerSec]

\* 6. The timer sleeps the seconds left (saturating), counted from now.
Sleep == LET left == IF exp > NowSecs THEN exp - NowSecs ELSE 0
         IN  [state |-> "armed", at |-> clock + left * TicksPerSec]

\* 5-8. The tasks are spawned and the loop is entered.
Arm ==
  /\ stage = "arm"
  /\ stage' = "loop"
  /\ timer' = Sleep
  /\ UNCHANGED <<world, outside, talk, permit, handler, ext>>

----------------------------------------------------------------------------
(* The event loop: it looks at the stream and at the Notify only while no  *)
(* call is awaited.                                                        *)
Polling == stage = "loop" /\ call = NoCall
Reading == Polling /\ read < MaxRead /\ read' = read + 1

\* The permit is there: break.
OnShutdown ==
  /\ Polling
  /\ permit
  /\ permit' = FALSE
  /\ stage' = "report"
  /\ UNCHANGED <<world, outside, talk, timer, handler, ext>>

\* Mutant: a transport error is returned from open with `?`.
OnStreamEndReturns ==
  /\ Polling
  /\ stage' = "closed"
  /\ UNCHANGED <<world, outside, talk, tasks>>

\* The stream ended or failed: relay or viewer gone, break.
OnStreamEnd ==
  /\ Polling
  /\ stage' = "report"
  /\ UNCHANGED <<world, outside, talk, tasks>>

\* Text that is no ViewerFrame.
OnGarbage ==
  /\ Reading
  /\ Emit(<<Error(NoId, "bad_request")>>)
  /\ UNCHANGED <<world, outside, tasks, stage, verified, call, asked, counts>>

\* A good Hello is answered with Ready and the tools in scope; any other ends
\* the session.
OnHello(token) ==
  /\ Reading
  /\ CASE Verify(token, Claims, NowSecs) = "ok" ->
            /\ verified' = TRUE
            /\ Emit(<<Ready, Tools(FilterTools(ChildTools, Scope))>>)
            /\ UNCHANGED stage
       [] Verify(token, Claims, NowSecs) = "expired" ->
            /\ Emit(<<Error(NoId, "expired")>>)
            /\ stage' = "report"
            /\ UNCHANGED verified
       [] OTHER ->
            /\ Emit(<<Error(NoId, "unauthorized")>>)
            /\ stage' = "report"
            /\ UNCHANGED verified
  /\ UNCHANGED <<world, outside, tasks, call, asked, counts>>

OnList ==
  /\ Reading
  /\ Emit(IF verified THEN <<Tools(FilterTools(ChildTools, Scope))>>
                      ELSE <<Error(NoId, "unauthorized")>>)
  /\ UNCHANGED <<world, outside, tasks, stage, verified, call, asked, counts>>

\* Mutant: a call that came too late is reported as a block.
CountedLate(decision) ==
  CASE decision = "forward" -> [counts EXCEPT !.calls = @ + 1]
    [] decision = "out_of_scope" -> [counts EXCEPT !.blocks = @ + 1]
    [] decision = "expired" -> [counts EXCEPT !.blocks = @ + 1]

Counted(decision) ==
  CASE decision = "forward" -> [counts EXCEPT !.calls = @ + 1]
    [] decision = "out_of_scope" -> [counts EXCEPT !.blocks = @ + 1]
    [] decision = "expired" -> counts

\* A Call is refused without a verified Hello, then decided; a forwarded one
\* is awaited, and the loop with it.
OnCall(tool) ==
  LET k == read + 1
      decision == DecideCall(Claims, NowSecs, tool)
  IN  /\ Reading
      /\ asked' = asked \cup {k}
      /\ IF verified
         THEN /\ counts' = Counted(decision)
              /\ CASE decision = "forward" ->
                        call' = [id |-> k, tool |-> tool] /\ UNCHANGED emitted
                   [] decision = "out_of_scope" ->
                        Emit(<<Refusal(k, tool)>>) /\ UNCHANGED call
                   [] decision = "expired" ->
                        Emit(<<Error(k, "expired")>>) /\ UNCHANGED call
         ELSE Emit(<<Error(k, "unauthorized")>>) /\ UNCHANGED <<call, counts>>
      /\ UNCHANGED <<world, outside, tasks, stage, verified>>

\* The child answers the call.
CallReturns ==
  /\ stage = "loop" /\ call # NoCall
  /\ child = "up"
  /\ Emit(<<Result(call.id)>>)
  /\ call' = NoCall
  /\ UNCHANGED <<world, outside, tasks, stage, verified, read, asked, counts>>

\* Mutant: the error does not carry the call's id.
CallFailsUnnamed ==
  /\ stage = "loop" /\ call # NoCall
  /\ Emit(<<Error(NoId, "tool_error")>>)
  /\ call' = NoCall
  /\ UNCHANGED <<world, outside, tasks, stage, verified, read, asked, counts>>

\* The tool reports an error, the child does not have the tool, or the transport
\* to a dead child fails.
CallFails ==
  /\ stage = "loop" /\ call # NoCall
  /\ Emit(<<Error(call.id, "tool_error")>>)
  /\ call' = NoCall
  /\ UNCHANGED <<world, outside, tasks, stage, verified, read, asked, counts>>

----------------------------------------------------------------------------
(* Teardown *)

\* Best-effort, at most three seconds, and nothing to report is not reported.
Report ==
  /\ stage = "report"
  /\ stage' = "kill"
  /\ reported' \in IF counts.calls = 0 /\ counts.blocks = 0
                   THEN {reported} ELSE {reported, counts}
  /\ UNCHANGED <<world, child, pidfile, talk, tasks>>

KillChild ==
  /\ stage = "kill"
  /\ stage' = "unlink"
  /\ child' = "closed"
  /\ UNCHANGED <<world, pidfile, reported, talk, tasks>>

\* The pidfile goes, the writer is aborted, and open returns: the socket drops.
RemovePidfile ==
  /\ stage = "unlink"
  /\ stage' = "closed"
  /\ pidfile' = FALSE
  /\ UNCHANGED <<world, child, reported, talk, tasks>>

----------------------------------------------------------------------------
(* The other tasks *)

Alive == stage \notin {"failed", "closed", "killed"}

\* Mutant: notify_waiters, which stores no permit for a loop that is not waiting.
PermitIfWaiting == permit \/ Polling

\* notify_one stores a permit, whether or not the loop is waiting.
Permit == TRUE

\* The TTL task wakes: Expired is emitted, then 150 ms to flush, ...
TimerRings ==
  /\ Alive
  /\ timer.state = "armed" /\ clock >= timer.at
  /\ timer' = [timer EXCEPT !.state = "flushing"]
  /\ Emit(<<Error(NoId, "expired")>>)
  /\ UNCHANGED <<world, outside, stage, verified, call, read, asked, counts,
                 permit, handler, ext>>

\* ... then it notifies.
TimerNotifies ==
  /\ Alive
  /\ timer.state = "flushing"
  /\ timer' = [timer EXCEPT !.state = "rang"]
  /\ permit' = Permit
  /\ UNCHANGED <<world, outside, talk, stage, handler, ext>>

\* The signal task gets to run and installs its handlers.
InstallHandlers ==
  /\ Alive /\ ~Starting
  /\ ~embedded /\ handler = "none"
  /\ handler' = "waiting"
  /\ UNCHANGED <<world, outside, talk, stage, timer, permit, ext>>

\* SIGTERM (tnls close) or SIGINT with the handlers in place: the task wakes,
\* notifies and ends.
SignalCaught ==
  /\ Alive
  /\ handler = "waiting"
  /\ handler' = "spent"
  /\ permit' = Permit
  /\ UNCHANGED <<world, outside, talk, stage, timer, ext>>

\* Before that, the default action of the signal ends the process, and closing
\* its end of the pipe ends the child.
SignalKills ==
  /\ Alive
  /\ ~embedded /\ handler = "none"
  /\ stage' = "killed"
  /\ child' = IF child = "none" THEN "none" ELSE "closed"
  /\ UNCHANGED <<world, pidfile, reported, talk, tasks>>

\* The GUI notifies, at any time once it runs the session; its Notify keeps the
\* permit until the bridge task takes it.
EmbedderNotifies ==
  /\ Alive
  /\ embedded /\ ext = "idle"
  /\ ext' = "notified"
  /\ UNCHANGED <<world, outside, talk, stage, timer, permit, handler>>

Bridge ==
  /\ Alive /\ ~Starting
  /\ ext = "notified"
  /\ ext' = "bridged"
  /\ permit' = Permit
  /\ UNCHANGED <<world, outside, talk, stage, timer, handler>>

\* The GUI's window closes: it notifies, then shuts its runtime down, which
\* drops a task at the next await it reaches, in the middle of teardown too.
AtAwait == stage \in {"spawn", "dial", "loop", "report", "kill"}
WindowCloses ==
  /\ AtAwait
  /\ ext # "idle"
  /\ stage' = "killed"
  /\ child' = IF child = "none" THEN "none" ELSE "closed"
  /\ UNCHANGED <<world, pidfile, reported, talk, tasks>>

ChildDies ==
  /\ child = "up" /\ Alive
  /\ child' = "dead"
  /\ UNCHANGED <<world, pidfile, reported, talk, tasks, stage>>

Tick ==
  /\ clock < MaxClock
  /\ clock' = clock + 1
  /\ UNCHANGED <<embedded, exp, outside, talk, tasks, stage>>

\* The process is gone and the clock has run its course.
Over == Ended /\ clock = MaxClock /\ UNCHANGED vars

Startup   == Spawn \/ Dial \/ Publish \/ StartFails \/ Arm
Answer    == CallReturns \/ CallFails
ReadFrame ==
  \/ OnGarbage \/ OnList
  \/ \E token \in TokenKinds : OnHello(token)
  \/ \E tool \in Names : OnCall(tool)
Teardown  == Report \/ KillChild \/ RemovePidfile

Next ==
  \/ Startup \/ OnShutdown \/ OnStreamEnd \/ ReadFrame \/ Answer \/ Teardown
  \/ TimerRings \/ TimerNotifies \/ InstallHandlers \/ SignalCaught \/ SignalKills
  \/ EmbedderNotifies \/ Bridge \/ WindowCloses \/ ChildDies \/ Tick \/ Over

Spec == Init /\ [][Next]_vars

\* The runtime polls every ready task and time passes.  The loop comes round to
\* the Notify even if the stream always has a frame, since select! picks at
\* random; and a call on a closed transport fails.  Nothing is fair about the
\* handshake with the child and the dial of the relay: neither has a timeout.
RuntimeFairness ==
  /\ WF_vars(Publish \/ Arm) /\ WF_vars(Teardown) /\ WF_vars(Tick)
  /\ SF_vars(OnShutdown)
  /\ WF_vars(TimerRings) /\ WF_vars(TimerNotifies)
  /\ WF_vars(InstallHandlers) /\ WF_vars(Bridge)
  /\ WF_vars(child = "dead" /\ CallFails)

\* On top of it, a child that answers (or fails) every call it is given.
LiveSpec == Spec /\ RuntimeFairness /\ WF_vars(Answer)

\* Without that: a tool may take forever.
HangingSpec == Spec /\ RuntimeFairness
----------------------------------------------------------------------------
TypeOK ==
  /\ clock \in Nat
  /\ stage \in Stages
  /\ embedded \in BOOLEAN
  /\ child \in {"none", "up", "dead", "closed"}
  /\ exp \in Nat
  /\ pidfile \in BOOLEAN
  /\ verified \in BOOLEAN
  /\ call \in [id : Nat \ {0}, tool : Names] \cup {NoCall}
  /\ read \in 0..MaxRead
  /\ asked \subseteq 1..MaxRead
  /\ emitted \in Seq(Frames)
  /\ counts \in [calls : Nat, blocks : Nat]
  /\ reported \in [calls : Nat, blocks : Nat]
  /\ timer \in [state : {"off", "armed", "flushing", "rang"}, at : Nat]
  /\ permit \in BOOLEAN
  /\ handler \in {"none", "waiting", "spent"}
  /\ ext \in {"idle", "notified", "bridged"}

Announced == timer.state \in {"flushing", "rang"}
Replies(k) == {j \in 1..Len(emitted) : emitted[j].id = k}
Forwards(k) == \E j \in Replies(k) : \/ emitted[j].kind = "result"
                                     \/ emitted[j].code = "tool_error"

\* The three invariants of the design: the child is handed a call only after a
\* verified Hello, only for a tool in scope, and only before the expiry, which
\* the timer announces on its own clock and never early: once Expired is
\* announced, no call goes through and no Hello succeeds.
CallsAuthorised ==
  [][/\ call' \notin {call, NoCall} =>
          verified /\ call'.tool \in Scope /\ NowSecs < exp /\ ~Announced
     /\ verified' # verified => ~Announced]_vars

\* Each Call frame gets exactly one reply with its id, the forwarded one when
\* the child is done with it, whatever expires or dies meanwhile.
CallsAnsweredOnce ==
  \A k \in asked :
    Cardinality(Replies(k)) = IF call.id = k THEN 0 ELSE 1

\* The usage report agrees with what the viewer was told: as many calls as
\* results and tool errors (one may be awaited), as many blocks as refusals.
CountsAgree ==
  /\ counts.calls = Cardinality({k \in asked : call.id = k \/ Forwards(k)})
  /\ counts.blocks = Cardinality({j \in 1..Len(emitted) :
                                    emitted[j].code = "out_of_scope"})
  /\ stage = "closed" => reported \in {counts, [calls |-> 0, blocks |-> 0]}

\* filter_tools and decide_call agree: no tool that was listed to the viewer is
\* ever refused as out of scope, and nothing is listed, run or refused by scope
\* before a Ready.
ListedNeverRefused ==
  \A j \in 1..Len(emitted) :
    /\ emitted[j].kind \in {"tools", "result"} \/ emitted[j].code = "out_of_scope"
         => \E i \in 1 .. j - 1 : emitted[i].kind = "ready"
    /\ emitted[j].code = "out_of_scope"
         => \A i \in 1 .. j - 1 :
              emitted[i].kind = "tools" => emitted[j].tools \cap emitted[i].tools = {}

\* Whichever break ended the loop, open returns from its teardown only with the
\* child ended, the pidfile gone and no call awaited.  (A start that fails returns
\* early, and may leave a pidfile.)
CleanClose ==
  stage = "closed" => child = "closed" /\ ~pidfile /\ call = NoCall

\* Revocation takes effect: once the TTL has run out, a signal was caught or
\* the embedder has notified, the session ends, unless it still waits for the
\* child or the relay to start.
Revoked == permit \/ Announced \/ ext # "idle"
RevocationEnds == Revoked /\ stage \notin {"spawn", "dial"} ~> Ended

\* Every way to end a session removes the pidfile before the process ends: the
\* signal and the window close that the GUI grants "a bounded window" as well.
NoStalePidfile == stage \in {"closed", "killed"} => ~pidfile
=============================================================================
