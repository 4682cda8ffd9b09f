--------------------------- MODULE SessionProofs ---------------------------
(***************************************************************************)
(* Proofs about Session, for any tools, scope and TTL, any resolution of   *)
(* the clock and any conversation: first TypeOK, CallsAuthorised and       *)
(* CleanClose, then what the viewer is told, frame by frame.               *)
(*                                                                         *)
(* CallsAuthorised compares two clocks: the session truncates the one to   *)
(* seconds at every call, the timer sleeps a number of seconds counted     *)
(* once, from a moment within a second.  TimerLate is what they agree on:  *)
(* the tick the timer waits for is not before the expiry.                  *)
(***************************************************************************)
EXTENDS Session, FiniteSetTheorems, TLAPS

\* Until open reaches its loop no task has been spawned; from then on the timer
\* waits for a tick that is not before the expiry, and once it has rung that
\* tick is past.
TimerLate ==
  /\ timer.state # "off" => timer.at >= exp * TicksPerSec
  /\ Announced => clock >= timer.at
  /\ Starting => timer.state = "off"

\* No call is awaited outside the loop, and teardown has done what it says.
InOrder ==
  /\ stage # "loop" /\ stage # "killed" => call = NoCall
  /\ stage \in {"unlink", "closed"} => child = "closed"
  /\ stage = "closed" => ~pidfile

\* TypeOK in two halves, of which the first is for a prover that knows Booleans
\* and the second for one that knows arithmetic.
TypeFlags ==
  embedded \in BOOLEAN /\ pidfile \in BOOLEAN /\ verified \in BOOLEAN /\ permit \in BOOLEAN
TypeData ==
  /\ clock \in Nat
  /\ stage \in Stages
  /\ child \in {"none", "up", "dead", "closed"}
  /\ exp \in Nat
  /\ call \in [id : Nat \ {0}, tool : Names] \cup {NoCall}
  /\ read \in 0..MaxRead
  /\ asked \subseteq 1..MaxRead
  /\ emitted \in Seq(Frames)
  /\ counts \in [calls : Nat, blocks : Nat]
  /\ reported \in [calls : Nat, blocks : Nat]
  /\ timer \in [state : {"off", "armed", "flushing", "rang"}, at : Nat]
  /\ handler \in {"none", "waiting", "spent"}
  /\ ext \in {"idle", "notified", "bridged"}

----------------------------------------------------------------------------
(***************************************************************************)
(* Time.                                                                   *)
(***************************************************************************)

\* The seconds of a tick count, by their product.
LEMMA Truncation ==
  ASSUME NEW c \in Nat
  PROVE  /\ c \div TicksPerSec \in Nat
         /\ (c \div TicksPerSec) * TicksPerSec <= c
         /\ c < (c \div TicksPerSec) * TicksPerSec + TicksPerSec
  BY SessionAssumption

\* A tick at or past a whole second is truncated to that second or a later one.
LEMMA NotBefore ==
  ASSUME NEW c \in Nat, NEW e \in Nat, c >= e * TicksPerSec
  PROVE  c \div TicksPerSec >= e
  BY SessionAssumption, Truncation

\* A sleep of the seconds left ends no earlier than the expiry.
LEMMA SleepLate ==
  ASSUME NEW c \in Nat, NEW e \in Nat, NEW q \in Nat, q * TicksPerSec <= c, e > q
  PROVE  c + (e - q) * TicksPerSec >= e * TicksPerSec
  BY SessionAssumption

LEMMA NowType == TypeData => NowSecs \in Nat
  BY Truncation DEF TypeData, NowSecs

\* The timer is armed for a tick no earlier than the expiry.
LEMMA SleepType ==
  ASSUME TypeData
  PROVE  Sleep \in [state : {"armed"}, at : Nat] /\ Sleep.at >= exp * TicksPerSec
  <1>1. /\ NowSecs \in Nat /\ clock \in Nat /\ exp \in Nat /\ TicksPerSec \in Nat
        /\ NowSecs * TicksPerSec <= clock
    BY NowType, Truncation, SessionAssumption DEF TypeData, NowSecs
  <1>2. CASE exp > NowSecs
    <2>1. Sleep = [state |-> "armed", at |-> clock + (exp - NowSecs) * TicksPerSec]
      BY <1>2 DEF Sleep
    <2>2. (exp - NowSecs) * TicksPerSec \in Nat
      BY <1>1, <1>2
    <2> QED
      BY <1>1, <1>2, <2>1, <2>2, SleepLate
  <1>3. CASE ~(exp > NowSecs)
    <2>1. Sleep = [state |-> "armed", at |-> clock]
      <3>1. 0 * TicksPerSec = 0 /\ clock + 0 = clock
        BY <1>1
      <3> QED
        BY <1>3, <3>1 DEF Sleep
    <2>2. exp * TicksPerSec <= NowSecs * TicksPerSec
      BY <1>1, <1>3
    <2>3. exp * TicksPerSec \in Nat /\ NowSecs * TicksPerSec \in Nat
      BY <1>1
    <2> QED
      BY <1>1, <2>1, <2>2, <2>3
  <1> QED
    BY <1>2, <1>3

\* Once Expired has been announced, the expiry has passed on the session's clock.
LEMMA AnnouncedLate ==
  ASSUME TypeData, TimerLate, Announced
  PROVE  NowSecs >= exp
  <1>1. clock >= timer.at /\ timer.at >= exp * TicksPerSec
    BY DEF TimerLate, Announced
  <1>2. exp * TicksPerSec \in Nat /\ timer.at \in Nat /\ clock \in Nat /\ exp \in Nat
    BY SessionAssumption DEF TypeData
  <1> QED
    BY <1>1, <1>2, NotBefore DEF NowSecs

----------------------------------------------------------------------------
(***************************************************************************)
(* Types.                                                                  *)
(***************************************************************************)

\* Every frame a session makes is one.
LEMMA FrameType ==
  ASSUME NEW k \in Nat
  PROVE  /\ Ready \in Frames /\ Result(k) \in Frames
         /\ Tools(FilterTools(ChildTools, Scope)) \in Frames
         /\ \A e \in {"expired", "unauthorized", "bad_request", "tool_error"} :
              Error(k, e) \in Frames
         /\ \A t \in Names : Refusal(k, t) \in Frames
  BY DEF Ready, Result, Tools, Error, Refusal, Frames, FilterTools, NoId

LEMMA EmitType ==
  ASSUME TypeData, NEW fs \in Seq(Frames), Emit(fs)
  PROVE  emitted' \in Seq(Frames)
  BY DEF TypeData, Emit

LEMMA EmitOne ==
  ASSUME TypeData, NEW f \in Frames, Emit(<<f>>)
  PROVE  emitted' \in Seq(Frames)
  <1>1. <<f>> \in Seq(Frames)
    OBVIOUS
  <1> QED
    BY <1>1, EmitType

LEMMA FlagsInit == Init => TypeFlags
  BY Zenon, SessionAssumption DEF Init, TypeFlags

LEMMA FlagsStep == TypeFlags /\ [Next]_vars => TypeFlags'
  <1> SUFFICES ASSUME TypeFlags, [Next]_vars PROVE TypeFlags'
    OBVIOUS
  <1> USE DEF TypeFlags, world, outside, tasks, talk
  <1>1. CASE Startup
    BY <1>1, Zenon DEF Startup, Spawn, Dial, Publish, StartFails, Arm
  <1>2. CASE OnShutdown \/ OnStreamEnd \/ Answer \/ Teardown
    BY <1>2, Zenon DEF OnShutdown, OnStreamEnd, Answer, CallReturns, CallFails, Teardown,
                       Report, KillChild, RemovePidfile
  <1>3. CASE OnGarbage \/ OnList
    BY <1>3, Zenon DEF OnGarbage, OnList
  <1>4. ASSUME NEW token \in TokenKinds, OnHello(token) PROVE TypeFlags'
    BY <1>4, Zenon DEF OnHello
  <1>5. ASSUME NEW tool \in Names, OnCall(tool) PROVE TypeFlags'
    BY <1>5, Zenon DEF OnCall
  <1>6. CASE TimerRings \/ TimerNotifies \/ InstallHandlers \/ SignalCaught \/ SignalKills
    BY <1>6, Zenon DEF TimerRings, TimerNotifies, InstallHandlers, SignalCaught, SignalKills, Permit
  <1>7. CASE EmbedderNotifies \/ Bridge \/ WindowCloses \/ ChildDies \/ Tick
    BY <1>7, Zenon DEF EmbedderNotifies, Bridge, WindowCloses, ChildDies, Tick, Permit
  <1>8. CASE UNCHANGED vars
    BY <1>8, Zenon DEF vars
  <1> QED
    BY <1>1, <1>2, <1>3, <1>4, <1>5, <1>6, <1>7, <1>8, Zenon DEF Next, ReadFrame, Over

LEMMA DataInit == Init => TypeData
  BY SessionAssumption DEF Init, TypeData, Stages

LEMMA DataStartup == TypeData /\ Startup => TypeData'
  <1> SUFFICES ASSUME TypeData, Startup PROVE TypeData'
    OBVIOUS
  <1> USE DEF TypeData, world, outside, talk, tasks, Stages
  <1>1. CASE Spawn
    <2>1. NowSecs + Ttl \in Nat
      BY NowType, SessionAssumption
    <2> QED
      BY <1>1, <2>1 DEF Spawn
  <1>2. CASE Dial \/ Publish \/ StartFails
    BY <1>2 DEF Dial, Publish, StartFails
  <1>3. CASE Arm
    <2>1. Sleep \in [state : {"armed"}, at : Nat]
      BY SleepType
    <2> QED
      BY <1>3, <2>1 DEF Arm
  <1> QED
    BY <1>1, <1>2, <1>3 DEF Startup

LEMMA DataReading == TypeData /\ ReadFrame => TypeData'
  <1> SUFFICES ASSUME TypeData, ReadFrame PROVE TypeData'
    OBVIOUS
  <1> USE DEF world, outside, tasks
  <1>1. ASSUME Reading PROVE read' \in 0..MaxRead /\ read + 1 \in 1..MaxRead
    BY <1>1, SessionAssumption DEF Reading, TypeData
  <1>2. CASE OnGarbage
    <2>1. Error(NoId, "bad_request") \in Frames
      BY FrameType DEF NoId
    <2>2. emitted' \in Seq(Frames)
      BY <1>2, <2>1, EmitOne DEF OnGarbage
    <2> QED
      BY <1>1, <1>2, <2>2 DEF OnGarbage, TypeData
  <1>3. CASE OnList
    <2>1. /\ Tools(FilterTools(ChildTools, Scope)) \in Frames
          /\ Error(NoId, "unauthorized") \in Frames
      BY FrameType DEF NoId
    <2>2. emitted' \in Seq(Frames)
      BY <1>3, <2>1, EmitOne DEF OnList
    <2> QED
      BY <1>1, <1>3, <2>2 DEF OnList, TypeData
  <1>4. ASSUME NEW token \in TokenKinds, OnHello(token) PROVE TypeData'
    <2>1. /\ <<Ready, Tools(FilterTools(ChildTools, Scope))>> \in Seq(Frames)
          /\ <<Error(NoId, "expired")>> \in Seq(Frames)
          /\ <<Error(NoId, "unauthorized")>> \in Seq(Frames)
      BY FrameType DEF NoId
    <2>2. emitted' \in Seq(Frames) /\ stage' \in Stages
      BY <1>4, <2>1, EmitType DEF OnHello, TypeData, Stages
    <2> QED
      BY <1>1, <1>4, <2>2 DEF OnHello, TypeData
  <1>5. ASSUME NEW tool \in Names, OnCall(tool) PROVE TypeData'
    <2> DEFINE k == read + 1
               decision == DecideCall(Claims, NowSecs, tool)
    <2>1. k \in 1..MaxRead /\ read' \in 0..MaxRead /\ k \in Nat
      BY <1>1, <1>5, SessionAssumption DEF OnCall
    <2>2. decision \in {"expired", "out_of_scope", "forward"}
      BY DEF DecideCall
    <2>3. /\ <<Refusal(k, tool)>> \in Seq(Frames)
          /\ <<Error(k, "expired")>> \in Seq(Frames)
          /\ <<Error(k, "unauthorized")>> \in Seq(Frames)
      BY <2>1, FrameType
    <2>4. counts' \in [calls : Nat, blocks : Nat]
      <3>1. Counted(decision) \in [calls : Nat, blocks : Nat]
        BY <2>2 DEF Counted, TypeData
      <3> QED
        BY <1>5, <3>1 DEF OnCall, TypeData
    <2>5. [id |-> k, tool |-> tool] \in [id : Nat \ {0}, tool : Names]
      BY <2>1
    <2> HIDE DEF decision
    <2>6. /\ call' \in [id : Nat \ {0}, tool : Names] \cup {NoCall}
          /\ emitted' = emitted \/ Emit(<<Refusal(k, tool)>>)
               \/ Emit(<<Error(k, "expired")>>) \/ Emit(<<Error(k, "unauthorized")>>)
      BY <1>5, <2>2, <2>5 DEF OnCall, TypeData, decision
    <2>7. emitted' \in Seq(Frames)
      BY <2>3, <2>6, EmitType DEF TypeData
    <2>8. asked' \subseteq 1..MaxRead
      BY <1>5, <2>1 DEF OnCall, TypeData
    <2> QED
      BY <1>5, <2>1, <2>4, <2>6, <2>7, <2>8 DEF OnCall, TypeData
  <1> QED
    BY <1>2, <1>3, <1>4, <1>5 DEF ReadFrame

LEMMA DataRest ==
  TypeData /\ [Next]_vars /\ ~Startup /\ ~ReadFrame => TypeData'
  <1> SUFFICES ASSUME TypeData, [Next]_vars, ~Startup, ~ReadFrame PROVE TypeData'
    OBVIOUS
  <1> USE DEF world, outside, tasks, talk
  <1>1. CASE Answer
    <2>1. call.id \in Nat
      BY DEF TypeData, NoCall
    <2>2. Result(call.id) \in Frames /\ Error(call.id, "tool_error") \in Frames
      BY <2>1, FrameType
    <2>3. emitted' \in Seq(Frames)
      BY <1>1, <2>2, EmitOne DEF Answer, CallReturns, CallFails
    <2> QED
      BY <1>1, <2>3 DEF Answer, CallReturns, CallFails, TypeData
  <1>2. CASE OnShutdown \/ OnStreamEnd \/ Teardown
    BY <1>2, ZenonT(40) DEF OnShutdown, OnStreamEnd, Teardown, Report, KillChild, RemovePidfile,
                TypeData, Stages
  <1>3. CASE TimerRings
    <2>1. Error(NoId, "expired") \in Frames
      BY FrameType DEF NoId
    <2>2. emitted' \in Seq(Frames)
      BY <1>3, <2>1, EmitOne DEF TimerRings
    <2> QED
      BY <1>3, <2>2 DEF TimerRings, TypeData
  <1>4. CASE TimerNotifies \/ InstallHandlers \/ SignalCaught \/ EmbedderNotifies \/ Bridge
    BY <1>4 DEF TimerNotifies, InstallHandlers, SignalCaught, EmbedderNotifies, Bridge, TypeData
  <1>5. CASE SignalKills \/ WindowCloses \/ ChildDies
    BY <1>5, ZenonT(40) DEF SignalKills, WindowCloses, ChildDies, TypeData, Stages
  <1>6. CASE Tick
    BY <1>6 DEF Tick, TypeData
  <1>7. CASE UNCHANGED vars
    BY <1>7 DEF vars, TypeData
  <1> QED
    BY <1>1, <1>2, <1>3, <1>4, <1>5, <1>6, <1>7 DEF Next, Over

LEMMA TypeSplit == TypeOK <=> TypeFlags /\ TypeData
  BY DEF TypeOK, TypeFlags, TypeData

LEMMA TypeStep == TypeFlags /\ TypeData /\ [Next]_vars => (TypeFlags /\ TypeData)'
  BY FlagsStep, DataStartup, DataReading, DataRest

\* Every state a session reaches is well typed.
THEOREM TypeCorrect == Spec => []TypeOK
  BY TypeSplit, FlagsInit, DataInit, TypeStep, PTL DEF Spec

----------------------------------------------------------------------------
(***************************************************************************)
(* The timer and the expiry.                                               *)
(***************************************************************************)

LEMMA TimerInit == Init => TimerLate
  BY DEF Init, TimerLate, Announced

\* Steps that leave the timer alone and start nothing.
LEMMA TimerIdle ==
  ASSUME TypeData, TimerLate, timer' = timer, exp' = exp,
         clock' \in Nat, clock' >= clock, Starting' => Starting
  PROVE  TimerLate'
  <1>1. timer.at \in Nat /\ clock \in Nat
    BY DEF TypeData
  <1> QED
    BY <1>1 DEF TimerLate, Announced

LEMMA TimerStep == TypeData /\ TimerLate /\ [Next]_vars => TimerLate'
  <1> SUFFICES ASSUME TypeData, TimerLate, [Next]_vars PROVE TimerLate'
    OBVIOUS
  <1>0. clock \in Nat /\ clock >= clock
    BY DEF TypeData
  <1> USE DEF world, outside, tasks, talk
  <1>1. CASE Spawn
    BY <1>1 DEF Spawn, TimerLate, Announced, Starting
  <1>2. CASE Dial \/ Publish \/ StartFails
    BY <1>0, <1>2, TimerIdle DEF Dial, Publish, StartFails, Starting
  <1>3. CASE Arm
    <2>1. timer' = Sleep /\ exp' = exp /\ ~Starting'
      BY <1>3 DEF Arm, Starting
    <2> QED
      BY <2>1, SleepType DEF TimerLate, Announced
  <1>4. CASE OnShutdown \/ OnStreamEnd \/ Answer \/ Teardown
    BY <1>0, <1>4, TimerIdle DEF OnShutdown, OnStreamEnd, Answer, CallReturns, CallFails,
                                 Teardown, Report, KillChild, RemovePidfile, Starting
  <1>5. CASE OnGarbage \/ OnList
    BY <1>0, <1>5, TimerIdle DEF OnGarbage, OnList, Starting
  <1>6. ASSUME NEW token \in TokenKinds, OnHello(token) PROVE TimerLate'
    BY <1>0, <1>6, TimerIdle DEF OnHello, Starting
  <1>7. ASSUME NEW tool \in Names, OnCall(tool) PROVE TimerLate'
    BY <1>0, <1>7, TimerIdle DEF OnCall, Starting
  <1>8. CASE TimerRings
    BY <1>8 DEF TimerRings, TimerLate, Announced, Starting, TypeData
  <1>9. CASE TimerNotifies
    BY <1>9 DEF TimerNotifies, TimerLate, Announced, Starting, TypeData
  <1>10. CASE InstallHandlers \/ SignalCaught \/ EmbedderNotifies \/ Bridge
    BY <1>0, <1>10, TimerIdle
       DEF InstallHandlers, SignalCaught, EmbedderNotifies, Bridge, Starting
  <1>11. CASE SignalKills \/ WindowCloses \/ ChildDies
    BY <1>0, <1>11, TimerIdle DEF SignalKills, WindowCloses, ChildDies, Starting
  <1>12. CASE Tick
    <2>1. clock' \in Nat /\ clock' >= clock
      BY <1>12 DEF Tick, TypeData
    <2> QED
      BY <1>12, <2>1, TimerIdle DEF Tick, Starting
  <1>13. CASE UNCHANGED vars
    BY <1>0, <1>13, TimerIdle DEF vars, Starting
  <1> QED
    BY <1>1, <1>2, <1>3, <1>4, <1>5, <1>6, <1>7, <1>8, <1>9, <1>10, <1>11, <1>12, <1>13
       DEF Next, Startup, ReadFrame, Over

\* A step that hands the child a call, or verifies a Hello, does so before the
\* expiry, hence before the announcement.
LEMMA StepAuthorised ==
  ASSUME TypeData, TimerLate, [Next]_vars
  PROVE  /\ call' \notin {call, NoCall} =>
               verified /\ call'.tool \in Scope /\ NowSecs < exp /\ ~Announced
         /\ verified' # verified => ~Announced
  <1>1. NowSecs \in Nat /\ exp \in Nat
    BY NowType DEF TypeData
  <1>2. NowSecs < exp => ~Announced
    BY <1>1, AnnouncedLate
  <1> USE DEF world, outside, tasks, talk
  <1>3. ASSUME NEW token \in TokenKinds, OnHello(token)
        PROVE  call' = call /\ (verified' # verified => ~Announced)
    <2>1. call' = call
      BY <1>3 DEF OnHello
    <2>2. CASE verified' = verified
      BY <2>1, <2>2
    <2>3. CASE verified' # verified
      <3>1. Verify(token, Claims, NowSecs) = "ok"
        BY <1>3, <2>3 DEF OnHello
      <3>2. NowSecs < exp
        BY <1>1, <3>1 DEF Verify, Claims, TokenKinds
      <3> QED
        BY <1>2, <2>1, <3>2
    <2> QED
      BY <2>2, <2>3
  <1>4. ASSUME NEW tool \in Names, OnCall(tool), call' \notin {call, NoCall}
        PROVE  verified /\ call'.tool \in Scope /\ NowSecs < exp /\ ~Announced
    <2>1. verified /\ DecideCall(Claims, NowSecs, tool) = "forward"
          /\ call' = [id |-> read + 1, tool |-> tool]
      BY <1>4 DEF OnCall, DecideCall
    <2>2. NowSecs < exp /\ tool \in Scope
      BY <1>1, <2>1 DEF DecideCall, Allows, Claims
    <2> QED
      BY <1>2, <2>1, <2>2
  <1>5. ASSUME NEW tool \in Names, OnCall(tool) PROVE verified' = verified
    BY <1>5 DEF OnCall
  <1>6. CASE Answer
    BY <1>6 DEF Answer, CallReturns, CallFails
  <1>7. ASSUME ~Answer, ~(\E token \in TokenKinds : OnHello(token)),
               ~(\E tool \in Names : OnCall(tool))
        PROVE  call' = call /\ verified' = verified
    BY <1>7 DEF Next, Startup, Spawn, Dial, Publish, StartFails, Arm, OnShutdown, OnStreamEnd,
                ReadFrame, OnGarbage, OnList, Teardown, Report, KillChild, RemovePidfile,
                TimerRings, TimerNotifies, InstallHandlers, SignalCaught, SignalKills,
                EmbedderNotifies, Bridge, WindowCloses, ChildDies, Tick, Over, vars
  <1> QED
    BY <1>3, <1>4, <1>5, <1>6, <1>7

\* The child is handed a call only with a verified Hello, for a tool in scope and
\* before the expiry; and the timer, on a clock of its own, never announces the
\* expiry while a call or a Hello may still succeed.
THEOREM CallsAreAuthorised == Spec => CallsAuthorised
  <1>1. TypeData /\ TimerLate /\ [Next]_vars
          => [/\ call' \notin {call, NoCall} =>
                   verified /\ call'.tool \in Scope /\ NowSecs < exp /\ ~Announced
              /\ verified' # verified => ~Announced]_vars
    BY StepAuthorised
  <1> QED
    BY <1>1, TypeCorrect, TypeSplit, TimerInit, TimerStep, PTL DEF Spec, CallsAuthorised

----------------------------------------------------------------------------
(***************************************************************************)
(* The end of a session.                                                   *)
(***************************************************************************)

LEMMA OrderInit == Init => InOrder
  BY DEF Init, InOrder

LEMMA OrderStep == InOrder /\ [Next]_vars => InOrder'
  <1> SUFFICES ASSUME InOrder, [Next]_vars PROVE InOrder'
    OBVIOUS
  <1> USE DEF InOrder, world, outside, tasks, talk
  <1>1. CASE Startup
    BY <1>1 DEF Startup, Spawn, Dial, Publish, StartFails, Arm
  <1>2. CASE OnShutdown \/ OnStreamEnd \/ Answer
    BY <1>2 DEF OnShutdown, OnStreamEnd, Polling, Answer, CallReturns, CallFails
  <1>3. CASE Teardown
    BY <1>3 DEF Teardown, Report, KillChild, RemovePidfile
  <1>4. CASE OnGarbage \/ OnList
    BY <1>4 DEF OnGarbage, OnList
  <1>5. ASSUME NEW token \in TokenKinds, OnHello(token) PROVE InOrder'
    BY <1>5 DEF OnHello, Reading, Polling
  <1>6. ASSUME NEW tool \in Names, OnCall(tool) PROVE InOrder'
    BY <1>6 DEF OnCall, Reading, Polling
  <1>7. CASE TimerRings \/ TimerNotifies \/ InstallHandlers \/ SignalCaught \/ SignalKills
    BY <1>7 DEF TimerRings, TimerNotifies, InstallHandlers, SignalCaught, SignalKills
  <1>8. CASE EmbedderNotifies \/ Bridge \/ WindowCloses \/ ChildDies \/ Tick
    BY <1>8 DEF EmbedderNotifies, Bridge, WindowCloses, ChildDies, Tick
  <1>9. CASE UNCHANGED vars
    BY <1>9 DEF vars
  <1> QED
    BY <1>1, <1>2, <1>3, <1>4, <1>5, <1>6, <1>7, <1>8, <1>9 DEF Next, ReadFrame, Over

\* Whichever break ended the loop, open returns from its teardown with the child
\* ended, the pidfile gone and no call awaited.  The TTL task and the bridge may
\* outlive it, and its report may have failed.
THEOREM ClosesClean == Spec => []CleanClose
  <1>1. InOrder => CleanClose
    BY DEF InOrder, CleanClose
  <1> QED
    BY <1>1, OrderInit, OrderStep, PTL DEF Spec

----------------------------------------------------------------------------
(***************************************************************************)
(* CallsAnsweredOnce, CountsAgree and ListedNeverRefused of Session: what  *)
(* the viewer is told, frame by frame, for any conversation.               *)
(*                                                                         *)
(* A Call has the number of the frame it came in, so that no earlier reply *)
(* can have its id: that makes its reply the only one.                     *)
(***************************************************************************)

Sent == 1..Len(emitted)

\* Ids are those of calls read; each call but the one awaited has its reply,
\* and no id but NoId occurs twice.
Answered ==
  /\ asked \subseteq 1..read
  /\ call.id \in asked \cup {NoId}
  /\ \A j \in Sent : emitted[j].id \in (asked \cup {NoId}) \ ({call.id} \ {NoId})
  /\ \A k \in asked \ {call.id} : \E j \in Sent : emitted[j].id = k
  /\ \A i, j \in Sent : emitted[i].id = emitted[j].id /\ emitted[i].id # NoId => i = j

----------------------------------------------------------------------------
\* A sequence joined to another: where the parts are found in the whole.
LEMMA Joined ==
  ASSUME NEW S, NEW s \in Seq(S), NEW t \in Seq(S)
  PROVE  /\ Len(s) \in Nat /\ Len(t) \in Nat
         /\ Len(s \o t) = Len(s) + Len(t)
         /\ \A j \in 1..Len(s) : (s \o t)[j] = s[j]
         /\ \A j \in 1..Len(t) : (s \o t)[Len(s) + j] = t[j]
  OBVIOUS

\* What Emit does to the sequence.
LEMMA Appended ==
  ASSUME TypeData, NEW fs \in Seq(Frames), Emit(fs)
  PROVE  /\ Len(emitted) \in Nat /\ Len(fs) \in Nat
         /\ Len(emitted') = Len(emitted) + Len(fs)
         /\ \A j \in Sent : emitted'[j] = emitted[j]
         /\ \A j \in 1..Len(fs) : emitted'[Len(emitted) + j] = fs[j]
  <1>1. emitted \in Seq(Frames) /\ emitted' = emitted \o fs
    BY DEF TypeData, Emit
  <1> QED
    BY <1>1, Joined DEF Sent

LEMMA AppendedOne ==
  ASSUME TypeData, NEW f \in Frames, Emit(<<f>>)
  PROVE  /\ Len(emitted) + 1 \in Sent' /\ Len(emitted) + 1 \notin Sent
         /\ Sent' = Sent \cup {Len(emitted) + 1}
         /\ \A j \in Sent : emitted'[j] = emitted[j]
         /\ emitted'[Len(emitted) + 1] = f
  <1>1. PICK fs : fs = <<f>>
    OBVIOUS
  <1>2. fs \in Seq(Frames) /\ Len(fs) = 1 /\ fs[1] = f /\ Emit(fs)
    BY <1>1
  <1>3. /\ Len(emitted) \in Nat
        /\ Len(emitted') = Len(emitted) + 1
        /\ \A j \in Sent : emitted'[j] = emitted[j]
        /\ emitted'[Len(emitted) + 1] = f
    BY <1>2, Appended
  <1> QED
    BY <1>3 DEF Sent

LEMMA AnsweredInit == Init => Answered
  BY DEF Init, Answered, Sent, NoCall, NoId

\* Frames that answer no call, or none at all.
LEMMA AnsweredOther ==
  ASSUME TypeData, Answered, asked' = asked, call' = call, read' \in {read, read + 1},
         emitted' = emitted \/
           \E fs \in Seq(Frames) : Emit(fs) /\ \A j \in 1..Len(fs) : fs[j].id = NoId
  PROVE  Answered'
  <1>1. CASE emitted' = emitted
    BY <1>1 DEF Answered, Sent, TypeData
  <1>2. ASSUME NEW fs \in Seq(Frames), Emit(fs), \A j \in 1..Len(fs) : fs[j].id = NoId
        PROVE  Answered'
    <2>1. /\ Len(emitted) \in Nat /\ Len(emitted') \in Nat /\ Sent \subseteq Sent'
          /\ \A j \in Sent : emitted'[j] = emitted[j]
          /\ \A j \in Sent' \ Sent : emitted'[j].id = NoId
      <3>1. /\ Len(emitted) \in Nat /\ Len(fs) \in Nat
            /\ Len(emitted') = Len(emitted) + Len(fs)
            /\ \A j \in Sent : emitted'[j] = emitted[j]
            /\ \A j \in 1..Len(fs) : emitted'[Len(emitted) + j] = fs[j]
        BY <1>2, Appended
      <3>2. ASSUME NEW j \in Sent' \ Sent PROVE emitted'[j].id = NoId
        <4>1. PICK i \in 1..Len(fs) : j = Len(emitted) + i
          <5>1. j - Len(emitted) \in 1..Len(fs) /\ j = Len(emitted) + (j - Len(emitted))
            BY <3>1, <3>2 DEF Sent
          <5> QED
            BY <5>1
        <4> QED
          BY <1>2, <3>1, <4>1
      <3> QED
        BY <3>1, <3>2 DEF Sent
    <2>2. asked' \subseteq 1..read'
      BY DEF Answered, TypeData
    <2>3. \A j \in Sent' : emitted'[j].id \in (asked \cup {NoId}) \ ({call.id} \ {NoId})
      BY <2>1 DEF Answered
    <2>4. \A k \in asked \ {call.id} : \E j \in Sent' : emitted'[j].id = k
      BY <2>1 DEF Answered
    <2>5. \A i, j \in Sent' : emitted'[i].id = emitted'[j].id /\ emitted'[i].id # NoId => i = j
      BY <2>1 DEF Answered
    <2> QED
      BY <2>2, <2>3, <2>4, <2>5 DEF Answered
  <1> QED
    BY <1>1, <1>2

\* One reply, to a call that had none: a new one or the one awaited.
LEMMA AnsweredReply ==
  ASSUME TypeData, Answered, NEW f \in Frames, Emit(<<f>>), f.id # NoId, call'.id = NoId,
         \/ f.id = call.id /\ asked' = asked /\ read' = read
         \/ f.id = read + 1 /\ call.id = NoId /\ asked' = asked \cup {f.id} /\ read' = read + 1
  PROVE  Answered'
  <1>1. /\ Len(emitted) + 1 \in Sent' /\ Len(emitted) + 1 \notin Sent
        /\ Sent' = Sent \cup {Len(emitted) + 1}
        /\ \A j \in Sent : emitted'[j] = emitted[j]
        /\ emitted'[Len(emitted) + 1] = f
    BY AppendedOne
  <1>2. \A j \in Sent : emitted[j].id # f.id
    <2>1. read \in Nat /\ asked \subseteq 1..read
      BY SessionAssumption DEF TypeData, Answered
    <2>2. CASE f.id = call.id
      BY <2>2 DEF Answered
    <2>3. CASE f.id = read + 1
      BY <2>1, <2>3 DEF Answered, NoId
    <2> QED
      BY <2>2, <2>3
  <1>3. asked' \subseteq 1..read' /\ f.id \in asked'
    <2>1. read \in Nat /\ asked \subseteq 1..read
      BY SessionAssumption DEF TypeData, Answered
    <2>2. f.id \in asked'
      BY DEF Answered
    <2>3. CASE asked' = asked /\ read' = read
      BY <2>1, <2>2, <2>3
    <2>4. CASE f.id = read + 1 /\ asked' = asked \cup {f.id} /\ read' = read + 1
      BY <2>1, <2>2, <2>4
    <2> QED
      BY <2>2, <2>3, <2>4
  <1>4. \A j \in Sent' : emitted'[j].id \in asked' \cup {NoId}
    BY <1>1, <1>3 DEF Answered
  <1>5. \A k \in asked' : \E j \in Sent' : emitted'[j].id = k
    <2>1. \A k \in asked' : k = f.id \/ k \in asked \ {call.id}
      <3>1. asked \subseteq 1..read /\ read \in Nat
        BY SessionAssumption DEF Answered, TypeData
      <3>2. NoId \notin asked
        BY <3>1 DEF NoId
      <3> QED
        BY <3>2
    <2> QED
      BY <1>1, <2>1, ZenonT(40) DEF Answered
  <1>6. \A i, j \in Sent' : emitted'[i].id = emitted'[j].id /\ emitted'[i].id # NoId => i = j
    BY <1>1, <1>2 DEF Answered
  <1> QED
    BY <1>3, <1>4, <1>5, <1>6 DEF Answered

\* A call that is handed to the child is one more to be answered.
LEMMA AnsweredLater ==
  ASSUME TypeData, Answered, call.id = NoId, call'.id = read + 1,
         asked' = asked \cup {read + 1}, read' = read + 1, emitted' = emitted
  PROVE  Answered'
  <1>1. read \in Nat /\ asked \subseteq 1..read
    BY SessionAssumption DEF TypeData, Answered
  <1>2. asked' \subseteq 1..read' /\ call'.id \in asked'
    BY <1>1
  <1>3. \A j \in Sent' : emitted'[j].id \in (asked' \cup {NoId}) \ ({call'.id} \ {NoId})
    BY <1>1 DEF Answered, Sent, NoId
  <1>4. \A k \in asked' \ {call'.id} : \E j \in Sent' : emitted'[j].id = k
    BY <1>1 DEF Answered, Sent, NoId
  <1> QED
    BY <1>2, <1>3, <1>4 DEF Answered, Sent

LEMMA AnsweredStep == TypeData /\ Answered /\ [Next]_vars => Answered'
  <1> SUFFICES ASSUME TypeData, Answered, [Next]_vars PROVE Answered'
    OBVIOUS
  <1> USE DEF world, outside, tasks, talk
  <1>0. /\ \A e \in {"expired", "unauthorized", "bad_request"} :
             <<Error(NoId, e)>> \in Seq(Frames) /\ Error(NoId, e).id = NoId
        /\ <<Tools(FilterTools(ChildTools, Scope))>> \in Seq(Frames)
        /\ <<Ready, Tools(FilterTools(ChildTools, Scope))>> \in Seq(Frames)
        /\ Ready.id = NoId /\ Tools(FilterTools(ChildTools, Scope)).id = NoId
    <2>1. /\ \A e \in {"expired", "unauthorized", "bad_request"} : Error(NoId, e) \in Frames
          /\ Tools(FilterTools(ChildTools, Scope)) \in Frames /\ Ready \in Frames
      BY FrameType DEF NoId
    <2>2. /\ \A e : Error(NoId, e).id = NoId
          /\ \A ts : Tools(ts).id = NoId
          /\ Ready.id = NoId
      BY DEF Ready, Tools, Error
    <2> QED
      BY <2>1, <2>2
  <1>1. ASSUME NEW e \in {"expired", "unauthorized", "bad_request"}, Emit(<<Error(NoId, e)>>)
        PROVE  \E fs \in Seq(Frames) : Emit(fs) /\ \A j \in 1..Len(fs) : fs[j].id = NoId
    <2>1. \A j \in 1..Len(<<Error(NoId, e)>>) : <<Error(NoId, e)>>[j].id = NoId
      BY <1>0
    <2> QED
      BY <1>0, <1>1, <2>1
  <1>2. ASSUME Emit(<<Tools(FilterTools(ChildTools, Scope))>>)
        PROVE  \E fs \in Seq(Frames) : Emit(fs) /\ \A j \in 1..Len(fs) : fs[j].id = NoId
    <2>1. \A j \in 1..Len(<<Tools(FilterTools(ChildTools, Scope))>>) :
            <<Tools(FilterTools(ChildTools, Scope))>>[j].id = NoId
      BY <1>0
    <2> QED
      BY <1>0, <1>2, <2>1
  <1>3. ASSUME Emit(<<Ready, Tools(FilterTools(ChildTools, Scope))>>)
        PROVE  \E fs \in Seq(Frames) : Emit(fs) /\ \A j \in 1..Len(fs) : fs[j].id = NoId
    <2> DEFINE t == Tools(FilterTools(ChildTools, Scope))
    <2>1. \A j \in 1..Len(<<Ready, t>>) : <<Ready, t>>[j].id = NoId
      <3>1. t.id = NoId /\ Ready.id = NoId
        BY <1>0
      <3> HIDE DEF t
      <3> QED
        BY <3>1
    <2> QED
      BY <1>0, <1>3, <2>1
  <1>4. CASE OnGarbage \/ OnList
    BY <1>1, <1>2, <1>4, AnsweredOther DEF OnGarbage, OnList, Reading
  <1>5. ASSUME NEW token \in TokenKinds, OnHello(token) PROVE Answered'
    <2>1. asked' = asked /\ call' = call /\ read' = read + 1
      BY <1>5 DEF OnHello, Reading
    <2>2. \/ Emit(<<Ready, Tools(FilterTools(ChildTools, Scope))>>)
          \/ Emit(<<Error(NoId, "expired")>>) \/ Emit(<<Error(NoId, "unauthorized")>>)
      BY <1>5 DEF OnHello
    <2> QED
      BY <1>1, <1>3, <2>1, <2>2, AnsweredOther
  <1>6. ASSUME NEW tool \in Names, OnCall(tool) PROVE Answered'
    <2>1. /\ call.id = NoId /\ read' = read + 1 /\ asked' = asked \cup {read + 1}
          /\ read + 1 \in Nat /\ read + 1 # NoId
      BY <1>6, SessionAssumption DEF OnCall, Reading, Polling, NoCall, NoId, TypeData
    <2>2. \/ call' = [id |-> read + 1, tool |-> tool] /\ emitted' = emitted
          \/ call' = call /\ Emit(<<Refusal(read + 1, tool)>>)
          \/ call' = call /\ Emit(<<Error(read + 1, "expired")>>)
          \/ call' = call /\ Emit(<<Error(read + 1, "unauthorized")>>)
      BY <1>6 DEF OnCall, DecideCall
    <2>3. /\ Refusal(read + 1, tool) \in Frames /\ Refusal(read + 1, tool).id = read + 1
          /\ \A e \in {"expired", "unauthorized"} :
               Error(read + 1, e) \in Frames /\ Error(read + 1, e).id = read + 1
      BY <2>1, FrameType DEF Refusal, Error
    <2>4. CASE call' = [id |-> read + 1, tool |-> tool] /\ emitted' = emitted
      BY <2>1, <2>4, AnsweredLater
    <2>5. ASSUME call' = call, NEW f \in Frames, f.id = read + 1, Emit(<<f>>)
          PROVE  Answered'
      BY <2>1, <2>5, AnsweredReply
    <2> QED
      BY <2>2, <2>3, <2>4, <2>5
  <1>7. CASE Answer
    <2>1. /\ call' = NoCall /\ asked' = asked /\ read' = read /\ call.id \in Nat /\ call.id # NoId
          /\ Emit(<<Result(call.id)>>) \/ Emit(<<Error(call.id, "tool_error")>>)
      BY <1>7 DEF Answer, CallReturns, CallFails, TypeData, NoCall, NoId
    <2>2. /\ Result(call.id) \in Frames /\ Result(call.id).id = call.id
          /\ Error(call.id, "tool_error") \in Frames /\ Error(call.id, "tool_error").id = call.id
      BY <2>1, FrameType DEF Result, Error
    <2>3. ASSUME NEW f \in Frames, f.id = call.id, Emit(<<f>>)
          PROVE  Answered'
      BY <2>1, <2>3, AnsweredReply DEF NoCall, NoId
    <2> QED
      BY <2>1, <2>2, <2>3
  <1>8. CASE TimerRings
    BY <1>1, <1>8, AnsweredOther DEF TimerRings
  <1>9. ASSUME ~ReadFrame, ~Answer, ~TimerRings
        PROVE  asked' = asked /\ call' = call /\ read' = read /\ emitted' = emitted
    BY <1>9 DEF Next, Startup, Spawn, Dial, Publish, StartFails, Arm, OnShutdown, OnStreamEnd,
                Teardown, Report, KillChild, RemovePidfile, TimerNotifies, InstallHandlers,
                SignalCaught, SignalKills, EmbedderNotifies, Bridge, WindowCloses, ChildDies,
                Tick, Over, vars
  <1> QED
    BY <1>4, <1>5, <1>6, <1>7, <1>8, <1>9, AnsweredOther DEF ReadFrame

LEMMA AnsweredImplies == Answered => CallsAnsweredOnce
  <1> SUFFICES ASSUME Answered, NEW k \in asked
               PROVE  Cardinality(Replies(k)) = IF call.id = k THEN 0 ELSE 1
    BY DEF CallsAnsweredOnce
  <1>0. k # NoId
    BY DEF Answered, NoId
  <1>1. CASE call.id = k
    <2>1. Replies(k) = {}
      BY <1>0, <1>1 DEF Answered, Replies, Sent
    <2> QED
      BY <1>1, <2>1, FS_EmptySet
  <1>2. CASE call.id # k
    <2>1. PICK j \in Sent : emitted[j].id = k
      BY <1>2 DEF Answered
    <2>2. Replies(k) = {j}
      BY <1>0, <2>1 DEF Answered, Replies, Sent
    <2> QED
      BY <1>2, <2>2, FS_Singleton
  <1> QED
    BY <1>1, <1>2

\* Each Call gets exactly one reply, and none before the child is done with it.
THEOREM RepliesExact == Spec => []CallsAnsweredOnce
  BY TypeCorrect, TypeSplit, AnsweredInit, AnsweredStep, AnsweredImplies, PTL DEF Spec

----------------------------------------------------------------------------
(***************************************************************************)
(* What is listed.                                                         *)
(***************************************************************************)

\* A frame's tools lie in the scope if it lists them and outside if it refuses
\* one; and what needs a Hello comes after a Ready.
Scoped(f) ==
  /\ f.kind = "tools" => f.tools \subseteq Scope
  /\ f.code = "out_of_scope" => f.tools \cap Scope = {}
Vouched(f) == f.kind \in {"tools", "result"} \/ f.code = "out_of_scope"

Listed ==
  /\ \A j \in Sent : Scoped(emitted[j])
  /\ \A j \in Sent : Vouched(emitted[j]) => \E i \in 1 .. j - 1 : emitted[i].kind = "ready"
  /\ verified \/ call # NoCall => \E i \in Sent : emitted[i].kind = "ready"

LEMMA ListedInit == Init => Listed
  BY DEF Init, Listed, Sent

\* Nothing, or one frame that is scoped, vouched for only after a Ready.
LEMMA ListedOne ==
  ASSUME TypeData, Listed, NEW f \in Frames, Emit(<<f>>), Scoped(f),
         Vouched(f) => verified \/ call # NoCall,
         verified' \/ call' # NoCall => verified \/ call # NoCall
  PROVE  Listed'
  <1>1. /\ Sent' = Sent \cup {Len(emitted) + 1} /\ Len(emitted) + 1 \notin Sent
        /\ \A j \in Sent : emitted'[j] = emitted[j]
        /\ emitted'[Len(emitted) + 1] = f
    BY AppendedOne
  <1>2. Len(emitted) \in Nat
    BY DEF TypeData
  <1>3. \A j \in Sent' : Scoped(emitted'[j])
    BY <1>1 DEF Listed
  <1>4. ASSUME NEW j \in Sent', Vouched(emitted'[j])
        PROVE  \E i \in 1 .. j - 1 : emitted'[i].kind = "ready"
    <2>1. CASE j \in Sent
      <3>1. PICK i \in 1 .. j - 1 : emitted[i].kind = "ready"
        BY <1>1, <1>4, <2>1 DEF Listed
      <3>2. i \in Sent
        BY <1>2, <2>1 DEF Sent
      <3> QED
        BY <1>1, <3>1, <3>2
    <2>2. CASE j = Len(emitted) + 1
      <3>1. PICK i \in Sent : emitted[i].kind = "ready"
        BY <1>1, <1>4, <2>2 DEF Listed
      <3>2. i \in 1 .. j - 1
        BY <1>2, <2>2 DEF Sent
      <3> QED
        BY <1>1, <3>1, <3>2
    <2> QED
      BY <1>1, <2>1, <2>2
  <1>5. verified' \/ call' # NoCall => \E i \in Sent' : emitted'[i].kind = "ready"
    BY <1>1 DEF Listed
  <1> QED
    BY <1>3, <1>4, <1>5, Zenon DEF Listed, Scoped, Vouched

LEMMA ListedSame ==
  ASSUME Listed, emitted' = emitted,
         verified' \/ call' # NoCall => verified \/ call # NoCall
  PROVE  Listed'
  BY DEF Listed, Sent, Scoped, Vouched

\* A good Hello.
LEMMA ListedReady ==
  ASSUME TypeData, Listed, Emit(<<Ready, Tools(FilterTools(ChildTools, Scope))>>)
  PROVE  Listed'
  <1> DEFINE t == Tools(FilterTools(ChildTools, Scope))
             n == Len(emitted)
  <1>0. t \in Frames /\ Ready \in Frames
    BY FrameType DEF NoId
  <1>1. PICK fs : fs = <<Ready, t>>
    OBVIOUS
  <1>2. fs \in Seq(Frames) /\ Len(fs) = 2 /\ fs[1] = Ready /\ fs[2] = t /\ Emit(fs)
    BY <1>0, <1>1
  <1>3. /\ n \in Nat /\ Len(emitted') = n + 2
        /\ \A j \in Sent : emitted'[j] = emitted[j]
        /\ emitted'[n + 1] = Ready /\ emitted'[n + 2] = t
    <2>1. /\ n \in Nat /\ Len(emitted') = n + Len(fs)
          /\ \A j \in Sent : emitted'[j] = emitted[j]
          /\ \A j \in 1..Len(fs) : emitted'[n + j] = fs[j]
      BY <1>2, Appended
    <2>2. 1 \in 1..Len(fs) /\ 2 \in 1..Len(fs)
      BY <1>2
    <2> HIDE DEF t, n
    <2> QED
      BY <1>2, <2>1, <2>2
  <1>4. Scoped(t) /\ Scoped(Ready) /\ ~Vouched(Ready) /\ Ready.kind = "ready"
    BY DEF Scoped, Vouched, Ready, Tools, FilterTools
  <1> HIDE DEF t, n
  <1>5. Sent' = Sent \cup {n + 1, n + 2} /\ Sent = 1..n
    BY <1>3 DEF Sent, n
  <1>6. \A j \in Sent' : Scoped(emitted'[j])
    BY <1>3, <1>4, <1>5 DEF Listed
  <1>7. ASSUME NEW j \in Sent', Vouched(emitted'[j])
        PROVE  \E i \in 1 .. j - 1 : emitted'[i].kind = "ready"
    <2>1. CASE j \in Sent
      <3>1. PICK i \in 1 .. j - 1 : emitted[i].kind = "ready"
        BY <1>3, <1>7, <2>1 DEF Listed
      <3>2. i \in Sent
        BY <1>3, <1>5, <2>1
      <3> QED
        BY <1>3, <3>1, <3>2
    <2>2. CASE j = n + 1
      BY <1>3, <1>4, <1>7, <2>2
    <2>3. CASE j = n + 2
      BY <1>3, <1>4, <2>3
    <2> QED
      BY <1>5, <2>1, <2>2, <2>3
  <1>8. \E i \in Sent' : emitted'[i].kind = "ready"
    BY <1>3, <1>4, <1>5
  <1> QED
    BY <1>6, <1>7, <1>8, Zenon DEF Listed, Scoped, Vouched

LEMMA ListedStep == TypeData /\ Listed /\ [Next]_vars => Listed'
  <1> SUFFICES ASSUME TypeData, Listed, [Next]_vars PROVE Listed'
    OBVIOUS
  <1> USE DEF world, outside, tasks, talk
  <1>1. ASSUME NEW k \in Nat,
               NEW e \in {"expired", "unauthorized", "bad_request", "tool_error"}
        PROVE  Error(k, e) \in Frames /\ Scoped(Error(k, e)) /\ ~Vouched(Error(k, e))
    <2>1. Error(k, e) \in Frames
      BY FrameType
    <2> QED
      BY <2>1 DEF Error, Scoped, Vouched
  <1>2. /\ Tools(FilterTools(ChildTools, Scope)) \in Frames
        /\ Scoped(Tools(FilterTools(ChildTools, Scope)))
    <2>1. Tools(FilterTools(ChildTools, Scope)) \in Frames
      BY FrameType DEF NoId
    <2> QED
      BY <2>1 DEF Tools, FilterTools, Scoped
  <1>3. CASE OnGarbage
    BY <1>1, <1>3, ListedOne DEF OnGarbage, NoId
  <1>4. CASE OnList
    <2>1. verified' = verified /\ call' = call
      BY <1>4 DEF OnList
    <2>2. CASE verified
      <3>1. Emit(<<Tools(FilterTools(ChildTools, Scope))>>)
        BY <1>4, <2>2 DEF OnList
      <3> QED
        BY <1>2, <2>1, <2>2, <3>1, ListedOne
    <2>3. CASE ~verified
      <3>1. Emit(<<Error(NoId, "unauthorized")>>)
        BY <1>4, <2>3 DEF OnList
      <3> QED
        BY <1>1, <2>1, <3>1, ListedOne DEF NoId
    <2> QED
      BY <2>2, <2>3
  <1>5. ASSUME NEW token \in TokenKinds, OnHello(token) PROVE Listed'
    <2>1. \/ Emit(<<Ready, Tools(FilterTools(ChildTools, Scope))>>)
          \/ /\ verified' = verified /\ call' = call
             /\ Emit(<<Error(NoId, "expired")>>) \/ Emit(<<Error(NoId, "unauthorized")>>)
      BY <1>5 DEF OnHello
    <2> QED
      BY <1>1, <2>1, ListedOne, ListedReady DEF NoId
  <1>6. ASSUME NEW tool \in Names, OnCall(tool) PROVE Listed'
    <2>1. verified' = verified /\ read + 1 \in Nat
      BY <1>6, SessionAssumption DEF OnCall, TypeData
    <2>2. \/ verified /\ emitted' = emitted
          \/ verified /\ call' = call /\ tool \notin Scope /\ Emit(<<Refusal(read + 1, tool)>>)
          \/ call' = call /\ Emit(<<Error(read + 1, "expired")>>)
          \/ call' = call /\ Emit(<<Error(read + 1, "unauthorized")>>)
      BY <1>6 DEF OnCall, DecideCall, Allows, Claims
    <2>3. ASSUME tool \notin Scope
          PROVE  Refusal(read + 1, tool) \in Frames /\ Scoped(Refusal(read + 1, tool))
      <3>1. Refusal(read + 1, tool) \in Frames
        BY <2>1, FrameType
      <3> QED
        BY <2>3, <3>1 DEF Refusal, Scoped
    <2> QED
      BY <1>1, <2>1, <2>2, <2>3, ListedOne, ListedSame
  <1>7. CASE Answer
    <2>1. /\ call # NoCall /\ call' = NoCall /\ verified' = verified /\ call.id \in Nat
          /\ Emit(<<Result(call.id)>>) \/ Emit(<<Error(call.id, "tool_error")>>)
      BY <1>7 DEF Answer, CallReturns, CallFails, TypeData, NoCall
    <2>2. Result(call.id) \in Frames /\ Scoped(Result(call.id))
      <3>1. Result(call.id) \in Frames
        BY <2>1, FrameType
      <3> QED
        BY <3>1 DEF Result, Scoped
    <2> QED
      BY <1>1, <2>1, <2>2, ListedOne
  <1>8. CASE TimerRings
    BY <1>1, <1>8, ListedOne DEF TimerRings, NoId
  <1>9. ASSUME ~ReadFrame, ~Answer, ~TimerRings
        PROVE  verified' = verified /\ call' = call /\ emitted' = emitted
    BY <1>9 DEF Next, Startup, Spawn, Dial, Publish, StartFails, Arm, OnShutdown, OnStreamEnd,
                Teardown, Report, KillChild, RemovePidfile, TimerNotifies, InstallHandlers,
                SignalCaught, SignalKills, EmbedderNotifies, Bridge, WindowCloses, ChildDies,
                Tick, Over, vars
  <1> QED
    BY <1>3, <1>4, <1>5, <1>6, <1>7, <1>8, <1>9, ListedSame DEF ReadFrame

LEMMA ListedImplies == Listed => ListedNeverRefused
  <1> SUFFICES ASSUME Listed, NEW j \in Sent
               PROVE  /\ Vouched(emitted[j]) => \E i \in 1 .. j - 1 : emitted[i].kind = "ready"
                      /\ emitted[j].code = "out_of_scope" =>
                           \A i \in 1 .. j - 1 : emitted[i].kind = "tools" =>
                             emitted[j].tools \cap emitted[i].tools = {}
    BY DEF ListedNeverRefused, Vouched, Sent
  <1>1. ASSUME emitted[j].code = "out_of_scope", NEW i \in 1 .. j - 1, emitted[i].kind = "tools"
        PROVE  emitted[j].tools \cap emitted[i].tools = {}
    <2>1. i \in Sent
      BY DEF Sent
    <2>2. emitted[i].tools \subseteq Scope /\ emitted[j].tools \cap Scope = {}
      BY <1>1, <2>1 DEF Listed, Scoped
    <2> QED
      BY <2>2
  <1> QED
    BY <1>1 DEF Listed

\* No tool that has been listed is ever refused by scope, and nothing is listed,
\* run or refused by scope before a Ready.
THEOREM ListAndCallAgree == Spec => []ListedNeverRefused
  BY TypeCorrect, TypeSplit, ListedInit, ListedStep, ListedImplies, PTL DEF Spec

----------------------------------------------------------------------------
(***************************************************************************)
(* What is counted.                                                        *)
(***************************************************************************)

Forwarded == {k \in asked : call.id = k \/ Forwards(k)}
Blocked   == {j \in Sent : emitted[j].code = "out_of_scope"}
Nothing   == [calls |-> 0, blocks |-> 0]
Forwarding(f) == f.kind = "result" \/ f.code = "tool_error"

\* Counts are the sizes of these sets, and what is reported are the counts, which
\* do not change any more once they may be reported.
Tally ==
  /\ IsFiniteSet(Forwarded) /\ counts.calls = Cardinality(Forwarded)
  /\ IsFiniteSet(Blocked) /\ counts.blocks = Cardinality(Blocked)
ReportTrue ==
  /\ reported \in {counts, Nothing}
  /\ stage \in {"spawn", "dial", "publish", "arm", "loop", "report"} => reported = Nothing

LEMMA TallyInit == Init => Tally /\ ReportTrue
  <1> SUFFICES ASSUME Init PROVE Tally /\ ReportTrue
    OBVIOUS
  <1>1. Forwarded = {} /\ Blocked = {}
    BY DEF Init, Forwarded, Blocked, Sent
  <1>2. counts = Nothing /\ reported = Nothing
    BY DEF Init, Nothing
  <1>3. counts.calls = 0 /\ counts.blocks = 0
    BY <1>2 DEF Nothing
  <1>4. Tally
    BY <1>1, <1>3, FS_EmptySet DEF Tally
  <1>5. ReportTrue
    BY <1>2 DEF ReportTrue
  <1> QED
    BY <1>4, <1>5

LEMMA ReportStep == ReportTrue /\ [Next]_vars => ReportTrue'
  <1> SUFFICES ASSUME ReportTrue, [Next]_vars PROVE ReportTrue'
    OBVIOUS
  <1> USE DEF ReportTrue, Nothing, world, outside, tasks, talk
  <1>1. CASE Startup
    BY <1>1 DEF Startup, Spawn, Dial, Publish, StartFails, Arm
  <1>2. CASE OnShutdown \/ OnStreamEnd \/ Answer
    BY <1>2 DEF OnShutdown, OnStreamEnd, Polling, Answer, CallReturns, CallFails
  <1>3. CASE Teardown
    BY <1>3 DEF Teardown, Report, KillChild, RemovePidfile
  <1>4. CASE OnGarbage \/ OnList
    BY <1>4 DEF OnGarbage, OnList
  <1>5. ASSUME NEW token \in TokenKinds, OnHello(token) PROVE ReportTrue'
    BY <1>5 DEF OnHello, Reading, Polling
  <1>6. ASSUME NEW tool \in Names, OnCall(tool) PROVE ReportTrue'
    BY <1>6 DEF OnCall, Reading, Polling
  <1>7. CASE TimerRings \/ TimerNotifies \/ InstallHandlers \/ SignalCaught \/ SignalKills
    BY <1>7 DEF TimerRings, TimerNotifies, InstallHandlers, SignalCaught, SignalKills
  <1>8. CASE EmbedderNotifies \/ Bridge \/ WindowCloses \/ ChildDies \/ Tick
    BY <1>8 DEF EmbedderNotifies, Bridge, WindowCloses, ChildDies, Tick
  <1>9. CASE UNCHANGED vars
    BY <1>9 DEF vars
  <1> QED
    BY <1>1, <1>2, <1>3, <1>4, <1>5, <1>6, <1>7, <1>8, <1>9 DEF Next, ReadFrame, Over

\* One more frame makes its own call forwarded, if it is of that kind, and is a
\* block of its own, if it is one.
LEMMA EmittedOne ==
  ASSUME TypeData, NEW f \in Frames, Emit(<<f>>)
  PROVE  /\ \A k : Forwards(k)' <=> Forwards(k) \/ (f.id = k /\ Forwarding(f))
         /\ Blocked' = Blocked \cup (IF f.code = "out_of_scope" THEN {Len(emitted) + 1} ELSE {})
         /\ Len(emitted) + 1 \notin Blocked
  <1>1. /\ Sent' = Sent \cup {Len(emitted) + 1} /\ Len(emitted) + 1 \notin Sent
        /\ \A j \in Sent : emitted'[j] = emitted[j]
        /\ emitted'[Len(emitted) + 1] = f
    BY AppendedOne
  <1>2. ASSUME NEW k
        PROVE  /\ Forwards(k) <=> \E j \in Sent : emitted[j].id = k /\ Forwarding(emitted[j])
               /\ Forwards(k)' <=> \E j \in Sent' : emitted'[j].id = k /\ Forwarding(emitted'[j])
    BY DEF Forwards, Replies, Forwarding, Sent
  <1>3. ASSUME NEW k PROVE Forwards(k)' <=> Forwards(k) \/ (f.id = k /\ Forwarding(f))
    BY <1>1, <1>2
  <1>4. Blocked' = Blocked \cup (IF f.code = "out_of_scope" THEN {Len(emitted) + 1} ELSE {})
    BY <1>1 DEF Blocked
  <1> QED
    BY <1>1, <1>3, <1>4 DEF Blocked

LEMMA EmittedReady ==
  ASSUME TypeData, Emit(<<Ready, Tools(FilterTools(ChildTools, Scope))>>)
  PROVE  (\A k : Forwards(k)' <=> Forwards(k)) /\ Blocked' = Blocked
  <1> DEFINE t == Tools(FilterTools(ChildTools, Scope))
             n == Len(emitted)
  <1>0. t \in Frames /\ Ready \in Frames
    BY FrameType DEF NoId
  <1>1. PICK fs : fs = <<Ready, t>>
    OBVIOUS
  <1>2. fs \in Seq(Frames) /\ Len(fs) = 2 /\ fs[1] = Ready /\ fs[2] = t /\ Emit(fs)
    BY <1>0, <1>1
  <1>3. /\ n \in Nat /\ Len(emitted') = n + 2
        /\ \A j \in Sent : emitted'[j] = emitted[j]
        /\ emitted'[n + 1] = Ready /\ emitted'[n + 2] = t
    <2>1. /\ n \in Nat /\ Len(emitted') = n + Len(fs)
          /\ \A j \in Sent : emitted'[j] = emitted[j]
          /\ \A j \in 1..Len(fs) : emitted'[n + j] = fs[j]
      BY <1>2, Appended
    <2>2. 1 \in 1..Len(fs) /\ 2 \in 1..Len(fs)
      BY <1>2
    <2> HIDE DEF t, n
    <2> QED
      BY <1>2, <2>1, <2>2
  <1>4. /\ ~Forwarding(t) /\ ~Forwarding(Ready)
        /\ t.code # "out_of_scope" /\ Ready.code # "out_of_scope"
    BY DEF Forwarding, Ready, Tools
  <1> HIDE DEF t, n
  <1>5. Sent' = Sent \cup {n + 1, n + 2}
    BY <1>3 DEF Sent, n
  <1>6. ASSUME NEW k
        PROVE  /\ Forwards(k) <=> \E j \in Sent : emitted[j].id = k /\ Forwarding(emitted[j])
               /\ Forwards(k)' <=> \E j \in Sent' : emitted'[j].id = k /\ Forwarding(emitted'[j])
    BY DEF Forwards, Replies, Forwarding, Sent
  <1>7. ASSUME NEW k PROVE Forwards(k)' <=> Forwards(k)
    BY <1>3, <1>4, <1>5, <1>6
  <1>8. Blocked' = Blocked
    BY <1>3, <1>4, <1>5 DEF Blocked
  <1> QED
    BY <1>7, <1>8

\* Both sets stay as they are, and the counts with them.
LEMMA TallySame ==
  ASSUME Tally, Forwarded' = Forwarded, Blocked' = Blocked, counts' = counts
  PROVE  Tally'
  BY DEF Tally

LEMMA TallyStep == TypeData /\ Answered /\ Tally /\ [Next]_vars => Tally'
  <1> SUFFICES ASSUME TypeData, Answered, Tally, [Next]_vars PROVE Tally'
    OBVIOUS
  <1> USE DEF world, outside, tasks, talk
  <1>0. read \in Nat /\ asked \subseteq 1..read
    BY SessionAssumption DEF TypeData, Answered
  <1>1. ASSUME NEW f \in Frames, Emit(<<f>>), ~Forwarding(f), f.code # "out_of_scope",
               asked' = asked, call' = call, counts' = counts
        PROVE  Tally'
    <2>1. Forwarded' = Forwarded /\ Blocked' = Blocked
      BY <1>1, EmittedOne DEF Forwarded
    <2> QED
      BY <1>1, <2>1, TallySame
  <1>2. \A e \in {"expired", "unauthorized", "bad_request"} :
          Error(NoId, e) \in Frames /\ ~Forwarding(Error(NoId, e)) /\ Error(NoId, e).code # "out_of_scope"
    <2>1. \A e \in {"expired", "unauthorized", "bad_request"} : Error(NoId, e) \in Frames
      BY FrameType DEF NoId
    <2> QED
      BY <2>1 DEF Error, Forwarding
  <1>3. CASE OnGarbage
    BY <1>1, <1>2, <1>3 DEF OnGarbage
  <1>4. CASE OnList
    <2> DEFINE t == Tools(FilterTools(ChildTools, Scope))
    <2>1. t \in Frames /\ ~Forwarding(t) /\ t.code # "out_of_scope"
      <3>1. t \in Frames
        BY FrameType DEF NoId
      <3> QED
        BY <3>1 DEF Tools, Forwarding
    <2>2. /\ asked' = asked /\ call' = call /\ counts' = counts
          /\ Emit(<<t>>) \/ Emit(<<Error(NoId, "unauthorized")>>)
      BY <1>4 DEF OnList
    <2> HIDE DEF t
    <2> QED
      BY <1>1, <1>2, <2>1, <2>2
  <1>5. ASSUME NEW token \in TokenKinds, OnHello(token) PROVE Tally'
    <2>1. asked' = asked /\ call' = call /\ counts' = counts
      BY <1>5 DEF OnHello
    <2>2. \/ Emit(<<Ready, Tools(FilterTools(ChildTools, Scope))>>)
          \/ Emit(<<Error(NoId, "expired")>>) \/ Emit(<<Error(NoId, "unauthorized")>>)
      BY <1>5 DEF OnHello
    <2>3. CASE Emit(<<Ready, Tools(FilterTools(ChildTools, Scope))>>)
      <3>1. Forwarded' = Forwarded /\ Blocked' = Blocked
        BY <2>1, <2>3, EmittedReady DEF Forwarded
      <3> QED
        BY <2>1, <3>1, TallySame
    <2> QED
      BY <1>1, <1>2, <2>1, <2>2, <2>3
  <1>6. ASSUME NEW tool \in Names, OnCall(tool) PROVE Tally'
    <2>1. /\ call.id = NoId /\ asked' = asked \cup {read + 1}
          /\ read + 1 \in Nat /\ read + 1 # NoId /\ read + 1 \notin asked
      BY <1>0, <1>6 DEF OnCall, Reading, Polling, NoCall, NoId
    <2>2. ~Forwards(read + 1)
      BY <1>0, <2>1 DEF Forwards, Replies, Answered, Sent, NoId
    <2>3. \/ /\ call' = [id |-> read + 1, tool |-> tool] /\ emitted' = emitted
             /\ counts' = [counts EXCEPT !.calls = @ + 1]
          \/ /\ call' = call /\ Emit(<<Refusal(read + 1, tool)>>)
             /\ counts' = [counts EXCEPT !.blocks = @ + 1]
          \/ /\ call' = call /\ counts' = counts
             /\ Emit(<<Error(read + 1, "expired")>>) \/ Emit(<<Error(read + 1, "unauthorized")>>)
      BY <1>6 DEF OnCall, DecideCall, Counted
    <2>4. CASE /\ call' = [id |-> read + 1, tool |-> tool] /\ emitted' = emitted
               /\ counts' = [counts EXCEPT !.calls = @ + 1]
      <3>1. Forwarded' = Forwarded \cup {read + 1} /\ read + 1 \notin Forwarded
        BY <1>0, <2>1, <2>4 DEF Forwarded, Forwards, Replies, NoId
      <3>2. Blocked' = Blocked
        BY <2>4 DEF Blocked, Sent
      <3>3. counts'.calls = counts.calls + 1 /\ counts'.blocks = counts.blocks
        BY <2>4 DEF TypeData
      <3> QED
        BY <3>1, <3>2, <3>3, FS_AddElement DEF Tally
    <2>5. CASE /\ call' = call /\ Emit(<<Refusal(read + 1, tool)>>)
               /\ counts' = [counts EXCEPT !.blocks = @ + 1]
      <3>1. /\ Refusal(read + 1, tool) \in Frames /\ ~Forwarding(Refusal(read + 1, tool))
            /\ Refusal(read + 1, tool).code = "out_of_scope"
        <4>1. Refusal(read + 1, tool) \in Frames
          BY <2>1, FrameType
        <4> QED
          BY <4>1 DEF Refusal, Forwarding
      <3>2. /\ \A k : Forwards(k)' <=> Forwards(k)
            /\ Blocked' = Blocked \cup {Len(emitted) + 1} /\ Len(emitted) + 1 \notin Blocked
        BY <2>5, <3>1, EmittedOne
      <3>3. Forwarded' = Forwarded
        BY <2>1, <2>2, <2>5, <3>2 DEF Forwarded
      <3>4. counts'.blocks = counts.blocks + 1 /\ counts'.calls = counts.calls
        BY <2>5 DEF TypeData
      <3> QED
        BY <3>2, <3>3, <3>4, FS_AddElement DEF Tally
    <2>6. ASSUME NEW e \in {"expired", "unauthorized"}, call' = call, counts' = counts,
                 Emit(<<Error(read + 1, e)>>)
          PROVE  Tally'
      <3>1. /\ Error(read + 1, e) \in Frames /\ ~Forwarding(Error(read + 1, e))
            /\ Error(read + 1, e).code # "out_of_scope"
        <4>1. Error(read + 1, e) \in Frames
          BY <2>1, FrameType
        <4> QED
          BY <4>1 DEF Error, Forwarding
      <3>2. (\A k : Forwards(k)' <=> Forwards(k)) /\ Blocked' = Blocked
        BY <2>6, <3>1, EmittedOne
      <3>3. Forwarded' = Forwarded
        BY <2>1, <2>2, <2>6, <3>2 DEF Forwarded
      <3> QED
        BY <2>6, <3>2, <3>3, TallySame
    <2> QED
      BY <2>3, <2>4, <2>5, <2>6
  <1>7. CASE Answer
    <2>1. /\ call' = NoCall /\ asked' = asked /\ counts' = counts
          /\ call.id \in Nat /\ call.id # NoId /\ call.id \in asked
          /\ Emit(<<Result(call.id)>>) \/ Emit(<<Error(call.id, "tool_error")>>)
      BY <1>7 DEF Answer, CallReturns, CallFails, TypeData, NoCall, NoId, Answered
    <2>2. ASSUME NEW f \in Frames, Emit(<<f>>), f.id = call.id, Forwarding(f),
                 f.code # "out_of_scope"
          PROVE  Tally'
      <3>1. (\A k : Forwards(k)' <=> Forwards(k) \/ k = call.id) /\ Blocked' = Blocked
        BY <2>2, EmittedOne
      <3>2. Forwarded' = Forwarded
        BY <1>0, <2>1, <3>1 DEF Forwarded, NoCall
      <3> QED
        BY <2>1, <3>1, <3>2, TallySame
    <2>3. /\ Result(call.id) \in Frames /\ Result(call.id).id = call.id
          /\ Forwarding(Result(call.id)) /\ Result(call.id).code # "out_of_scope"
          /\ Error(call.id, "tool_error") \in Frames /\ Error(call.id, "tool_error").id = call.id
          /\ Forwarding(Error(call.id, "tool_error"))
          /\ Error(call.id, "tool_error").code # "out_of_scope"
      <3>1. Result(call.id) \in Frames /\ Error(call.id, "tool_error") \in Frames
        BY <2>1, FrameType
      <3> QED
        BY <3>1 DEF Result, Error, Forwarding
    <2> QED
      BY <2>1, <2>2, <2>3
  <1>8. CASE TimerRings
    BY <1>1, <1>2, <1>8 DEF TimerRings
  <1>9. ASSUME ~ReadFrame, ~Answer, ~TimerRings
        PROVE  asked' = asked /\ call' = call /\ counts' = counts /\ emitted' = emitted
    BY <1>9 DEF Next, Startup, Spawn, Dial, Publish, StartFails, Arm, OnShutdown, OnStreamEnd,
                Teardown, Report, KillChild, RemovePidfile, TimerNotifies, InstallHandlers,
                SignalCaught, SignalKills, EmbedderNotifies, Bridge, WindowCloses, ChildDies,
                Tick, Over, vars
  <1>10. CASE asked' = asked /\ call' = call /\ counts' = counts /\ emitted' = emitted
    <2>1. Forwarded' = Forwarded /\ Blocked' = Blocked
      BY <1>10 DEF Forwarded, Forwards, Replies, Blocked, Sent
    <2> QED
      BY <1>10, <2>1, TallySame
  <1> QED
    BY <1>3, <1>4, <1>5, <1>6, <1>7, <1>8, <1>9, <1>10 DEF ReadFrame

\* The usage report agrees with what the viewer was told.
THEOREM CountsAreTrue == Spec => []CountsAgree
  <1>1. Tally /\ ReportTrue => CountsAgree
    BY DEF Tally, ReportTrue, CountsAgree, Forwarded, Blocked, Sent, Nothing
  <1> QED
    BY <1>1, TypeCorrect, TypeSplit, AnsweredInit, AnsweredStep, TallyInit, TallyStep,
       ReportStep, PTL DEF Spec
=============================================================================
