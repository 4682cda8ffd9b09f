---------------------------- MODULE PidfileProofs ----------------------------
(***************************************************************************)
(* The pidfiles, for any number of sessions and of closes.                 *)
(*                                                                         *)
(* A session writes and removes a file of its own name and nobody else's,  *)
(* which makes the pidfile of an open session its own (OwnFile).  latest   *)
(* is shared: that no session that ended in order is named by it needs     *)
(* that one is named only between its FillLatest and its end (Pointed),    *)
(* and that only a session that still fills has latest open.               *)
(***************************************************************************)
EXTENDS Pidfile, TLAPS

OwnFile ==
  \A s \in Sessions :
    /\ idfile[s] \in {Absent, Empty, s}
    /\ stage[s] \in {"pointing", "filling", "open", "closing"} => idfile[s] = s
    /\ stage[s] \in {"unnamed", "unpointing", "gone"} => idfile[s] = Absent

Pointed ==
  /\ \A s \in opened : stage[s] = "filling"
  /\ \A s \in Sessions :
       latest = s => stage[s] \in {"open", "closing", "unnamed", "unpointing", "died"}

\* A close by id has found the pid of the session it was given.
Found ==
  \A k \in Closers :
    closer[k].state = "found" =>
      /\ closer[k].pid \in Sessions
      /\ closer[k].id # NoSession => closer[k].pid = closer[k].id

Files == TypeOK /\ OwnFile /\ Pointed /\ Found

LEMMA FilesInit == Init => Files
  BY PidfileAssumption DEF Init, Files, TypeOK, OwnFile, Pointed, Found, Content, Stages

\* The steps of one session change its own stage and its own file.
LEMMA SessionStep ==
  ASSUME Files, NEW s \in Sessions, Open(s) \/ Close(s) \/ Remove(s) \/ Die(s)
  PROVE  Files'
  <1> USE PidfileAssumption DEF Files, TypeOK, OwnFile, Pointed, Found, Content, Stages, Go
  <1>1. CASE CreateId(s)
    BY <1>1 DEF CreateId
  <1>2. CASE FillId(s)
    BY <1>2 DEF FillId
  <1>3. CASE TruncateLatest(s)
    BY <1>3 DEF TruncateLatest
  <1>4. CASE FillLatest(s)
    BY <1>4 DEF FillLatest
  <1>5. CASE Close(s)
    BY <1>5 DEF Close
  <1>6. CASE RemoveId(s)
    BY <1>6 DEF RemoveId, Own
  <1>7. CASE CheckLatest(s)
    BY <1>7 DEF CheckLatest, PointsHere
  <1>8. CASE RemoveLatest(s)
    BY <1>8 DEF RemoveLatest
  <1>9. CASE Die(s)
    BY <1>9 DEF Die, Running
  <1> QED
    BY <1>1, <1>2, <1>3, <1>4, <1>5, <1>6, <1>7, <1>8, <1>9 DEF Open, Remove

\* What a close reads for an id is absent, empty, or the pid of that session.
LEMMA ReadStep ==
  ASSUME Files, NEW k \in Closers, NEW id \in Sessions \cup {NoSession}, NEW content \in Content,
         id # NoSession => content \in {Absent, Empty, id},
         Read(k, id, content)
  PROVE  Files'
  <1>1. HasPid(content) => content \in Sessions /\ (id # NoSession => content = id)
    BY PidfileAssumption DEF HasPid
  <1> QED
    BY <1>1 DEF Files, TypeOK, OwnFile, Pointed, Found, Read

LEMMA SignalStep ==
  ASSUME Files, NEW k \in Closers, Signal(k)
  PROVE  Files'
  BY DEF Files, TypeOK, OwnFile, Pointed, Found, Signal

LEMMA FilesStep == Files /\ [Next]_vars => Files'
  <1> SUFFICES ASSUME Files, [Next]_vars PROVE Files'
    OBVIOUS
  <1>1. ASSUME NEW s \in Sessions, Open(s) \/ Close(s) \/ Remove(s) \/ Die(s) PROVE Files'
    BY <1>1, SessionStep
  <1>2. ASSUME NEW k \in Closers, ReadLatest(k) PROVE Files'
    BY <1>2, ReadStep DEF ReadLatest, Files, TypeOK
  <1>3. ASSUME NEW k \in Closers, NEW s \in Sessions, ReadId(k, s) PROVE Files'
    BY <1>3, ReadStep DEF ReadId, Files, TypeOK, OwnFile
  <1>4. ASSUME NEW k \in Closers, Signal(k) PROVE Files'
    BY <1>4, SignalStep
  <1>5. CASE UNCHANGED vars
    BY <1>5 DEF vars, Files, TypeOK, OwnFile, Pointed, Found, Content
  <1> QED
    BY <1>1, <1>2, <1>3, <1>4, <1>5 DEF Next, Quiescent

\* Every file holds nothing or a session, and every stage is one of those named.
THEOREM TypeCorrect == Spec => []TypeOK
  <1>1. Files => TypeOK
    BY DEF Files
  <1> QED
    BY <1>1, FilesInit, FilesStep, PTL DEF Spec

\* A session that ended in order has no file, and latest does not name it,
\* whatever others wrote to latest meanwhile.
THEOREM NothingIsStale == Spec => []NothingStale
  <1>1. Files => NothingStale
    BY DEF Files, OwnFile, Pointed, NothingStale
  <1> QED
    BY <1>1, FilesInit, FilesStep, PTL DEF Spec

----------------------------------------------------------------------------
\* What one step of a close does, given the invariant.
CloseWorks(k) ==
  closer'[k] # closer[k] /\ closer'[k].id # NoSession =>
    /\ closer'[k].state = "failed" => stage[closer'[k].id] # "open"
    /\ closer'[k].state = "done" => closer'[k].pid = closer'[k].id

LEMMA CloseStep == Files /\ [Next]_vars => \A k \in Closers : CloseWorks(k)
  <1> SUFFICES ASSUME Files, [Next]_vars, NEW k \in Closers, closer'[k] # closer[k]
               PROVE  CloseWorks(k)
    BY DEF CloseWorks
  <1>1. ASSUME NEW s \in Sessions, Open(s) \/ Close(s) \/ Remove(s) \/ Die(s) PROVE FALSE
    BY <1>1 DEF Open, Close, Remove, Die, CreateId, FillId, TruncateLatest, FillLatest,
                RemoveId, CheckLatest, RemoveLatest
  <1>2. ASSUME NEW j \in Closers, ReadLatest(j) PROVE CloseWorks(k)
    BY <1>2 DEF ReadLatest, Read, CloseWorks, Files, TypeOK
  <1>3. ASSUME NEW j \in Closers, NEW s \in Sessions, ReadId(j, s) PROVE CloseWorks(k)
    <2>1. stage[s] = "open" => HasPid(idfile[s])
      BY DEF Files, OwnFile, HasPid
    <2> QED
      BY <1>3, <2>1 DEF ReadId, Read, CloseWorks, Files, TypeOK
  <1>4. ASSUME NEW j \in Closers, Signal(j) PROVE CloseWorks(k)
    <2>1. j = k /\ closer[k].state = "found"
      BY <1>4 DEF Signal, Files, TypeOK
    <2>2. closer'[k].id = closer[k].id /\ closer'[k].pid = closer[k].pid
      BY <1>4, <2>1 DEF Signal, Files, TypeOK
    <2>3. closer'[k].state = "failed" => closer[k].pid \notin Running
      BY <1>4, <2>1 DEF Signal, Files, TypeOK
    <2> QED
      BY <2>1, <2>2, <2>3 DEF CloseWorks, Files, Found, Running
  <1>5. CASE UNCHANGED vars
    BY <1>5 DEF vars
  <1> QED
    BY <1>1, <1>2, <1>3, <1>4, <1>5 DEF Next, Quiescent

\* A close by id fails only on a session that is not open, and never signals
\* another, for any number of sessions that write, remove and die meanwhile.
THEOREM CloseByIdAlwaysWorks == Spec => CloseByIdWorks
  <1>1. Files /\ [Next]_vars => [\A k \in Closers : CloseWorks(k)]_vars
    BY CloseStep
  <1>2. Spec => [][\A k \in Closers : CloseWorks(k)]_vars
    BY <1>1, FilesInit, FilesStep, PTL DEF Spec
  <1> QED
    BY <1>2 DEF CloseByIdWorks, CloseWorks
=============================================================================
