------------------------------ MODULE Pidfile ------------------------------
(***************************************************************************)
(* The pidfiles that sessions on one host leave for `tnls close`: one file *)
(* per tunnel and one shared "latest", in the temporary directory.         *)
(* pidfile.rs writes, reads and removes them with plain file calls and no  *)
(* lock, so the sessions, each a process of its own, and the closing       *)
(* command interleave between the calls; fs::write truncates first and     *)
(* fills the file after.                                                   *)
(*                                                                         *)
(* A file's content is the session that wrote it (its pid, id and link).   *)
(* Every session is a process with a pid of its own, as under `tnls open`. *)
(***************************************************************************)
EXTENDS Integers

CONSTANTS Sessions,   \* tunnels opened on the host
          Closers,    \* runs of `tnls close`
          Absent,     \* no such file
          Empty,      \* truncated, not yet filled
          NoSession

ASSUME PidfileAssumption ==
  /\ {Absent, Empty, NoSession} \cap Sessions = {}
  /\ Absent # Empty

VARIABLES idfile,    \* tunnel-<id>.pid of each session
          latest,    \* tunnel-latest.pid
          opened,    \* sessions with the present latest open for writing
          stage,     \* of each session
          closer     \* of each close: its state, the id it was given, the pid it read

vars == <<idfile, latest, opened, stage, closer>>

Stages  == {"new", "naming", "pointing", "filling", "open",
            "closing", "unnamed", "unpointing", "gone", "died"}
Running == {s \in Sessions : stage[s] \notin {"new", "gone", "died"}}
Content == Sessions \cup {Absent, Empty}

Init ==
  /\ idfile = [s \in Sessions |-> Absent]
  /\ latest = Absent
  /\ opened = {}
  /\ stage = [s \in Sessions |-> "new"]
  /\ closer = [k \in Closers |-> [state |-> "new", id |-> NoSession, pid |-> NoSession]]

Go(s, from, to) == stage[s] = from /\ stage' = [stage EXCEPT ![s] = to]

----------------------------------------------------------------------------
(* write: the tunnel's own file, then latest *)

CreateId(s) ==
  /\ Go(s, "new", "naming")
  /\ idfile' = [idfile EXCEPT ![s] = Empty]
  /\ UNCHANGED <<latest, opened, closer>>

FillId(s) ==
  /\ Go(s, "naming", "pointing")
  /\ idfile' = [idfile EXCEPT ![s] = s]
  /\ UNCHANGED <<latest, opened, closer>>

TruncateLatest(s) ==
  /\ Go(s, "pointing", "filling")
  /\ latest' = Empty
  /\ opened' = opened \cup {s}
  /\ UNCHANGED <<idfile, closer>>

\* A latest that was removed since is filled in vain, also if there is a new one.
FillLatest(s) ==
  /\ Go(s, "filling", "open")
  /\ latest' = IF s \in opened THEN s ELSE latest
  /\ opened' = opened \ {s}
  /\ UNCHANGED <<idfile, closer>>

----------------------------------------------------------------------------
(* remove, at the end of the session *)

\* The TTL, a hang-up of the relay or a signal ends the loop.
Close(s) ==
  /\ Go(s, "open", "closing")
  /\ UNCHANGED <<idfile, latest, opened, closer>>

\* Mutant: the tunnel the latest pidfile names is removed, not the own.
OwnIsLatest(s) == IF latest \in Sessions THEN latest ELSE s
Own(s) == s

RemoveId(s) ==
  /\ Go(s, "closing", "unnamed")
  /\ idfile' = [idfile EXCEPT ![Own(s)] = Absent]
  /\ UNCHANGED <<latest, opened, closer>>

\* Mutant: the second line is compared the wrong way round.
PointsElsewhere(s) == latest # s
PointsHere(s) == latest = s

\* latest is read; only if its second line is the own id is it removed.
CheckLatest(s) ==
  /\ Go(s, "unnamed", IF PointsHere(s) THEN "unpointing" ELSE "gone")
  /\ UNCHANGED <<idfile, latest, opened, closer>>

\* By now it may point elsewhere, or be gone.
RemoveLatest(s) ==
  /\ Go(s, "unpointing", "gone")
  /\ latest' = Absent
  /\ opened' = {}
  /\ UNCHANGED <<idfile, closer>>

\* The process ends without teardown: SIGKILL, a signal before its handlers, or
\* a write that failed.
Die(s) ==
  /\ s \in Running
  /\ stage' = [stage EXCEPT ![s] = "died"]
  /\ opened' = opened \ {s}
  /\ UNCHANGED <<idfile, latest, closer>>

----------------------------------------------------------------------------
(* `tnls close`: read a pidfile, then signal the pid it names *)

\* Mutant: whatever the first line holds is taken for a pid.
PidUnparsed(content) == TRUE
HasPid(content) == content \in Sessions

\* The file is absent, empty, or names a pid.
Read(k, id, content) ==
  /\ closer[k].state = "new"
  /\ closer' = [closer EXCEPT ![k] =
       IF HasPid(content) THEN [state |-> "found",  id |-> id, pid |-> content]
                          ELSE [state |-> "failed", id |-> id, pid |-> NoSession]]
  /\ UNCHANGED <<idfile, latest, opened, stage>>

ReadLatest(k) == Read(k, NoSession, latest)
ReadId(k, s)  == Read(k, s, idfile[s])

\* A live process gets SIGTERM; a dead one is an error.
Signal(k) ==
  /\ closer[k].state = "found"
  /\ closer' = [closer EXCEPT ![k].state =
                  IF closer[k].pid \in Running THEN "done" ELSE "failed"]
  /\ UNCHANGED <<idfile, latest, opened, stage>>

Quiescent ==
  /\ Running = {}
  /\ \A k \in Closers : closer[k].state \in {"failed", "done"}
  /\ UNCHANGED vars

Open(s)   == CreateId(s) \/ FillId(s) \/ TruncateLatest(s) \/ FillLatest(s)
Remove(s) == RemoveId(s) \/ CheckLatest(s) \/ RemoveLatest(s)

Next ==
  \/ \E s \in Sessions : Open(s) \/ Close(s) \/ Remove(s) \/ Die(s)
  \/ \E k \in Closers : ReadLatest(k) \/ Signal(k) \/ \E s \in Sessions : ReadId(k, s)
  \/ Quiescent

Spec == Init /\ [][Next]_vars
----------------------------------------------------------------------------
TypeOK ==
  /\ idfile \in [Sessions -> Content]
  /\ latest \in Content
  /\ opened \subseteq Sessions
  /\ stage \in [Sessions -> Stages]
  /\ closer \in [Closers -> [state : {"new", "found", "failed", "done"},
                             id : Sessions \cup {NoSession},
                             pid : Sessions \cup {NoSession}]]

\* A close that names an open session never fails, and never signals another,
\* whatever other sessions do to the files they share with it.
CloseByIdWorks ==
  [][\A k \in Closers :
       closer'[k] # closer[k] /\ closer'[k].id # NoSession =>
         /\ closer'[k].state = "failed" => stage[closer'[k].id] # "open"
         /\ closer'[k].state = "done" => closer'[k].pid = closer'[k].id]_vars

\* Sessions that end in order leave nothing behind, whatever their order and
\* overlap: no file of theirs, and no latest that still names one of them.
NothingStale ==
  \A s \in Sessions : stage[s] = "gone" => idfile[s] = Absent /\ latest # s
=============================================================================
