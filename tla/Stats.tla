------------------------------- MODULE Stats -------------------------------
(***************************************************************************)
(* The relay's traffic counters (stats.rs) with the routes that move them  *)
(* and the flush task (lib.rs), over the life of several relay processes   *)
(* that share one STATS_PATH, and the usage reports that agents send when  *)
(* their sessions end (report_usage of session.rs).                        *)
(*                                                                         *)
(* Every operation holds the mutex from end to end, flush too while it     *)
(* writes; the write itself empties the file before it fills it, and the   *)
(* process may die in between.                                             *)
(***************************************************************************)
EXTENDS Naturals, FiniteSets, FiniteSetsExt

CONSTANTS Visitors,   \* client addresses
          Agents,     \* sessions that end
          Usage,      \* their SessionCounts
          Path,       \* whether STATS_PATH is set
          MaxEvents,  \* bound: requests counted
          MaxStarts   \* bound: relay processes, one after the other

Counters == {"page_views", "tunnel_links_opened", "tunnels_opened", "frames_relayed",
             "tool_calls", "out_of_scope_blocks"}

ASSUME StatsAssumption ==
  /\ Usage \in [Agents -> [calls : Nat, blocks : Nat]]
  /\ Path \in BOOLEAN
  /\ MaxEvents \in Nat /\ MaxStarts \in Nat

VARIABLES up,      \* a relay process runs
          starts,  \* how many have; each draws a salt of its own
          inner,   \* its counters
          file,    \* whether it is "absent", "torn" or "whole", and what it holds then
          flusher, \* the flush task: "sleeping", "writing" or, in a mutant, "ended"
          report,  \* of each agent: "none", "sent", or "settled": read or lost
          truth,   \* history: what really happened, over all processes
          seen,    \* history: the visitors there have been
          saved    \* history: what the last completed flush wrote, while it counts

vars == <<up, starts, inner, file, flusher, report, truth, seen, saved>>

Zero == [c \in Counters |-> 0]
Fresh(salt) == [salt |-> salt, n |-> Zero, unique |-> {}]
Add(n, c, k) == [n EXCEPT ![c] = @ + k]
\* Mutant: the address itself is kept.
RawIp(ip, salt)  == ip
HashIp(ip, salt) == <<ip, salt>>
Without(is) == [is |-> is, holds |-> Fresh(0)]

Init ==
  /\ up = FALSE /\ starts = 0 /\ inner = Fresh(0)
  /\ file = Without("absent") /\ flusher = "sleeping"
  /\ report = [a \in Agents |-> "none"]
  /\ truth = Zero /\ seen = {} /\ saved = Fresh(0)

----------------------------------------------------------------------------
(* Start and end of a relay process *)

Whole == file.is = "whole"

\* Mutant: the salt drawn at the start replaces the one in the file.
LoadedResalted == IF Whole THEN [file.holds EXCEPT !.salt = starts'] ELSE Fresh(starts')
\* Mutant: the set of uniques is not part of what is persisted.
LoadedWithoutSet == IF Whole THEN [file.holds EXCEPT !.unique = {}] ELSE Fresh(starts')
Loaded == IF Whole THEN file.holds ELSE Fresh(starts')

Start ==
  /\ ~up /\ starts < MaxStarts
  /\ up' = TRUE /\ starts' = starts + 1
  /\ inner' = Loaded /\ flusher' = "sleeping"
  /\ UNCHANGED <<file, report, truth, seen, saved>>

\* Whether killed or stopped in order: nothing is flushed on the way out.  What
\* was saved is gone when the file is torn at this point.
Stop ==
  /\ up /\ up' = FALSE
  /\ saved' = IF file.is = "torn" THEN Fresh(0) ELSE saved
  /\ UNCHANGED <<starts, inner, file, flusher, report, truth, seen>>

----------------------------------------------------------------------------
(* Requests.  The mutex is free unless the flush is writing. *)

Free == up /\ flusher # "writing"

Counted(n) == inner' = [inner EXCEPT !.n = n]
Happened == FoldSet(LAMBDA c, sum : sum + truth[c], 0, Counters \ {"tool_calls", "out_of_scope_blocks"})

\* The landing page and the page of the plugin.
PageView(ip) ==
  /\ Free /\ Happened < MaxEvents
  /\ inner' = [inner EXCEPT !.n = Add(@, "page_views", 1),
                            !.unique = @ \cup {HashIp(ip, inner.salt)}]
  /\ truth' = Add(truth, "page_views", 1)
  /\ seen' = seen \cup {ip}
  /\ UNCHANGED <<up, starts, file, flusher, report, saved>>

\* A viewer page, an agent that has registered, a frame read by run_side.
Bump(c) ==
  /\ Free /\ Happened < MaxEvents
  /\ Counted(Add(inner.n, c, 1))
  /\ truth' = Add(truth, c, 1)
  /\ UNCHANGED <<up, starts, file, flusher, report, seen, saved>>

Used(n, a) == Add(Add(n, "tool_calls", Usage[a].calls), "out_of_scope_blocks", Usage[a].blocks)

\* A session that counted nothing reports nothing.
SendReport(a) ==
  /\ report[a] = "none" /\ Usage[a].calls + Usage[a].blocks > 0
  /\ report' = [report EXCEPT ![a] = "sent"]
  /\ truth' = Used(truth, a)
  /\ UNCHANGED <<up, starts, inner, file, flusher, seen, saved>>

\* Mutant: the agent sends again what it has no answer to.
ReadAndResent(a) ==
  /\ Free /\ report[a] = "sent" /\ inner.n["tool_calls"] <= truth["tool_calls"]
  /\ Counted(Used(inner.n, a))
  /\ UNCHANGED <<up, starts, report, file, flusher, truth, seen, saved>>

ReadReport(a) ==
  /\ Free /\ report[a] = "sent"
  /\ Counted(Used(inner.n, a))
  /\ report' = [report EXCEPT ![a] = "settled"]
  /\ UNCHANGED <<up, starts, file, flusher, truth, seen, saved>>

\* No relay to connect to, three seconds are over, or the relay dies with it.
LoseReport(a) ==
  /\ report[a] = "sent"
  /\ report' = [report EXCEPT ![a] = "settled"]
  /\ UNCHANGED <<up, starts, inner, file, flusher, truth, seen, saved>>

Request ==
  \/ \E ip \in Visitors : PageView(ip)
  \/ \E c \in {"tunnel_links_opened", "tunnels_opened", "frames_relayed"} : Bump(c)
  \/ \E a \in Agents : SendReport(a) \/ ReadReport(a) \/ LoseReport(a)

----------------------------------------------------------------------------
(* The flush task, every ten seconds *)

\* fs::write opens the file with truncation.
BeginFlush ==
  /\ Free /\ Path /\ flusher = "sleeping"
  /\ flusher' = "writing" /\ file' = Without("torn")
  /\ UNCHANGED <<up, starts, inner, report, truth, seen, saved>>

EndFlush ==
  /\ up /\ flusher = "writing"
  /\ flusher' = "sleeping" /\ file' = [is |-> "whole", holds |-> inner] /\ saved' = inner
  /\ UNCHANGED <<up, starts, inner, report, truth, seen>>

\* Mutant: an error ends the task.
GivesUp == "ended"
GoesOn  == "sleeping"

\* An error is ignored; what the file had is gone.
FlushFails ==
  /\ up /\ flusher = "writing"
  /\ flusher' = GoesOn
  /\ UNCHANGED <<up, starts, inner, file, report, truth, seen, saved>>

Flush == BeginFlush \/ EndFlush \/ FlushFails

Next == Start \/ Stop \/ Request \/ Flush
Spec == Init /\ [][Next]_vars

\* The flush task is scheduled, and not every write of it fails.
LiveSpec == Spec /\ SF_vars(BeginFlush) /\ SF_vars(EndFlush)
----------------------------------------------------------------------------
Inner == [salt : 0..MaxStarts, n : [Counters -> Nat],
          unique : SUBSET (Visitors \X (0..MaxStarts))]

TypeOK ==
  /\ up \in BOOLEAN
  /\ starts \in 0..MaxStarts
  /\ inner \in Inner /\ saved \in Inner
  /\ file \in [is : {"absent", "torn", "whole"}, holds : Inner]
  /\ flusher \in {"sleeping", "writing"}
  /\ report \in [Agents -> {"none", "sent", "settled"}]
  /\ truth \in [Counters -> Nat]
  /\ seen \subseteq Visitors

\* What /stats.json shows is never more than what happened, through any number
\* of restarts, torn files and reports whose relay dies: no request and no report
\* is counted twice.
NeverOvercounts == up => \A c \in Counters : inner.n[c] <= truth[c]

\* A visitor who comes back after a restart is hashed with the salt that goes
\* with the set, and not taken for another.
VisitorsOnce == up => Cardinality(inner.unique) <= Cardinality(seen)

\* Restart-durable (analytics-design.md:39), short of a process that dies while
\* the file is torn: all that a completed flush has written is still counted.
RestartDurable ==
  up => /\ \A c \in Counters : saved.n[c] <= inner.n[c]
        /\ saved.unique \subseteq inner.unique

\* A relay that goes on running gets what it has counted onto the disk, also
\* after writes that failed.
FlushCatchesUp ==
  \A k \in 1..MaxEvents :
    Path /\ up /\ inner.n["page_views"] >= k ~> ~up \/ saved.n["page_views"] >= k
=============================================================================
