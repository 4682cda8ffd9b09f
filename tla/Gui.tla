-------------------------------- MODULE Gui --------------------------------
(***************************************************************************)
(* The desktop window: its two panes (app.rs), the worker behind each, and *)
(* the seeding child of a share (share.rs, bittorrent.rs).                 *)
(*                                                                         *)
(* The window paints frames.  A frame reads the state of each pane once,   *)
(* under its lock, and offers the buttons that go with it; a click in that *)
(* frame acts on what the frame offered, whatever the worker has written   *)
(* since.  A worker writes its pane's state behind the window's back and   *)
(* is told to end through a handle of its own: a Notify, whose permit      *)
(* lasts until it is consumed, or a flag.                                  *)
(*                                                                         *)
(* Session has the agent in full; here a session is what the window sees   *)
(* of it.                                                                  *)
(***************************************************************************)
EXTENDS Naturals, FiniteSets

\* Bounds: how often each button starts a worker, and both together.
CONSTANTS MaxShares, MaxFetches, MaxStarts

ASSUME GuiAssumption == {MaxShares, MaxFetches, MaxStarts} \subseteq Nat

Shares  == 1..MaxShares
Fetches == 1..MaxFetches
None    == 0

VARIABLES
  gui,            \* the process: "open", "closing" (its runtime shuts down), "gone"
  buttons,        \* what the frame on the screen offers
  shareState, shareShutdown,  \* the send pane and the handle it holds
  recvState, recvCancel,      \* the receive pane and the handle it holds
  session, permit, child,     \* of each share: its session, its Notify, its seeding child
  download, cancel            \* of each fetch: its worker and its flag

window == <<gui, buttons>>
send   == <<shareState, shareShutdown>>
recv   == <<recvState, recvCancel>>
share  == <<session, permit, child>>
fetch  == <<download, cancel>>
vars   == <<window, send, recv, share, fetch>>

Shows(s)  == [is |-> s, link |-> None]
Active(w) == [is |-> "Active", link |-> w]

ShareBusy(s) == s.is \in {"Active", "Starting"}
RecvBusy(s)  == s \in {"Resolving", "Fetching"}

\* Mutant: Share is greyed out only once the link is there.
NotActive  == shareState.is # "Active"
ShareReady == ~ShareBusy(shareState)

\* The buttons that go with the state of a pane.
ShareButtons == {b \in {"Share"} : ShareReady} \cup {b \in {"Stop"} : shareState.is = "Active"}
RecvButtons  == {b \in {"Fetch"} : ~RecvBusy(recvState)}
                  \cup {b \in {"Cancel"} : recvState = "Fetching"}
Offered == ShareButtons \cup RecvButtons

Init ==
  /\ gui = "open" /\ buttons = {}
  /\ shareState = Shows("Idle") /\ shareShutdown = None
  /\ recvState = "Idle" /\ recvCancel = None
  /\ session = [w \in Shares |-> "new"]
  /\ permit = [w \in Shares |-> FALSE]
  /\ child = [w \in Shares |-> "none"]
  /\ download = [d \in Fetches |-> "new"]
  /\ cancel = [d \in Fetches |-> FALSE]

Started(f) == {i \in DOMAIN f : f[i] # "new"}
Starts == Cardinality(Started(session)) + Cardinality(Started(download))
\* The next worker of a pane, within the bounds.
Unused(f) == {i \in DOMAIN f : i = Cardinality(Started(f)) + 1 /\ Starts < MaxStarts}

Move(w, s) == session' = [session EXCEPT ![w] = s]
Go(d, s)   == download' = [download EXCEPT ![d] = s]

----------------------------------------------------------------------------
(* The frame loop *)

Paint ==
  /\ gui = "open"
  /\ buttons' = Offered
  /\ UNCHANGED <<gui, send, recv, share, fetch>>

Press(b) == gui = "open" /\ b \in buttons /\ buttons' = {} /\ UNCHANGED gui

\* No binary, no file or a TTL that does not parse.
RejectShare ==
  /\ Press("Share")
  /\ shareState' = Shows("Failed")
  /\ UNCHANGED <<shareShutdown, recv, share, fetch>>

\* Mutant: a handle the pane still holds is used again.
StartShareWithOldHandle(w) ==
  /\ Press("Share") /\ w \in Unused(session)
  /\ shareState' = Shows("Starting")
  /\ shareShutdown' = IF shareShutdown = None THEN w ELSE shareShutdown
  /\ Move(w, "opening")
  /\ UNCHANGED <<recv, permit, child, fetch>>

StartShare(w) ==
  /\ Press("Share") /\ w \in Unused(session)
  /\ shareState' = Shows("Starting")
  /\ shareShutdown' = w
  /\ Move(w, "opening")
  /\ UNCHANGED <<recv, permit, child, fetch>>

\* Mutant: notify_waiters, which nobody hears who is not waiting.
NotifyWaiters ==
  /\ permit' = [w \in Shares |-> permit[w] \/ (w = shareShutdown /\ session[w] = "live")]
  /\ shareShutdown' = None

\* notify_one of the handle, if it is still there, which is given up.
Notify ==
  /\ permit' = [w \in Shares |-> permit[w] \/ w = shareShutdown]
  /\ shareShutdown' = None

StopShare ==
  /\ Press("Stop") /\ Notify
  /\ UNCHANGED <<shareState, recv, session, child, fetch>>

RejectFetch ==
  /\ Press("Fetch")
  /\ recvState' = "Failed"
  /\ UNCHANGED <<recvCancel, send, share, fetch>>

StartGet(d) ==
  /\ Press("Fetch") /\ d \in Unused(download)
  /\ recvState' = "Resolving"
  /\ recvCancel' = d
  /\ Go(d, "resolving")
  /\ UNCHANGED <<send, share, cancel>>

SetFlag ==
  /\ cancel' = [d \in Fetches |-> cancel[d] \/ d = recvCancel]
  /\ recvCancel' = None

CancelGet ==
  /\ Press("Cancel") /\ SetFlag
  /\ UNCHANGED <<recvState, send, share, download>>

\* App::drop, which shuts the runtime down after it has told both workers.
CloseWindow ==
  /\ gui = "open" /\ gui' = "closing" /\ buttons' = {}
  /\ Notify /\ SetFlag
  /\ UNCHANGED <<shareState, recvState, session, child, download>>

\* The process ends: of its own after App::drop, or killed.
Exit ==
  /\ gui # "gone" /\ gui' = "gone" /\ buttons' = {}
  /\ UNCHANGED <<send, recv, share, fetch>>

Frame ==
  \/ Paint \/ RejectShare \/ StopShare \/ RejectFetch \/ CancelGet
  \/ \E w \in Shares : StartShare(w)
  \/ \E d \in Fetches : StartGet(d)

----------------------------------------------------------------------------
(* The worker of a share: session::open and what follows it *)

Spawn(w) ==
  /\ session[w] = "opening" /\ child[w] = "none"
  /\ child' = [child EXCEPT ![w] = "preparing"]
  /\ UNCHANGED <<send, session, permit>>

\* The child has shaken hands, the relay is dialled: the link is shown.
OnLink(w) ==
  /\ session[w] = "opening" /\ child[w] = "serving" /\ Move(w, "live")
  /\ shareState' = Active(w)
  /\ UNCHANGED <<shareShutdown, permit, child>>

OpenFails(w) ==
  /\ session[w] = "opening" /\ Move(w, "failed")
  /\ UNCHANGED <<send, permit, child>>

\* A viewer's call occupies the loop until the child answers it.
CallStarts(w)  == session[w] = "live" /\ Move(w, "busy") /\ UNCHANGED <<send, permit, child>>
CallReturns(w) == session[w] = "busy" /\ Move(w, "live") /\ UNCHANGED <<send, permit, child>>

OnShutdown(w) ==
  /\ session[w] = "live" /\ permit[w] /\ Move(w, "closing")
  /\ permit' = [permit EXCEPT ![w] = FALSE]
  /\ UNCHANGED <<send, child>>

\* TTL, a bad Hello or a relay that is gone.
EndsItself(w) == session[w] = "live" /\ Move(w, "closing") /\ UNCHANGED <<send, permit, child>>

\* Report, kill, remove the pidfile, return.
Teardown(w) == session[w] = "closing" /\ Move(w, "closed") /\ UNCHANGED <<send, permit, child>>

\* Mutant: the variant alone is replaced.
StoppedKeepsLink == [shareState EXCEPT !.is = "Stopped"]
Stopped == IF shareState.is = "Failed" THEN shareState ELSE Shows("Stopped")

Settle(w) ==
  /\ session[w] \in {"closed", "failed"} /\ Move(w, "over")
  /\ shareState' = IF session[w] = "failed" THEN Shows("Failed") ELSE Stopped
  /\ UNCHANGED <<shareShutdown, permit, child>>

\* The runtime drops a task where it awaits.
Cut(w) ==
  /\ gui = "closing" /\ session[w] \in {"opening", "live", "busy", "closing"}
  /\ Move(w, "cut")
  /\ UNCHANGED <<send, permit, child>>

ShareStep(w) ==
  /\ gui # "gone"
  /\ \/ Spawn(w) \/ OnLink(w) \/ OpenFails(w) \/ CallStarts(w) \/ CallReturns(w)
     \/ OnShutdown(w) \/ EndsItself(w) \/ Teardown(w) \/ Settle(w) \/ Cut(w)
  /\ UNCHANGED <<window, recv, fetch>>

----------------------------------------------------------------------------
(* The child: run_share, a process of its own *)

ChildUp(w) == child[w] \in {"preparing", "seeding", "serving"}

\* Its host has let go of it.
Released(w) == session[w] \in {"closed", "failed", "over", "cut"}
StdinClosed(w) == Released(w) \/ gui = "gone"

\* The torrent is made, a port chosen, peers gathered with the help of the relay,
\* the session seeds.  Until then nothing reads the standard input.
Seed(w) == child[w] = "preparing" /\ child' = [child EXCEPT ![w] = "seeding"]

\* serve: the host says initialize and lists the tools.
Serve(w) ==
  /\ child[w] = "seeding" /\ session[w] = "opening" /\ gui # "gone"
  /\ child' = [child EXCEPT ![w] = "serving"]

\* Mutant: it waits for good, like seed_cmd, once it serves.
StdinEndsUnserved(w) == child[w] = "seeding" /\ StdinClosed(w)
\* serve or waiting returns, and the seeder is dropped with the server.
StdinEnds(w) == child[w] \in {"seeding", "serving"} /\ StdinClosed(w)

KilledOnDrop(w) == ChildUp(w) /\ Released(w) /\ gui # "gone"

ChildEnds(w) ==
  /\ StdinEnds(w) \/ KilledOnDrop(w)
  /\ child' = [child EXCEPT ![w] = "down"]

\* A file that cannot be read, a port taken meanwhile, a crash.
ChildFails(w) == ChildUp(w) /\ child' = [child EXCEPT ![w] = "down"]

ChildStep(w) ==
  /\ Seed(w) \/ Serve(w) \/ ChildEnds(w) \/ ChildFails(w)
  /\ UNCHANGED <<window, send, recv, session, permit, fetch>>

----------------------------------------------------------------------------
(* The worker of a fetch *)

\* retrieve_magnet has answered and the directory is there.
Resolve(d) == download[d] = "resolving" /\ Go(d, "joining") /\ UNCHANGED <<recv, cancel>>

Join(d) == download[d] = "joining" /\ Go(d, "polling") /\ UNCHANGED <<recv, cancel>>

FetchFails(d) ==
  /\ download[d] \in {"resolving", "joining"} /\ Go(d, "over")
  /\ recvState' = "Failed"
  /\ UNCHANGED <<recvCancel, cancel>>

\* Mutant: the flag is looked at before the loop only.
HeedsOnce(d) == cancel[d] /\ recvState = "Resolving"
Heeds(d) == cancel[d]

SeesCancel(d) ==
  /\ download[d] = "polling" /\ Heeds(d) /\ Go(d, "leaving")
  /\ recvState' = "Idle"
  /\ UNCHANGED <<recvCancel, cancel>>

\* The flag was not up; it may go up before the progress is shown.
GoesOn(d) == download[d] = "polling" /\ ~Heeds(d) /\ Go(d, "reading") /\ UNCHANGED <<recv, cancel>>

\* The torrent may have finished by now.
ShowsProgress(d) ==
  /\ download[d] = "reading"
  /\ \/ recvState' = "Done" /\ Go(d, "leaving")
     \/ recvState' = "Fetching" /\ Go(d, "polling")
  /\ UNCHANGED <<recvCancel, cancel>>

\* The handle of the torrent is dropped.
Drop(d) == download[d] = "leaving" /\ Go(d, "over") /\ UNCHANGED <<recv, cancel>>

CutFetch(d) ==
  /\ gui = "closing" /\ download[d] \in {"resolving", "joining", "polling"}
  /\ Go(d, "cut")
  /\ UNCHANGED <<recv, cancel>>

Poll(d) == SeesCancel(d) \/ GoesOn(d) \/ ShowsProgress(d) \/ Drop(d)

FetchStep(d) ==
  /\ gui # "gone"
  /\ Resolve(d) \/ Join(d) \/ FetchFails(d) \/ Poll(d) \/ CutFetch(d)
  /\ UNCHANGED <<window, send, share>>

----------------------------------------------------------------------------
Next ==
  \/ Frame \/ CloseWindow \/ Exit
  \/ \E w \in Shares : ShareStep(w) \/ ChildStep(w)
  \/ \E d \in Fetches : FetchStep(d)

Spec == Init /\ [][Next]_vars

\* Workers run and the window, once closed, is gone within its bound; the share's
\* tools answer at once (server.rs), and select! picks among ready branches at
\* random.  Nothing is fair about the user, the network or the torrent, hence
\* not Seed: it asks the relay's /whoami for an address, without a timeout.
Fairness ==
  /\ WF_vars(\E w \in Shares : ShareStep(w) /\ (CallReturns(w) \/ Teardown(w) \/ Settle(w)))
  /\ SF_vars(\E w \in Shares : ShareStep(w) /\ OnShutdown(w))
  /\ WF_vars(\E w \in Shares : ChildStep(w) /\ ChildEnds(w))
  /\ \A d \in Fetches : WF_vars(FetchStep(d) /\ Poll(d))
  /\ WF_vars(gui = "closing" /\ Exit)

LiveSpec == Spec /\ Fairness
----------------------------------------------------------------------------
TypeOK ==
  /\ gui \in {"open", "closing", "gone"}
  /\ buttons \subseteq {"Share", "Stop", "Fetch", "Cancel"}
  /\ shareState \in {Shows(s) : s \in {"Idle", "Starting", "Stopped", "Failed"}}
                    \cup {Active(w) : w \in Shares}
  /\ recvState \in {"Idle", "Resolving", "Fetching", "Done", "Failed"}
  /\ shareShutdown \in Shares \cup {None} /\ recvCancel \in Fetches \cup {None}
  /\ session \in [Shares -> {"new", "opening", "live", "busy", "closing",
                             "closed", "failed", "over", "cut"}]
  /\ child \in [Shares -> {"none", "preparing", "seeding", "serving", "down"}]
  /\ download \in [Fetches -> {"new", "resolving", "joining", "polling", "reading",
                               "leaving", "over", "cut"}]
  /\ permit \in [Shares -> BOOLEAN]
  /\ cancel \in [Fetches -> BOOLEAN]

Sharing  == {w \in Shares : session[w] \notin {"new", "over", "cut"}}
Fetching == {d \in Fetches : download[d] \notin {"new", "leaving", "over", "cut"}}

\* A pane shows work in progress exactly while one worker is behind it that will
\* still write its state: no click, however stale its frame, starts a second one
\* that would overwrite the first, "Stopped - the link is dead" is never shown
\* over a live link (app.rs:368), and no pane is left busy with nobody behind it.
BusyIffWorked ==
  gui = "open" =>
    /\ Cardinality(Sharing) = IF ShareBusy(shareState) THEN 1 ELSE 0
    /\ Cardinality(Fetching) = IF RecvBusy(recvState) THEN 1 ELSE 0

\* Whatever ended before it, and however: a session or a download that runs has
\* its own handle held by the pane, so that Stop, Cancel and the closing window
\* reach it and no earlier one, or it has been told already.
AlwaysStoppable ==
  gui = "open" =>
    /\ \A w \in Shares : session[w] \in {"opening", "live", "busy"}
                           => shareShutdown = w \/ permit[w]
    /\ \A d \in Fetching : recvCancel = d \/ cancel[d]

\* Stop takes effect although it may be pressed while a call runs, or when the
\* session has begun to end of its own: a session whose handle the pane has given
\* up ends, and the pane says so.
StopEnds ==
  \A w \in Shares :
    session[w] # "new" /\ shareShutdown # w
      ~> gui # "open" \/ (session[w] = "over" /\ shareState # Active(w))

\* Cancel takes effect whatever the torrent does meanwhile, and it is dropped.
CancelEnds ==
  \A d \in Fetches :
    download[d] # "new" /\ recvCancel # d ~> gui # "open" \/ download[d] = "over"

\* The child of a share that has ended or failed, or has lost its window, ends,
\* whether the window was closed, killed or has crashed, and whatever the child
\* was doing, except that nobody ends one that still prepares when the process
\* of the window is gone: no seeding goes on unless its share does.
SeedingEnds ==
  \A w \in Shares :
    StdinClosed(w) ~> ~ChildUp(w) \/ (gui = "gone" /\ child[w] = "preparing")
=============================================================================
