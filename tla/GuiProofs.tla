----------------------------- MODULE GuiProofs -----------------------------
(***************************************************************************)
(* TypeOK, BusyIffWorked and AlwaysStoppable of Gui, for any number of     *)
(* shares and fetches.                                                     *)
(*                                                                         *)
(* The two invariants hold together or not at all.  That a click starts no *)
(* second worker needs that a frame which offers Share or Fetch was        *)
(* painted when the pane was idle and is still the last word: only such a  *)
(* click makes the pane busy, and it takes the frame's buttons with it.    *)
(* That the pane holds the handle of the worker that runs needs that no    *)
(* other runs when a click replaces the handle.                            *)
(***************************************************************************)
EXTENDS Gui, FiniteSetTheorems, TLAPS

\* At most one worker is behind a pane, the pane is busy exactly while one is,
\* and a button that starts one is offered only while none is.
SendSide ==
  /\ \A v, w \in Sharing : v = w
  /\ ShareBusy(shareState) <=> Sharing # {}
  /\ "Share" \in buttons => Sharing = {}

RecvSide ==
  /\ \A d, e \in Fetching : d = e
  /\ RecvBusy(recvState) <=> Fetching # {}
  /\ "Fetch" \in buttons => Fetching = {}

PaneInv == (gui = "open" => SendSide /\ RecvSide) /\ AlwaysStoppable

----------------------------------------------------------------------------
(***************************************************************************)
(* Types.                                                                  *)
(***************************************************************************)

THEOREM TypeInit == Init => TypeOK
  BY GuiAssumption DEF Init, TypeOK, Shares, Fetches, None, Shows, Active

LEMMA TypeFrame == TypeOK /\ (Frame \/ CloseWindow \/ Exit) => TypeOK'
  <1> SUFFICES ASSUME TypeOK, Frame \/ CloseWindow \/ Exit PROVE TypeOK'
    OBVIOUS
  <1> USE DEF TypeOK, None, Shows, Active, window, send, recv, share, fetch
  <1>1. CASE Paint
    BY <1>1 DEF Paint, Offered, ShareButtons, RecvButtons
  <1>2. CASE RejectShare
    BY <1>2 DEF RejectShare, Press
  <1>3. CASE StopShare
    BY <1>3 DEF StopShare, Press, Notify
  <1>4. CASE RejectFetch
    BY <1>4 DEF RejectFetch, Press
  <1>5. CASE CancelGet
    BY <1>5 DEF CancelGet, Press, SetFlag
  <1>6. ASSUME NEW w \in Shares, StartShare(w) PROVE TypeOK'
    BY <1>6 DEF StartShare, Press, Move
  <1>7. ASSUME NEW d \in Fetches, StartGet(d) PROVE TypeOK'
    BY <1>7 DEF StartGet, Press, Go
  <1>8. CASE CloseWindow
    BY <1>8 DEF CloseWindow, Notify, SetFlag
  <1>9. CASE Exit
    BY <1>9 DEF Exit
  <1> QED
    BY <1>1, <1>2, <1>3, <1>4, <1>5, <1>6, <1>7, <1>8, <1>9 DEF Frame

LEMMA TypeShare ==
  ASSUME TypeOK, NEW w \in Shares, ShareStep(w)
  PROVE  TypeOK'
  <1> USE DEF TypeOK, None, Shows, Active, window, send, recv, share, fetch, ShareStep, Move
  <1>1. CASE Spawn(w) \/ OnLink(w) \/ OpenFails(w)
    BY <1>1 DEF Spawn, OnLink, OpenFails
  <1>2. CASE CallStarts(w) \/ CallReturns(w) \/ EndsItself(w)
    BY <1>2 DEF CallStarts, CallReturns, EndsItself
  <1>3. CASE OnShutdown(w) \/ Teardown(w) \/ Cut(w)
    BY <1>3 DEF OnShutdown, Teardown, Cut
  <1>4. CASE Settle(w)
    BY <1>4 DEF Settle, Stopped
  <1> QED
    BY <1>1, <1>2, <1>3, <1>4

LEMMA TypeChild ==
  ASSUME TypeOK, NEW w \in Shares, ChildStep(w)
  PROVE  TypeOK'
  BY DEF TypeOK, ChildStep, Seed, Serve, ChildEnds, ChildFails,
         window, send, recv, share, fetch

LEMMA TypeFetch ==
  ASSUME TypeOK, NEW d \in Fetches, FetchStep(d)
  PROVE  TypeOK'
  <1> USE DEF TypeOK, window, send, recv, share, fetch, FetchStep, Go
  <1>1. CASE Resolve(d) \/ Join(d) \/ FetchFails(d) \/ CutFetch(d)
    BY <1>1 DEF Resolve, Join, FetchFails, CutFetch
  <1>2. CASE Poll(d)
    BY <1>2 DEF Poll, SeesCancel, GoesOn, ShowsProgress, Drop
  <1> QED
    BY <1>1, <1>2

LEMMA TypeStep == TypeOK /\ [Next]_vars => TypeOK'
  <1>1. ASSUME TypeOK, UNCHANGED vars PROVE TypeOK'
    BY <1>1 DEF TypeOK, vars, window, send, recv, share, fetch
  <1> QED
    BY <1>1, TypeFrame, TypeShare, TypeChild, TypeFetch DEF Next

\* Every state the window reaches is well typed.
THEOREM TypeCorrect == Spec => []TypeOK
  BY TypeInit, TypeStep, PTL DEF Spec

----------------------------------------------------------------------------
(***************************************************************************)
(* The panes.  A step of the send pane and a step of the receive pane do   *)
(* not meet: each lemma is about what one of them does to all of PaneInv.  *)
(***************************************************************************)

LEMMA PaneInit == Init => PaneInv
  BY DEF Init, PaneInv, SendSide, RecvSide, AlwaysStoppable, Sharing, Fetching,
         ShareBusy, RecvBusy, Shows, None

LEMMA FrameKeeps ==
  ASSUME TypeOK, PaneInv, Frame \/ CloseWindow \/ Exit
  PROVE  PaneInv'
  <1> USE DEF PaneInv, SendSide, RecvSide, AlwaysStoppable, Sharing, Fetching,
              window, send, recv, share, fetch
  <1>1. CASE Paint
    BY <1>1 DEF Paint, Offered, ShareButtons, RecvButtons, ShareReady
  <1>2. CASE RejectShare
    BY <1>2 DEF RejectShare, Press, ShareBusy, Shows
  <1>3. CASE StopShare
    <2>1. \A w \in Shares : shareShutdown = w \/ permit[w] => permit'[w]
      BY <1>3 DEF StopShare, Notify
    <2> QED
      BY <1>3, <2>1 DEF StopShare, Press
  <1>4. CASE RejectFetch
    BY <1>4 DEF RejectFetch, Press, RecvBusy
  <1>5. CASE CancelGet
    <2>1. \A d \in Fetches : recvCancel = d \/ cancel[d] => cancel'[d]
      BY <1>5 DEF CancelGet, SetFlag
    <2> QED
      BY <1>5, <2>1 DEF CancelGet, Press
  <1>6. ASSUME NEW w \in Shares, StartShare(w) PROVE PaneInv'
    BY <1>6 DEF StartShare, Press, Move, TypeOK, ShareBusy, Shows
  <1>7. ASSUME NEW d \in Fetches, StartGet(d) PROVE PaneInv'
    BY <1>7 DEF StartGet, Press, Go, TypeOK, RecvBusy
  <1>8. CASE CloseWindow
    BY <1>8 DEF CloseWindow
  <1>9. CASE Exit
    BY <1>9 DEF Exit
  <1> QED
    BY <1>1, <1>2, <1>3, <1>4, <1>5, <1>6, <1>7, <1>8, <1>9 DEF Frame

LEMMA ShareKeeps ==
  ASSUME TypeOK, PaneInv, NEW w \in Shares, ShareStep(w)
  PROVE  PaneInv'
  <1> USE DEF TypeOK, PaneInv, SendSide, RecvSide, AlwaysStoppable, Sharing, Fetching,
              window, recv, fetch, ShareStep, Move
  <1>1. CASE Spawn(w)
    BY <1>1 DEF Spawn, send
  <1>2. CASE OnLink(w)
    BY <1>2 DEF OnLink, ShareBusy, Active
  <1>3. CASE OpenFails(w) \/ CallStarts(w) \/ CallReturns(w) \/ EndsItself(w)
    BY <1>3 DEF OpenFails, CallStarts, CallReturns, EndsItself, send
  <1>4. CASE OnShutdown(w) \/ Teardown(w)
    BY <1>4 DEF OnShutdown, Teardown, send
  <1>5. CASE Settle(w)
    BY <1>5 DEF Settle, Stopped, ShareBusy, Shows
  <1>6. CASE Cut(w)
    BY <1>6 DEF Cut
  <1> QED
    BY <1>1, <1>2, <1>3, <1>4, <1>5, <1>6

LEMMA ChildKeeps ==
  ASSUME PaneInv, NEW w \in Shares, ChildStep(w)
  PROVE  PaneInv'
  BY DEF PaneInv, SendSide, RecvSide, AlwaysStoppable, Sharing, Fetching, ChildStep,
         window, send, recv, fetch

LEMMA FetchKeeps ==
  ASSUME TypeOK, PaneInv, NEW d \in Fetches, FetchStep(d)
  PROVE  PaneInv'
  <1> USE DEF TypeOK, PaneInv, SendSide, RecvSide, AlwaysStoppable, Sharing, Fetching,
              window, send, share, FetchStep, Go
  <1>1. CASE Resolve(d) \/ Join(d) \/ GoesOn(d)
    BY <1>1 DEF Resolve, Join, GoesOn, recv
  <1>2. CASE FetchFails(d) \/ SeesCancel(d)
    BY <1>2 DEF FetchFails, SeesCancel, RecvBusy
  <1>3. CASE ShowsProgress(d)
    BY <1>3 DEF ShowsProgress, RecvBusy
  <1>4. CASE Drop(d)
    BY <1>4 DEF Drop, recv
  <1>5. CASE CutFetch(d)
    BY <1>5 DEF CutFetch
  <1> QED
    BY <1>1, <1>2, <1>3, <1>4, <1>5 DEF Poll

LEMMA PaneStep == TypeOK /\ PaneInv /\ [Next]_vars => PaneInv'
  <1>1. ASSUME PaneInv, UNCHANGED vars PROVE PaneInv'
    BY <1>1 DEF vars, window, send, recv, share, fetch, PaneInv, SendSide, RecvSide,
                AlwaysStoppable, Sharing, Fetching
  <1> QED
    BY <1>1, FrameKeeps, ShareKeeps, ChildKeeps, FetchKeeps DEF Next

THEOREM PanesCorrect == Spec => []PaneInv
  BY TypeCorrect, PaneInit, PaneStep, PTL DEF Spec

----------------------------------------------------------------------------
\* A set whose elements are all the same has one element or none.
LEMMA AtMostOne ==
  ASSUME NEW T, \A x, y \in T : x = y
  PROVE  Cardinality(T) = IF T = {} THEN 0 ELSE 1
  <1>1. CASE T = {}
    BY <1>1, FS_EmptySet
  <1>2. ASSUME NEW x \in T PROVE Cardinality(T) = 1
    <2>1. T = {x}
      OBVIOUS
    <2> QED
      BY <2>1, FS_Singleton
  <1> QED
    BY <1>1, <1>2

LEMMA PaneImplies == PaneInv => BusyIffWorked
  <1> SUFFICES ASSUME PaneInv, gui = "open" PROVE BusyIffWorked
    BY DEF BusyIffWorked
  <1>1. /\ Cardinality(Sharing) = IF Sharing = {} THEN 0 ELSE 1
        /\ Cardinality(Fetching) = IF Fetching = {} THEN 0 ELSE 1
    BY AtMostOne DEF PaneInv, SendSide, RecvSide
  <1> QED
    BY <1>1 DEF BusyIffWorked, PaneInv, SendSide, RecvSide

\* While the window is open a pane shows work in progress exactly while one
\* worker is behind it, and never is a second one started.
THEOREM BusyExactly == Spec => []BusyIffWorked
  BY PanesCorrect, PaneImplies, PTL

\* The pane holds the handle of the worker that runs, or that has been told.
THEOREM HandleKept == Spec => []AlwaysStoppable
  <1>1. PaneInv => AlwaysStoppable
    BY DEF PaneInv
  <1> QED
    BY <1>1, PanesCorrect, PTL
=============================================================================
