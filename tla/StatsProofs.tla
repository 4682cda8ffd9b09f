---------------------------- MODULE StatsProofs ----------------------------
(***************************************************************************)
(* TypeOK, RestartDurable, VisitorsOnce and NeverOvercounts of Stats, for  *)
(* any number of visitors, agents, requests and processes.                 *)
(*                                                                         *)
(* RestartDurable speaks of a process that runs, and holds across its end  *)
(* because the file is then whole and is what was saved, or nothing is     *)
(* promised any more.  VisitorsOnce needs the salt that goes with a set of *)
(* hashes, in memory and in the file.  NeverOvercounts needs the reports   *)
(* on their way, counted as a set, and the file, which is read back later. *)
(***************************************************************************)
EXTENDS Stats, FiniteSetTheorems, FunctionTheorems, TLAPS

\* The file that is whole is what was saved; without one nothing is saved that
\* a next process would have to find.
Covers(h) ==
  /\ \A c \in Counters : saved.n[c] <= h.n[c]
  /\ saved.unique \subseteq h.unique

FileSaved ==
  /\ up => Covers(inner)
  /\ file.is = "whole" => saved = file.holds
  /\ file.is = "absent" \/ (~up /\ file.is = "torn") => saved = Fresh(0)

\* Every hash is one of somebody who was there, with the salt beside the set.
Hashed(h) == \A x \in h.unique : \E ip \in seen : x = HashIp(ip, h.salt)
SaltBeside == IsFiniteSet(seen) /\ Hashed(inner) /\ Hashed(file.holds)

----------------------------------------------------------------------------
(***************************************************************************)
(* Facts about the operators.                                              *)
(***************************************************************************)

LEMMA AddGrows ==
  ASSUME NEW n \in [Counters -> Nat], NEW c \in Counters, NEW k \in Nat
  PROVE  /\ Add(n, c, k) \in [Counters -> Nat]
         /\ \A d \in Counters : n[d] <= Add(n, c, k)[d]
  BY DEF Add

LEMMA UsedGrows ==
  ASSUME NEW n \in [Counters -> Nat], NEW a \in Agents
  PROVE  /\ Used(n, a) \in [Counters -> Nat]
         /\ \A d \in Counters : n[d] <= Used(n, a)[d]
  <1>1. Usage[a].calls \in Nat /\ Usage[a].blocks \in Nat
    <2>1. Usage[a] \in [calls : Nat, blocks : Nat]
      BY StatsAssumption
    <2> QED
      BY <2>1
  <1>2. "tool_calls" \in Counters /\ "out_of_scope_blocks" \in Counters
    BY DEF Counters
  <1>3. PICK m : m = Add(n, "tool_calls", Usage[a].calls)
    OBVIOUS
  <1>4. m \in [Counters -> Nat] /\ \A d \in Counters : n[d] <= m[d]
    BY <1>1, <1>2, <1>3, AddGrows
  <1>5. PICK u : u = Add(m, "out_of_scope_blocks", Usage[a].blocks)
    OBVIOUS
  <1>6. u \in [Counters -> Nat] /\ \A d \in Counters : m[d] <= u[d]
    BY <1>1, <1>2, <1>4, <1>5, AddGrows
  <1>7. \A d \in Counters : n[d] \in Nat /\ m[d] \in Nat /\ u[d] \in Nat
    BY <1>4, <1>6
  <1>8. Used(n, a) = u
    BY <1>3, <1>5 DEF Used
  <1> QED
    BY <1>4, <1>6, <1>7, <1>8

LEMMA FreshType ==
  ASSUME NEW s \in 0..MaxStarts
  PROVE  Fresh(s) \in Inner
  BY DEF Fresh, Inner, Zero

LEMMA WithoutType == Without("absent").holds \in Inner /\ Without("torn").holds \in Inner
  BY FreshType, StatsAssumption DEF Without

----------------------------------------------------------------------------
(***************************************************************************)
(* Types.                                                                  *)
(***************************************************************************)

LEMMA TypeInit == Init => TypeOK
  <1>1. Fresh(0) \in Inner
    BY FreshType, StatsAssumption
  <1>2. [is |-> "absent", holds |-> Fresh(0)] \in [is : {"absent", "torn", "whole"}, holds : Inner]
    BY <1>1
  <1>3. Zero \in [Counters -> Nat] /\ 0 \in 0..MaxStarts
    BY StatsAssumption DEF Zero
  <1> QED
    BY <1>1, <1>2, <1>3 DEF Init, TypeOK, Without

LEMMA TypeStep == TypeOK /\ [Next]_vars => TypeOK'
  <1> SUFFICES ASSUME TypeOK, [Next]_vars PROVE TypeOK'
    OBVIOUS
  <1>1. CASE Start
    <2>1. starts' \in 0..MaxStarts
      BY <1>1, StatsAssumption DEF Start, TypeOK
    <2>2. Loaded \in Inner
      BY <2>1, FreshType DEF Loaded, Whole, TypeOK
    <2> QED
      BY <1>1, <2>1, <2>2 DEF Start, TypeOK
  <1>2. CASE Stop
    <2>1. Fresh(0) \in Inner
      BY FreshType, StatsAssumption
    <2> QED
      BY <1>2, <2>1 DEF Stop, TypeOK
  <1>3. ASSUME NEW ip \in Visitors, PageView(ip) PROVE TypeOK'
    <2>1. /\ Add(inner.n, "page_views", 1) \in [Counters -> Nat]
          /\ Add(truth, "page_views", 1) \in [Counters -> Nat]
      BY AddGrows DEF TypeOK, Inner, Counters
    <2>2. HashIp(ip, inner.salt) \in Visitors \X (0..MaxStarts)
      BY DEF HashIp, TypeOK, Inner
    <2>3. inner' \in Inner
      <3> DEFINE h == HashIp(ip, inner.salt)
      <3>1. inner.unique \cup {h} \in SUBSET (Visitors \X (0..MaxStarts))
        BY <2>2 DEF TypeOK, Inner
      <3>2. inner' = [inner EXCEPT !.n = Add(inner.n, "page_views", 1),
                                   !.unique = inner.unique \cup {h}]
        BY <1>3 DEF PageView, TypeOK, Inner
      <3> HIDE DEF h
      <3> QED
        BY <2>1, <3>1, <3>2 DEF TypeOK, Inner
    <2> QED
      BY <1>3, <2>1, <2>3 DEF PageView, TypeOK
  <1>4. ASSUME NEW c \in Counters, Bump(c) PROVE TypeOK'
    <2>1. /\ Add(inner.n, c, 1) \in [Counters -> Nat]
          /\ Add(truth, c, 1) \in [Counters -> Nat]
      BY AddGrows DEF TypeOK, Inner
    <2>2. inner' \in Inner
      BY <1>4, <2>1 DEF Bump, Counted, TypeOK, Inner
    <2> QED
      BY <1>4, <2>1, <2>2 DEF Bump, TypeOK
  <1>5. ASSUME NEW a \in Agents, SendReport(a) PROVE TypeOK'
    <2>1. Used(truth, a) \in [Counters -> Nat]
      BY UsedGrows DEF TypeOK
    <2> QED
      BY <1>5, <2>1 DEF SendReport, TypeOK
  <1>6. ASSUME NEW a \in Agents, ReadReport(a) PROVE TypeOK'
    <2>1. Used(inner.n, a) \in [Counters -> Nat]
      BY UsedGrows DEF TypeOK, Inner
    <2>2. inner' \in Inner
      BY <1>6, <2>1 DEF ReadReport, Counted, TypeOK, Inner
    <2> QED
      BY <1>6, <2>2 DEF ReadReport, TypeOK
  <1>7. ASSUME NEW a \in Agents, LoseReport(a) PROVE TypeOK'
    BY <1>7 DEF LoseReport, TypeOK
  <1>8. CASE BeginFlush
    BY <1>8, WithoutType DEF BeginFlush, TypeOK, Without
  <1>9. CASE EndFlush \/ FlushFails
    BY <1>9 DEF EndFlush, FlushFails, GoesOn, TypeOK
  <1>10. CASE UNCHANGED vars
    BY <1>10 DEF vars, TypeOK
  <1> QED
    BY <1>1, <1>2, <1>3, <1>4, <1>5, <1>6, <1>7, <1>8, <1>9, <1>10
       DEF Next, Request, Flush, Counters

\* Every state the relays and their file reach is well typed.
THEOREM TypeCorrect == Spec => []TypeOK
  BY TypeInit, TypeStep, PTL DEF Spec

----------------------------------------------------------------------------
(***************************************************************************)
(* What has been saved.                                                    *)
(***************************************************************************)

\* What grows goes on covering what was saved.
LEMMA StillCovers ==
  ASSUME TypeOK, Covers(inner), saved' = saved,
         inner'.unique = inner.unique \/ (\E x : inner'.unique = inner.unique \cup {x}),
         inner'.n \in [Counters -> Nat], \A c \in Counters : inner.n[c] <= inner'.n[c]
  PROVE  Covers(inner)'
  <1>1. \A c \in Counters : saved.n[c] \in Nat /\ inner.n[c] \in Nat /\ inner'.n[c] \in Nat
    BY DEF TypeOK, Inner
  <1>2. \A c \in Counters : saved'.n[c] <= inner'.n[c]
    BY <1>1 DEF Covers
  <1>3. saved'.unique \subseteq inner'.unique
    BY DEF Covers
  <1> QED
    BY <1>2, <1>3 DEF Covers

LEMMA SavedInit == Init => FileSaved
  BY DEF Init, FileSaved, Without

LEMMA SavedStep == TypeOK /\ FileSaved /\ [Next]_vars => FileSaved'
  <1> SUFFICES ASSUME TypeOK, FileSaved, [Next]_vars PROVE FileSaved'
    OBVIOUS
  <1>1. CASE Start
    <2>1. CASE Whole
      <3>1. inner' = saved /\ saved' = saved
        BY <1>1, <2>1 DEF Start, Loaded, Whole, FileSaved
      <3>2. \A c \in Counters : saved.n[c] \in Nat
        BY DEF TypeOK, Inner
      <3>3. Covers(inner)'
        BY <3>1, <3>2 DEF Covers
      <3> QED
        BY <1>1, <2>1, <3>3 DEF Start, FileSaved, Whole
    <2>2. CASE ~Whole
      <3>1. saved = Fresh(0) /\ saved' = Fresh(0) /\ inner' = Fresh(starts')
        BY <1>1, <2>2 DEF Start, Loaded, Whole, FileSaved, TypeOK
      <3>2. Covers(inner)'
        BY <3>1 DEF Covers, Fresh, Zero
      <3> QED
        BY <1>1, <2>2, <3>1, <3>2 DEF Start, FileSaved, Whole
    <2> QED
      BY <2>1, <2>2
  <1>2. CASE Stop
    BY <1>2 DEF Stop, FileSaved
  <1>3. ASSUME NEW ip \in Visitors, PageView(ip) PROVE FileSaved'
    <2>1. /\ Add(inner.n, "page_views", 1) \in [Counters -> Nat]
          /\ \A c \in Counters : inner.n[c] <= Add(inner.n, "page_views", 1)[c]
      BY AddGrows DEF TypeOK, Inner, Counters
    <2>2. /\ inner'.n = Add(inner.n, "page_views", 1)
          /\ inner'.unique = inner.unique \cup {HashIp(ip, inner.salt)}
      BY <1>3 DEF PageView, TypeOK, Inner
    <2>3. Covers(inner)'
      BY <1>3, <2>1, <2>2, StillCovers DEF PageView, Free, FileSaved
    <2> QED
      BY <1>3, <2>3 DEF PageView, FileSaved
  <1>4. ASSUME NEW c \in Counters, Bump(c) PROVE FileSaved'
    <2>1. /\ Add(inner.n, c, 1) \in [Counters -> Nat]
          /\ \A d \in Counters : inner.n[d] <= Add(inner.n, c, 1)[d]
      BY AddGrows DEF TypeOK, Inner
    <2>2. inner'.n = Add(inner.n, c, 1) /\ inner'.unique = inner.unique
      BY <1>4 DEF Bump, Counted, TypeOK, Inner
    <2>3. Covers(inner)'
      BY <1>4, <2>1, <2>2, StillCovers DEF Bump, Free, FileSaved
    <2> QED
      BY <1>4, <2>3 DEF Bump, FileSaved
  <1>5. ASSUME NEW a \in Agents, ReadReport(a) PROVE FileSaved'
    <2>1. /\ Used(inner.n, a) \in [Counters -> Nat]
          /\ \A d \in Counters : inner.n[d] <= Used(inner.n, a)[d]
      BY UsedGrows DEF TypeOK, Inner
    <2>2. inner'.n = Used(inner.n, a) /\ inner'.unique = inner.unique
      BY <1>5 DEF ReadReport, Counted, TypeOK, Inner
    <2>3. Covers(inner)'
      BY <1>5, <2>1, <2>2, StillCovers DEF ReadReport, Free, FileSaved
    <2> QED
      BY <1>5, <2>3 DEF ReadReport, FileSaved
  <1>6. ASSUME NEW a \in Agents, SendReport(a) \/ LoseReport(a) PROVE FileSaved'
    BY <1>6 DEF SendReport, LoseReport, FileSaved, Covers
  <1>7. CASE BeginFlush
    BY <1>7 DEF BeginFlush, Free, Without, FileSaved, Covers
  <1>8. CASE EndFlush
    <2>1. \A c \in Counters : inner.n[c] \in Nat
      BY DEF TypeOK, Inner
    <2>2. Covers(inner)'
      BY <1>8, <2>1 DEF EndFlush, Covers
    <2> QED
      BY <1>8, <2>2 DEF EndFlush, FileSaved
  <1>9. CASE FlushFails \/ UNCHANGED vars
    BY <1>9 DEF FlushFails, vars, FileSaved, Covers
  <1> QED
    BY <1>1, <1>2, <1>3, <1>4, <1>5, <1>6, <1>7, <1>8, <1>9
       DEF Next, Request, Flush, Counters

\* What a completed flush has written is still counted, in this process and the
\* next, unless a process ended while the file was torn.
THEOREM SavedStaysCounted == Spec => []RestartDurable
  <1>1. FileSaved => RestartDurable
    BY DEF FileSaved, Covers, RestartDurable
  <1> QED
    BY <1>1, TypeCorrect, SavedInit, SavedStep, PTL DEF Spec

----------------------------------------------------------------------------
(***************************************************************************)
(* Visitors.                                                               *)
(***************************************************************************)

LEMMA SaltInit == Init => SaltBeside
  BY FS_EmptySet DEF Init, SaltBeside, Hashed, Fresh, Without

LEMMA SaltStep == TypeOK /\ SaltBeside /\ [Next]_vars => SaltBeside'
  <1> SUFFICES ASSUME TypeOK, SaltBeside, [Next]_vars PROVE SaltBeside'
    OBVIOUS
  <1>1. CASE Start
    BY <1>1 DEF Start, Loaded, SaltBeside, Hashed, Fresh
  <1>2. CASE Stop
    BY <1>2 DEF Stop, SaltBeside, Hashed
  <1>3. ASSUME NEW ip \in Visitors, PageView(ip) PROVE SaltBeside'
    <2>1. IsFiniteSet(seen')
      BY <1>3, FS_AddElement DEF PageView, SaltBeside
    <2>2. /\ inner'.unique = inner.unique \cup {HashIp(ip, inner.salt)}
          /\ inner'.salt = inner.salt
      BY <1>3 DEF PageView, TypeOK, Inner
    <2>3. Hashed(inner)' /\ Hashed(file.holds)'
      BY <1>3, <2>2 DEF PageView, SaltBeside, Hashed
    <2> QED
      BY <2>1, <2>3 DEF SaltBeside
  <1>4. ASSUME NEW c \in Counters, Bump(c) PROVE SaltBeside'
    BY <1>4 DEF Bump, Counted, SaltBeside, Hashed, TypeOK, Inner
  <1>5. ASSUME NEW a \in Agents, SendReport(a) \/ LoseReport(a) PROVE SaltBeside'
    BY <1>5 DEF SendReport, LoseReport, SaltBeside, Hashed
  <1>6. ASSUME NEW a \in Agents, ReadReport(a) PROVE SaltBeside'
    BY <1>6 DEF ReadReport, Counted, SaltBeside, Hashed, TypeOK, Inner
  <1>7. CASE BeginFlush
    BY <1>7 DEF BeginFlush, Without, Fresh, SaltBeside, Hashed
  <1>8. CASE EndFlush \/ FlushFails
    BY <1>8 DEF EndFlush, FlushFails, SaltBeside, Hashed
  <1>9. CASE UNCHANGED vars
    BY <1>9 DEF vars, SaltBeside, Hashed
  <1> QED
    BY <1>1, <1>2, <1>3, <1>4, <1>5, <1>6, <1>7, <1>8, <1>9
       DEF Next, Request, Flush, Counters

\* Hashes with one salt are no more than those they are of.
LEMMA NoMoreHashes == SaltBeside => Cardinality(inner.unique) <= Cardinality(seen)
  <1> SUFFICES ASSUME SaltBeside PROVE Cardinality(inner.unique) <= Cardinality(seen)
    OBVIOUS
  <1> DEFINE h == [ip \in seen |-> HashIp(ip, inner.salt)]
             T == {h[ip] : ip \in seen}
  <1>1. h \in Surjection(seen, T)
    BY DEF Surjection
  <1>2. inner.unique \in SUBSET T
    BY DEF SaltBeside, Hashed
  <1>3. IsFiniteSet(seen)
    BY DEF SaltBeside
  <1> HIDE DEF h, T
  <1>4. IsFiniteSet(T) /\ Cardinality(T) <= Cardinality(seen)
    BY <1>1, <1>3, FS_Surjection
  <1>5. IsFiniteSet(inner.unique) /\ Cardinality(inner.unique) <= Cardinality(T)
    BY <1>2, <1>4, FS_Subset
  <1>6. /\ Cardinality(inner.unique) \in Nat /\ Cardinality(T) \in Nat
        /\ Cardinality(seen) \in Nat
    BY <1>3, <1>4, <1>5, FS_CardinalityType
  <1> QED
    BY <1>4, <1>5, <1>6

\* Nobody counts as two visitors, before or after any restart.
THEOREM VisitorsCountOnce == Spec => []VisitorsOnce
  <1>1. SaltBeside => VisitorsOnce
    BY NoMoreHashes DEF VisitorsOnce
  <1> QED
    BY <1>1, TypeCorrect, SaltInit, SaltStep, PTL DEF Spec

----------------------------------------------------------------------------
(***************************************************************************)
(* What happened.                                                          *)
(***************************************************************************)

\* What a report adds to a counter, and the units of the reports that are on their
\* way: one pair for each, so that to add them up is to count a set.
Weight(a, c) ==
  IF c = "tool_calls" THEN Usage[a].calls
  ELSE IF c = "out_of_scope_blocks" THEN Usage[a].blocks ELSE 0
Units(a, c)    == {a} \X (1..Weight(a, c))
SentOf(rep, c) == {x \in Agents \X Nat : rep[x[1]] = "sent" /\ x[2] \in 1..Weight(x[1], c)}
Sent(c)        == SentOf(report, c)

\* What is counted and what is on its way is no more than what happened: in memory
\* and in the file, which a later process starts from.
Within(n) == \A c \in Counters : n[c] + Cardinality(Sent(c)) <= truth[c]
Accounted ==
  /\ \A c \in Counters : IsFiniteSet(Sent(c))
  /\ Within(inner.n) /\ Within(file.holds.n)

LEMMA WeightType ==
  ASSUME NEW a \in Agents, NEW c \in Counters
  PROVE  Weight(a, c) \in Nat
  <1>1. Usage[a] \in [calls : Nat, blocks : Nat]
    BY StatsAssumption
  <1> QED
    BY <1>1 DEF Weight

LEMMA UsedIs ==
  ASSUME NEW n \in [Counters -> Nat], NEW a \in Agents, NEW c \in Counters
  PROVE  Used(n, a)[c] = n[c] + Weight(a, c)
  <1>1. Usage[a].calls \in Nat /\ Usage[a].blocks \in Nat /\ n[c] \in Nat
    <2>1. Usage[a] \in [calls : Nat, blocks : Nat]
      BY StatsAssumption
    <2> QED
      BY <2>1
  <1>2. "tool_calls" \in Counters /\ "out_of_scope_blocks" \in Counters
    BY DEF Counters
  <1>3. PICK m : m = Add(n, "tool_calls", Usage[a].calls)
    OBVIOUS
  <1>4. /\ m \in [Counters -> Nat]
        /\ m[c] = IF c = "tool_calls" THEN n[c] + Usage[a].calls ELSE n[c]
    BY <1>1, <1>2, <1>3, AddGrows DEF Add
  <1>5. Used(n, a) = Add(m, "out_of_scope_blocks", Usage[a].blocks)
    BY <1>3 DEF Used
  <1>6. Used(n, a)[c] = IF c = "out_of_scope_blocks" THEN m[c] + Usage[a].blocks ELSE m[c]
    BY <1>2, <1>4, <1>5 DEF Add
  <1> QED
    BY <1>1, <1>4, <1>6 DEF Weight

LEMMA UnitsCount ==
  ASSUME NEW a \in Agents, NEW c \in Counters
  PROVE  IsFiniteSet(Units(a, c)) /\ Cardinality(Units(a, c)) = Weight(a, c)
  <1>1. Weight(a, c) \in Nat
    BY WeightType
  <1>2. IsFiniteSet({a}) /\ Cardinality({a}) = 1
    BY FS_Singleton
  <1>3. IsFiniteSet(1..Weight(a, c)) /\ Cardinality(1..Weight(a, c)) = Weight(a, c)
    BY <1>1, FS_Interval
  <1>4. /\ IsFiniteSet({a} \X (1..Weight(a, c)))
        /\ Cardinality({a} \X (1..Weight(a, c))) = Cardinality({a}) * Cardinality(1..Weight(a, c))
    BY <1>2, <1>3, FS_Product
  <1> QED
    BY <1>1, <1>2, <1>3, <1>4 DEF Units

\* The set of units with and without those of one agent.
LEMMA SentWithout ==
  ASSUME NEW p \in [Agents -> {"none", "sent", "settled"}], NEW a \in Agents, p[a] = "sent",
         NEW q \in [Agents -> {"none", "sent", "settled"}], q[a] # "sent",
         \A b \in Agents : b # a => q[b] = p[b],
         NEW c \in Counters, IsFiniteSet(SentOf(p, c)) \/ IsFiniteSet(SentOf(q, c))
  PROVE  /\ IsFiniteSet(SentOf(p, c)) /\ IsFiniteSet(SentOf(q, c))
         /\ Cardinality(SentOf(p, c)) \in Nat /\ Cardinality(SentOf(q, c)) \in Nat
         /\ Cardinality(SentOf(p, c)) = Cardinality(SentOf(q, c)) + Weight(a, c)
  <1> DEFINE P == SentOf(p, c)
             Q == SentOf(q, c)
             U == Units(a, c)
  <1>0. Weight(a, c) \in Nat
    BY WeightType
  <1>1. P = Q \cup U
    BY <1>0 DEF SentOf, Units
  <1>2. Q \cap U = {}
    BY DEF SentOf, Units
  <1>3. IsFiniteSet(U) /\ Cardinality(U) = Weight(a, c)
    BY UnitsCount
  <1>4. IsFiniteSet(P) \/ IsFiniteSet(Q)
    OBVIOUS
  <1> HIDE DEF P, Q, U
  <1>5. IsFiniteSet(Q)
    BY <1>1, <1>4, FS_Subset
  <1>6. /\ IsFiniteSet(Q \cup U)
        /\ Cardinality(Q \cup U) = Cardinality(Q) + Cardinality(U) - Cardinality(Q \cap U)
    BY <1>3, <1>5, FS_Union
  <1>7. Cardinality(Q \cap U) = 0
    BY <1>2, FS_EmptySet
  <1>8. Cardinality(P) \in Nat /\ Cardinality(Q) \in Nat
    BY <1>1, <1>5, <1>6, FS_CardinalityType
  <1>9. /\ IsFiniteSet(P) /\ IsFiniteSet(Q) /\ Cardinality(P) \in Nat /\ Cardinality(Q) \in Nat
        /\ Cardinality(P) = Cardinality(Q) + Weight(a, c)
    BY <1>0, <1>1, <1>3, <1>5, <1>6, <1>7, <1>8
  <1> QED
    BY <1>9 DEF P, Q

LEMMA AccountedInit == Init => Accounted
  <1> SUFFICES ASSUME Init PROVE Accounted
    OBVIOUS
  <1>1. \A c \in Counters : Sent(c) = {}
    BY DEF Init, Sent, SentOf
  <1>2. \A c \in Counters : IsFiniteSet(Sent(c)) /\ Cardinality(Sent(c)) = 0
    BY <1>1, FS_EmptySet
  <1>3. /\ inner.n = Zero /\ file.holds.n = Zero /\ truth = Zero
    BY DEF Init, Fresh, Without
  <1> QED
    BY <1>2, <1>3 DEF Accounted, Within, Zero

\* The counters of memory and file are natural numbers.
LEMMA CountersType ==
  ASSUME TypeOK
  PROVE  /\ inner.n \in [Counters -> Nat] /\ file.holds.n \in [Counters -> Nat]
         /\ truth \in [Counters -> Nat]
  BY DEF TypeOK, Inner

\* Counting one thing that happens.
LEMMA AddCounts ==
  ASSUME NEW n \in [Counters -> Nat], NEW c \in Counters, NEW d \in Counters
  PROVE  Add(n, c, 1)[d] = IF d = c THEN n[d] + 1 ELSE n[d]
  BY DEF Add

LEMMA AccountedStep == TypeOK /\ Accounted /\ [Next]_vars => Accounted'
  <1> SUFFICES ASSUME TypeOK, Accounted, [Next]_vars PROVE Accounted'
    OBVIOUS
  <1>0. /\ inner.n \in [Counters -> Nat] /\ file.holds.n \in [Counters -> Nat]
        /\ truth \in [Counters -> Nat]
    BY CountersType
  <1>c. \A c \in Counters : Cardinality(Sent(c)) \in Nat
    BY FS_CardinalityType DEF Accounted
  <1>z. Within(Zero)
    <2>1. \A c \in Counters : file.holds.n[c] + Cardinality(Sent(c)) <= truth[c]
      BY DEF Accounted, Within
    <2>2. \A c \in Counters : file.holds.n[c] \in Nat /\ truth[c] \in Nat
      BY <1>0
    <2> QED
      BY <1>c, <2>1, <2>2 DEF Within, Zero
  <1>s. ASSUME report' = report
        PROVE  \A c \in Counters : Sent(c)' = Sent(c)
    BY <1>s DEF Sent
  \* Steps that move counters from memory to the file and back.
  <1>1. ASSUME report' = report, truth' = truth,
               inner'.n \in {inner.n, file.holds.n, Zero},
               file'.holds.n \in {inner.n, file.holds.n, Zero}
        PROVE  Accounted'
    <2>1. \A c \in Counters : IsFiniteSet(Sent(c)')
      BY <1>1, <1>s DEF Accounted
    <2>2. ASSUME NEW n, Within(n)
          PROVE  \A c \in Counters : n[c] + Cardinality(Sent(c)') <= truth'[c]
      BY <1>1, <1>s, <2>2 DEF Within
    <2>3. \A c \in Counters : inner'.n[c] + Cardinality(Sent(c)') <= truth'[c]
      BY <1>1, <1>z, <2>2 DEF Accounted
    <2>4. \A c \in Counters : file'.holds.n[c] + Cardinality(Sent(c)') <= truth'[c]
      BY <1>1, <1>z, <2>2 DEF Accounted
    <2> QED
      BY <2>1, <2>3, <2>4 DEF Accounted, Within
  \* Something happens and is counted.
  <1>2. ASSUME NEW c \in Counters, report' = report,
               truth' = Add(truth, c, 1), inner'.n = Add(inner.n, c, 1), file' = file
        PROVE  Accounted'
    <2>1. \A d \in Counters : IsFiniteSet(Sent(d)')
      BY <1>2, <1>s DEF Accounted
    <2>2. ASSUME NEW d \in Counters
          PROVE  /\ inner'.n[d] + Cardinality(Sent(d)') <= truth'[d]
                 /\ file'.holds.n[d] + Cardinality(Sent(d)') <= truth'[d]
      <3>1. Sent(d)' = Sent(d) /\ Cardinality(Sent(d)) \in Nat
        BY <1>2, <1>c, <1>s
      <3>2. /\ inner.n[d] + Cardinality(Sent(d)) <= truth[d]
            /\ file.holds.n[d] + Cardinality(Sent(d)) <= truth[d]
        BY DEF Accounted, Within
      <3>3. /\ truth'[d] = IF d = c THEN truth[d] + 1 ELSE truth[d]
            /\ inner'.n[d] = IF d = c THEN inner.n[d] + 1 ELSE inner.n[d]
        BY <1>0, <1>2, AddCounts
      <3>4. inner.n[d] \in Nat /\ file.holds.n[d] \in Nat /\ truth[d] \in Nat
        BY <1>0
      <3> QED
        BY <1>2, <3>1, <3>2, <3>3, <3>4
    <2> QED
      BY <2>1, <2>2 DEF Accounted, Within
  <1>3. CASE Start
    <2>1. inner'.n \in {file.holds.n, Zero}
      BY <1>3 DEF Start, Loaded, Fresh
    <2> QED
      BY <1>1, <1>3, <2>1 DEF Start
  <1>4. CASE Stop
    BY <1>1, <1>4 DEF Stop
  <1>5. ASSUME NEW ip \in Visitors, PageView(ip) PROVE Accounted'
    <2>1. inner'.n = Add(inner.n, "page_views", 1)
      BY <1>5 DEF PageView, TypeOK, Inner
    <2>2. "page_views" \in Counters
      BY DEF Counters
    <2> QED
      BY <1>2, <1>5, <2>1, <2>2 DEF PageView
  <1>6. ASSUME NEW c \in Counters, Bump(c) PROVE Accounted'
    <2>1. inner'.n = Add(inner.n, c, 1)
      BY <1>6 DEF Bump, Counted, TypeOK, Inner
    <2> QED
      BY <1>2, <1>6, <2>1 DEF Bump
  \* A report is sent: its units happen, and are on their way.
  <1>7. ASSUME NEW a \in Agents, SendReport(a) PROVE Accounted'
    <2>1. /\ report[a] = "none" /\ report' = [report EXCEPT ![a] = "sent"]
          /\ report \in [Agents -> {"none", "sent", "settled"}]
          /\ truth' = Used(truth, a) /\ inner' = inner /\ file' = file
      BY <1>7 DEF SendReport, TypeOK
    <2>2. ASSUME NEW c \in Counters
          PROVE  /\ IsFiniteSet(Sent(c)') /\ Cardinality(Sent(c)') \in Nat
                 /\ Cardinality(Sent(c)') = Cardinality(Sent(c)) + Weight(a, c)
      <3>1. PICK p, q : p = report' /\ q = report
        OBVIOUS
      <3>2. /\ p \in [Agents -> {"none", "sent", "settled"}] /\ p[a] = "sent"
            /\ q \in [Agents -> {"none", "sent", "settled"}] /\ q[a] # "sent"
            /\ \A b \in Agents : b # a => q[b] = p[b]
        BY <2>1, <3>1
      <3>3. Sent(c)' = SentOf(p, c) /\ Sent(c) = SentOf(q, c)
        BY <3>1 DEF Sent
      <3>4. IsFiniteSet(SentOf(q, c))
        BY <3>3 DEF Accounted
      <3> QED
        BY <3>2, <3>3, <3>4, SentWithout
    <2>3. ASSUME NEW c \in Counters
          PROVE  /\ inner'.n[c] + Cardinality(Sent(c)') <= truth'[c]
                 /\ file'.holds.n[c] + Cardinality(Sent(c)') <= truth'[c]
      <3>1. truth'[c] = truth[c] + Weight(a, c) /\ Weight(a, c) \in Nat
        BY <1>0, <2>1, UsedIs, WeightType
      <3>2. /\ inner.n[c] + Cardinality(Sent(c)) <= truth[c]
            /\ file.holds.n[c] + Cardinality(Sent(c)) <= truth[c]
        BY DEF Accounted, Within
      <3>3. inner.n[c] \in Nat /\ file.holds.n[c] \in Nat /\ truth[c] \in Nat
        BY <1>0
      <3> QED
        BY <1>c, <2>1, <2>2, <3>1, <3>2, <3>3
    <2> QED
      BY <2>2, <2>3 DEF Accounted, Within
  \* A report is read, or lost: its units are counted, or are not.
  <1>8. ASSUME NEW a \in Agents, ReadReport(a) \/ LoseReport(a) PROVE Accounted'
    <2>1. /\ report[a] = "sent" /\ report' = [report EXCEPT ![a] = "settled"]
          /\ report \in [Agents -> {"none", "sent", "settled"}]
          /\ truth' = truth /\ file' = file
          /\ inner'.n = Used(inner.n, a) \/ inner'.n = inner.n
      BY <1>8 DEF ReadReport, LoseReport, Counted, TypeOK, Inner
    <2>2. ASSUME NEW c \in Counters
          PROVE  /\ IsFiniteSet(Sent(c)') /\ Cardinality(Sent(c)') \in Nat
                 /\ Cardinality(Sent(c)) = Cardinality(Sent(c)') + Weight(a, c)
      <3>1. PICK p, q : p = report /\ q = report'
        OBVIOUS
      <3>2. /\ p \in [Agents -> {"none", "sent", "settled"}] /\ p[a] = "sent"
            /\ q \in [Agents -> {"none", "sent", "settled"}] /\ q[a] # "sent"
            /\ \A b \in Agents : b # a => q[b] = p[b]
        BY <2>1, <3>1
      <3>3. Sent(c)' = SentOf(q, c) /\ Sent(c) = SentOf(p, c)
        BY <3>1 DEF Sent
      <3>4. IsFiniteSet(SentOf(p, c))
        BY <3>3 DEF Accounted
      <3> QED
        BY <3>2, <3>3, <3>4, SentWithout
    <2>3. ASSUME NEW c \in Counters
          PROVE  /\ inner'.n[c] + Cardinality(Sent(c)') <= truth'[c]
                 /\ file'.holds.n[c] + Cardinality(Sent(c)') <= truth'[c]
      <3>1. /\ inner'.n[c] = inner.n[c] + Weight(a, c) \/ inner'.n[c] = inner.n[c]
            /\ Weight(a, c) \in Nat
        BY <1>0, <2>1, UsedIs, WeightType
      <3>2. /\ inner.n[c] + Cardinality(Sent(c)) <= truth[c]
            /\ file.holds.n[c] + Cardinality(Sent(c)) <= truth[c]
        BY DEF Accounted, Within
      <3>3. inner.n[c] \in Nat /\ file.holds.n[c] \in Nat /\ truth[c] \in Nat
        BY <1>0
      <3> QED
        BY <1>c, <2>1, <2>2, <3>1, <3>2, <3>3
    <2> QED
      BY <2>2, <2>3 DEF Accounted, Within
  <1>9. CASE BeginFlush
    BY <1>1, <1>9 DEF BeginFlush, Without, Fresh
  <1>10. CASE EndFlush \/ FlushFails \/ UNCHANGED vars
    BY <1>1, <1>10 DEF EndFlush, FlushFails, vars
  <1> QED
    BY <1>3, <1>4, <1>5, <1>6, <1>7, <1>8, <1>9, <1>10
       DEF Next, Request, Flush, Counters

\* No request and no report is counted twice, through restarts, torn files and
\* reports that are lost (stats.rs:84): what /stats.json shows happened.
THEOREM NothingCountedTwice == Spec => []NeverOvercounts
  <1>1. TypeOK /\ Accounted => NeverOvercounts
    <2> SUFFICES ASSUME TypeOK, Accounted, NEW c \in Counters
                 PROVE  inner.n[c] <= truth[c]
      BY DEF NeverOvercounts
    <2>1. inner.n[c] \in Nat /\ truth[c] \in Nat
      BY CountersType
    <2>2. Cardinality(Sent(c)) \in Nat /\ inner.n[c] + Cardinality(Sent(c)) <= truth[c]
      BY FS_CardinalityType DEF Accounted, Within
    <2> QED
      BY <2>1, <2>2
  <1> QED
    BY <1>1, TypeCorrect, AccountedInit, AccountedStep, PTL DEF Spec
=============================================================================
