-------------------------- MODULE RunLivenessProofs --------------------------
(***************************************************************************)
(* Proofs about RunLiveness for every number of handlers, runs, scopes and *)
(* events, every window and every bound of the clock, for streams with and *)
(* without monitored sources.                                              *)
(***************************************************************************)
EXTENDS RunLiveness, TLAPS

----------------------------------------------------------------------------
(* The inductive invariant.                                                *)

(* A run's row has an end time exactly when the run has ended.             *)
RowsTimed == \A r \in Run : IsEnded(r) <=> runs[r].at # NoTime

(* What a handler's local state means at each place of its transaction.    *)
HandlerInv(h) ==
  /\ pc[h] # "idle" => job[h] \in Delivery
  /\ pc[h] \in {"looked", "expected", "settled"} => job[h].kind # "started"
  /\ pc[h] \in {"idle", "received", "accepted"} => known[h] = "absent"

(* The row a handler will commit: an ended run as it is, a started or      *)
(* ended row otherwise.  A monitored stream never passes a row without a   *)
(* time on to the expectation.                                             *)
RowInv(h) ==
  /\ HoldsRun(h) =>
       /\ IsEnded(job[h].run) => row[h] = runs[job[h].run]
       /\ job[h].kind = "started" /\ ~ IsEnded(job[h].run) => row[h].state = "started"
       /\ row[h].state \in {"started"} \cup Ended
       /\ row[h].state \in Ended <=> HasTime(h)
  /\ HoldsStream(h) /\ Monitored => HasTime(h)

(* What the incident updates of a transaction have done stays right about  *)
(* the degradations until it commits: the sweep only raises absences.      *)
SettledInv(h) ==
  pc[h] = "settled" =>
    /\ resolved[h] \subseteq ResolvedBy(job[h].kind)
    /\ job[h].kind = "completed" =>
         \A t \in Degradations : Open(t) => t \in resolved[h]
    /\ job[h].kind # "completed" /\ ~ Open(IncidentOf(job[h].kind)) => HasTime(h)

(* Row locks are exclusive.                                                *)
LockInv ==
  \A h \in Handler :
    /\ \A g \in Handler \ {h} :
         /\ HoldsRun(h) /\ HoldsRun(g) => job[h].run # job[g].run
         /\ ~ (HoldsStream(h) /\ HoldsStream(g))
    /\ HoldsStream(h) => ~ sweep.marks

(* What the sweep has written and will commit.  While it holds the         *)
(* expectation the stream stays overdue, so it judges what it has marked.  *)
SweepInv ==
  /\ sweep.marks => sweep.pc \in {"marked", "judged"} /\ Passed(sweep.now)
  /\ sweep.pc = "judged" /\ sweep.marks /\ Monitored => sweep.judges
  /\ sweep.judges => Monitored
  /\ ~ Monitored => freshness = "unknown"

LInv ==
  /\ TypeOK
  /\ RowsTimed
  /\ \A h \in Handler : HandlerInv(h) /\ RowInv(h) /\ SettledInv(h)
  /\ LockInv
  /\ SweepInv
  /\ LastEndIsLatest
  /\ FreshIsHealthy
  /\ DegradationExplained
  /\ Monitored => EndEndsTheRun

----------------------------------------------------------------------------
(* Steps that commit nothing.                                              *)

LEMMA InitLInv == Init => LInv
<1> SUFFICES ASSUME Init PROVE LInv
  OBVIOUS
<1> USE RunAssumption DEF Init, NoRow, IdleSweep
<1>1. TypeOK
  BY DEF TypeOK, Time, Row, Degradations, Absences
<1>2. RowsTimed /\ LastEndIsLatest
  BY DEF RowsTimed, LastEndIsLatest, IsEnded, Ended
<1>3. ASSUME NEW h \in Handler PROVE HandlerInv(h) /\ RowInv(h) /\ SettledInv(h)
  BY <1>3 DEF HandlerInv, RowInv, SettledInv, HoldsRun, HoldsStream
<1>4. LockInv /\ SweepInv
  BY DEF LockInv, SweepInv, HoldsRun, HoldsStream
<1>5. FreshIsHealthy /\ DegradationExplained /\ EndEndsTheRun
  BY DEF FreshIsHealthy, DegradationExplained, EndEndsTheRun
<1> QED
  BY <1>1, <1>2, <1>3, <1>4, <1>5 DEF LInv

(* What is said about the tables holds while they do not change.           *)
LEMMA TablesUnchanged ==
  ASSUME LInv, UNCHANGED tables
  PROVE  /\ RowsTimed' /\ LastEndIsLatest' /\ FreshIsHealthy' /\ DegradationExplained'
         /\ Monitored => EndEndsTheRun'
BY DEF LInv, tables, RowsTimed, LastEndIsLatest, FreshIsHealthy, DegradationExplained,
       EndEndsTheRun, IsEnded, Open

(* A step of another handler that commits nothing leaves g alone.          *)
LEMMA OtherHandler ==
  ASSUME NEW g \in Handler, HandlerInv(g) /\ RowInv(g) /\ SettledInv(g),
         UNCHANGED tables, pc'[g] = pc[g], job'[g] = job[g], known'[g] = known[g],
         row'[g] = row[g], resolved'[g] = resolved[g]
  PROVE  (HandlerInv(g) /\ RowInv(g) /\ SettledInv(g))'
BY DEF tables, HandlerInv, RowInv, SettledInv, HoldsRun, HoldsStream, HasTime, IsEnded, Open

(* A step of handler h that takes no lock another one holds, commits       *)
(* nothing and keeps its own invariants keeps the whole invariant.         *)
LEMMA LocalStep ==
  ASSUME LInv, TypeOK', NEW h \in Handler, UNCHANGED <<tables, sweep>>,
         \A g \in Handler \ {h} : /\ pc'[g] = pc[g] /\ job'[g] = job[g] /\ known'[g] = known[g]
                                  /\ row'[g] = row[g] /\ resolved'[g] = resolved[g],
         (HandlerInv(h) /\ RowInv(h) /\ SettledInv(h))',
         HoldsRun(h)' => \/ HoldsRun(h) /\ job'[h] = job[h]
                         \/ RunFree(job'[h].run),
         HoldsStream(h)' => HoldsStream(h) \/ StreamFree
  PROVE  LInv'
<1>1. ASSUME NEW g \in Handler PROVE (HandlerInv(g) /\ RowInv(g) /\ SettledInv(g))'
  BY <1>1, OtherHandler DEF LInv
<1>2. LockInv'
  BY DEF LInv, LockInv, HoldsRun, HoldsStream, RunFree, StreamFree
<1>3. SweepInv'
  BY DEF LInv, SweepInv, tables, Passed
<1> QED
  BY <1>1, <1>2, <1>3, TablesUnchanged DEF LInv

LEMMA ThrowLInv ==
  ASSUME LInv, NEW h \in Handler, Throw(h)
  PROVE  LInv'
<1>1. TypeOK'
  BY RunAssumption DEF LInv, TypeOK, Throw, Idle, tables, NoRow, Row, Time
<1>2. pc'[h] = "idle" /\ known'[h] = "absent"
  BY DEF LInv, TypeOK, Throw, Idle
<1>3. (HandlerInv(h) /\ RowInv(h) /\ SettledInv(h))' /\ ~ HoldsRun(h)' /\ ~ HoldsStream(h)'
  BY <1>2 DEF HandlerInv, RowInv, SettledInv, HoldsRun, HoldsStream
<1> QED
  BY <1>1, <1>3, LocalStep DEF LInv, TypeOK, Throw, Idle

LEMMA ReceiveLInv ==
  ASSUME LInv, NEW h \in Handler, NEW d \in Delivery, Receive(h, d)
  PROVE  LInv'
<1>1. TypeOK'
  BY DEF LInv, TypeOK, Receive, tables
<1>2. pc'[h] = "received" /\ job'[h] = d /\ known'[h] = known[h]
  BY DEF LInv, TypeOK, Receive
<1>3. known[h] = "absent"
  BY DEF LInv, HandlerInv, Receive
<1>4. (HandlerInv(h) /\ RowInv(h) /\ SettledInv(h))' /\ ~ HoldsRun(h)' /\ ~ HoldsStream(h)'
  BY <1>2, <1>3 DEF HandlerInv, RowInv, SettledInv, HoldsRun, HoldsStream
<1> QED
  BY <1>1, <1>4, LocalStep DEF LInv, TypeOK, Receive

LEMMA AcceptLInv ==
  ASSUME LInv, NEW h \in Handler, Accept(h)
  PROVE  LInv'
<1>1. CASE receipts[job[h]] # "absent"
  BY <1>1, ThrowLInv DEF Accept, Throw
<1>2. CASE receipts[job[h]] = "absent"
  <2>1. pc[h] = "received" /\ Goto(h, "accepted") /\ UNCHANGED <<job, began, known, row, resolved, clock, tables, sweep>>
    BY <1>2 DEF Accept
  <2>2. TypeOK'
    BY <2>1 DEF LInv, TypeOK, Goto, tables
  <2>3. pc'[h] = "accepted"
    BY <2>1 DEF LInv, TypeOK, Goto
  <2>4. (HandlerInv(h) /\ RowInv(h) /\ SettledInv(h))' /\ ~ HoldsRun(h)' /\ ~ HoldsStream(h)'
    BY <2>1, <2>3 DEF LInv, HandlerInv, RowInv, SettledInv, HoldsRun, HoldsStream
  <2> QED
    BY <2>1, <2>2, <2>4, LocalStep DEF LInv, TypeOK, Goto
<1> QED
  BY <1>1, <1>2

LEMMA RecordStartedLInv ==
  ASSUME LInv, NEW h \in Handler, RecordStarted(h)
  PROVE  LInv'
<1>1. pc[h] = "accepted" /\ job[h] \in Delivery /\ job[h].kind = "started" /\ RunFree(job[h].run)
  BY DEF LInv, HandlerInv, RecordStarted
<1>2. CASE Throw(h)
  BY <1>2, ThrowLInv
<1>3. CASE /\ Goto(h, "recorded")
           /\ \/ /\ runs[job[h].run].state = "absent"
                 /\ row' = [row EXCEPT ![h] = [state |-> "started", from |-> job[h].occurred,
                                               at |-> NoTime, scope |-> job[h].scope]]
                 /\ UNCHANGED known
              \/ /\ runs[job[h].run].state # "absent"
                 /\ row' = [row EXCEPT ![h] = runs[job[h].run]]
                 /\ known' = [known EXCEPT ![h] = "started"]
           /\ UNCHANGED <<clock, tables, job, began, resolved, sweep>>
  <2>1. job[h].run \in Run /\ job[h].occurred \in Time /\ job[h].scope \in Scope
    BY <1>1, RunAssumption
  <2>2. TypeOK'
    <3>1. runs[job[h].run] \in Row
      BY <2>1 DEF LInv, TypeOK
    <3>2. [state |-> "started", from |-> job[h].occurred, at |-> NoTime, scope |-> job[h].scope] \in Row
      BY <2>1 DEF Row
    <3>3. row' \in [Handler -> Row] /\ known' \in [Handler -> {"absent", "started", "ended"}]
      BY <1>3, <3>1, <3>2 DEF LInv, TypeOK
    <3> QED
      BY <1>3, <3>3 DEF LInv, TypeOK, Goto, tables
  <2>3. pc'[h] = "recorded" /\ job'[h] = job[h]
    BY <1>3 DEF LInv, TypeOK, Goto
  <2>4. HandlerInv(h)' /\ SettledInv(h)' /\ ~ HoldsStream(h)'
    BY <1>1, <2>3 DEF HandlerInv, SettledInv, HoldsStream
  <2>5. RowInv(h)'
    BY <1>1, <1>3, <2>1, <2>3, <2>4 DEF LInv, TypeOK, RowsTimed, RowInv, HasTime, IsEnded, Row, Ended, tables
  <2> QED
    BY <1>1, <1>3, <2>2, <2>3, <2>4, <2>5, LocalStep DEF LInv, TypeOK, Goto
<1> QED
  BY <1>2, <1>3 DEF RecordStarted

LEMMA LockRunLInv ==
  ASSUME LInv, NEW h \in Handler, LockRun(h)
  PROVE  LInv'
<1>1. /\ pc[h] = "accepted" /\ known[h] = "absent" /\ job[h] \in Delivery
      /\ job[h].kind \in Ended /\ job[h].run \in Run /\ job[h].at \in Time /\ job[h].scope \in Scope
  BY RunAssumption DEF LInv, HandlerInv, LockRun
<1>2. CASE Throw(h)
  BY <1>2, ThrowLInv
<1>3. CASE /\ Goto(h, "looked")
           /\ UNCHANGED <<clock, tables, job, began, known, row, resolved, sweep>>
  <2>1. TypeOK'
    BY <1>3 DEF LInv, TypeOK, Goto, tables
  <2>2. pc'[h] = "looked" /\ job'[h] = job[h] /\ known'[h] = "absent"
    BY <1>1, <1>3 DEF LInv, TypeOK, Goto
  <2>3. (HandlerInv(h) /\ RowInv(h) /\ SettledInv(h))' /\ ~ HoldsRun(h)' /\ ~ HoldsStream(h)'
    BY <1>1, <2>2 DEF HandlerInv, RowInv, SettledInv, HoldsRun, HoldsStream, Ended
  <2> QED
    BY <1>3, <2>1, <2>3, LocalStep DEF LInv, TypeOK, Goto
<1>4. CASE /\ runs[job[h].run].state # "absent"
           /\ RunFree(job[h].run)
           /\ Goto(h, "looked")
           /\ known' = [known EXCEPT ![h] =
                IF runs[job[h].run].state = "started" THEN "started" ELSE "ended"]
           /\ row' = [row EXCEPT ![h] =
                IF Closable(job[h].run) THEN Closed(job[h], runs[job[h].run].from) ELSE runs[job[h].run]]
           /\ UNCHANGED <<clock, tables, job, began, resolved, sweep>>
  <2>1. TypeOK'
    BY <1>1, <1>4 DEF LInv, TypeOK, Goto, tables, Closed, Row
  <2>2. pc'[h] = "looked" /\ job'[h] = job[h]
    BY <1>4 DEF LInv, TypeOK, Goto
  <2>3. HandlerInv(h)' /\ SettledInv(h)' /\ ~ HoldsStream(h)'
    BY <1>1, <2>2 DEF HandlerInv, SettledInv, HoldsStream, Ended
  <2>4. RowInv(h)'
    BY <1>1, <1>4, <2>2, <2>3, RunAssumption
    DEF LInv, TypeOK, RowsTimed, RowInv, HasTime, IsEnded, Row, Ended, Closable, Closed, Time, tables
  <2> QED
    BY <1>4, <2>1, <2>2, <2>3, <2>4, LocalStep DEF LInv, TypeOK, Goto
<1> QED
  BY <1>2, <1>3, <1>4 DEF LockRun

LEMMA RecordRunLInv ==
  ASSUME LInv, NEW h \in Handler, RecordRun(h)
  PROVE  LInv'
<1>1. /\ pc[h] = "looked" /\ job[h] \in Delivery /\ job[h].kind \in Ended
      /\ job[h].run \in Run /\ job[h].at \in Time /\ job[h].occurred \in Time /\ job[h].scope \in Scope
  BY RunAssumption DEF LInv, HandlerInv, RecordRun
<1>2. CASE Throw(h)
  BY <1>2, ThrowLInv
<1>3. CASE known[h] # "absent" /\ Goto(h, "recorded")
           /\ UNCHANGED <<clock, tables, job, began, known, row, resolved, sweep>>
  <2>1. TypeOK'
    BY <1>3 DEF LInv, TypeOK, Goto, tables
  <2>2. pc'[h] = "recorded" /\ HoldsRun(h)
    BY <1>1, <1>3 DEF LInv, TypeOK, Goto, HoldsRun
  <2>3. HandlerInv(h)' /\ SettledInv(h)' /\ ~ HoldsStream(h)'
    BY <1>1, <1>3, <2>2 DEF HandlerInv, SettledInv, HoldsStream
  <2>4. RowInv(h)'
    BY <1>3, <2>2, <2>3 DEF LInv, RowInv, HasTime, IsEnded, tables
  <2> QED
    BY <1>3, <2>1, <2>2, <2>3, <2>4, LocalStep DEF LInv, TypeOK, Goto
<1>4. ASSUME NEW value, known[h] = "absent", RunFree(job[h].run),
             \/ value = Closed(job[h], job[h].occurred)
             \/ value = runs[job[h].run] /\ value.state # "absent"
             \/ /\ value = [runs[job[h].run] EXCEPT !.scope = job[h].scope]
                /\ runs[job[h].run].state = "started",
             IsEnded(job[h].run) => value = runs[job[h].run],
             Goto(h, "recorded"), row' = [row EXCEPT ![h] = value],
             UNCHANGED <<clock, tables, job, began, known, resolved, sweep>>
      PROVE  LInv'
  <2>1. TypeOK'
    <3>1. runs[job[h].run] \in Row
      BY <1>1 DEF LInv, TypeOK
    <3>2. value \in Row
      BY <1>1, <1>4, <3>1 DEF Closed, Row
    <3> QED
      BY <1>4, <3>2 DEF LInv, TypeOK, Goto, tables
  <2>2. pc'[h] = "recorded" /\ job'[h] = job[h]
    BY <1>4 DEF LInv, TypeOK, Goto
  <2>3. HandlerInv(h)' /\ SettledInv(h)' /\ ~ HoldsStream(h)'
    BY <1>1, <2>2 DEF HandlerInv, SettledInv, HoldsStream
  <2>4. RowInv(h)'
    BY <1>1, <1>4, <2>2, <2>3, RunAssumption
    DEF LInv, TypeOK, RowsTimed, RowInv, HasTime, IsEnded, Row, Ended, Closed, Time, tables
  <2> QED
    BY <1>4, <2>1, <2>2, <2>3, <2>4, LocalStep DEF LInv, TypeOK, Goto
<1>5. CASE /\ known[h] = "absent" /\ RunFree(job[h].run)
           /\ Goto(h, "recorded")
           /\ row' = [row EXCEPT ![h] =
                CASE runs[job[h].run].state = "absent"  -> Closed(job[h], job[h].occurred)
                  [] runs[job[h].run].state = "started" -> [runs[job[h].run] EXCEPT !.scope = job[h].scope]
                  [] OTHER                              -> runs[job[h].run]]
           /\ UNCHANGED <<clock, tables, job, began, known, resolved, sweep>>
  <2> DEFINE state == runs[job[h].run].state
  <2>1. CASE state = "absent"
    BY <1>4, <1>5, <2>1 DEF IsEnded, Ended
  <2>2. CASE state = "started"
    BY <1>4, <1>5, <2>2 DEF IsEnded, Ended
  <2>3. CASE state \notin {"absent", "started"}
    BY <1>4, <1>5, <2>3 DEF IsEnded
  <2> QED
    BY <2>1, <2>2, <2>3
<1> QED
  BY <1>2, <1>3, <1>5 DEF RecordRun

LEMMA ExpectLInv ==
  ASSUME LInv, NEW h \in Handler, Expect(h)
  PROVE  LInv'
<1>1. CASE Throw(h)
  BY <1>1, ThrowLInv
<1>2. CASE /\ ~ (Monitored /\ ~ HasTime(h))
           /\ Goto(h, "expected")
           /\ UNCHANGED <<clock, tables, job, began, known, row, resolved, sweep>>
  <2>1. TypeOK'
    BY <1>2 DEF LInv, TypeOK, Goto, tables
  <2>2. pc[h] = "recorded" /\ job[h].kind # "started" /\ StreamFree /\ pc'[h] = "expected" /\ HoldsRun(h)
    BY <1>2 DEF LInv, TypeOK, Goto, HoldsRun, Expect
  <2>3. HandlerInv(h)' /\ SettledInv(h)'
    BY <1>2, <2>2 DEF LInv, HandlerInv, SettledInv
  <2>4. RowInv(h)'
    BY <1>2, <2>2 DEF LInv, RowInv, HasTime, IsEnded, tables
  <2> QED
    BY <1>2, <2>1, <2>2, <2>3, <2>4, LocalStep DEF LInv, TypeOK, Goto
<1> QED
  BY <1>1, <1>2 DEF Expect

LEMMA SettleLInv ==
  ASSUME LInv, NEW h \in Handler, Settle(h)
  PROVE  LInv'
<1> DEFINE kind == job[h].kind
           gone == {t \in ResolvedBy(kind) : Open(t)}
<1>1. CASE Throw(h)
  BY <1>1, ThrowLInv
<1>2. CASE /\ ~ (kind # "completed" /\ ~ Open(IncidentOf(kind)) /\ ~ HasTime(h))
           /\ Goto(h, "settled")
           /\ resolved' = [resolved EXCEPT ![h] = gone]
           /\ UNCHANGED <<clock, tables, job, began, known, row, sweep>>
  <2>1. gone \subseteq Degradations \cup Absences
    BY DEF ResolvedBy
  <2>2. TypeOK'
    BY <1>2, <2>1 DEF LInv, TypeOK, Goto, tables
  <2>3. pc[h] = "expected" /\ pc'[h] = "settled" /\ HoldsRun(h) /\ HoldsStream(h) /\ resolved'[h] = gone
    BY <1>2 DEF LInv, TypeOK, Goto, HoldsRun, HoldsStream, Settle
  <2>4. HandlerInv(h)'
    BY <1>2, <2>3 DEF LInv, HandlerInv
  <2>5. RowInv(h)'
    BY <1>2, <2>3 DEF LInv, RowInv, HasTime, IsEnded, tables
  <2>6. SettledInv(h)'
    BY <1>2, <2>3 DEF SettledInv, ResolvedBy, HasTime, Open, tables
  <2> QED
    BY <1>2, <2>2, <2>3, <2>4, <2>5, <2>6, LocalStep DEF LInv, TypeOK, Goto
<1> QED
  BY <1>1, <1>2 DEF Settle

----------------------------------------------------------------------------
(* Commits.                                                                *)

(* A handler that holds another run, and the expectation only if h does    *)
(* not, is not disturbed when h commits.                                   *)
LEMMA OtherAtCommit ==
  ASSUME LInv, NEW h \in Handler, NEW g \in Handler \ {h}, HoldsRun(h),
         runs' = [runs EXCEPT ![job[h].run] = row[h]],
         HoldsStream(h) \/ UNCHANGED incidents,
         pc'[g] = pc[g], job'[g] = job[g], known'[g] = known[g], row'[g] = row[g],
         resolved'[g] = resolved[g]
  PROVE  (HandlerInv(g) /\ RowInv(g) /\ SettledInv(g))'
<1>1. HandlerInv(g)'
  BY DEF LInv, HandlerInv
<1>2. RowInv(g)'
  <2>1. HoldsRun(g) => job[g] \in Delivery /\ job[g].run \in Run
    BY RunAssumption DEF LInv, HandlerInv, HoldsRun
  <2>2. HoldsRun(g) => runs'[job[g].run] = runs[job[g].run]
    BY <2>1 DEF LInv, LockInv, TypeOK
  <2> QED
    BY <2>2 DEF LInv, RowInv, HoldsRun, HoldsStream, HasTime, IsEnded
<1>3. SettledInv(g)'
  BY DEF LInv, LockInv, SettledInv, HoldsStream, HasTime, Open
<1> QED
  BY <1>1, <1>2, <1>3

(* Committing gives locks up and takes none.                               *)
LEMMA LocksAfterIdle ==
  ASSUME LInv, NEW h \in Handler, Idle(h), UNCHANGED sweep
  PROVE  LockInv'
BY DEF LInv, LockInv, TypeOK, Idle, HoldsRun, HoldsStream

LEMMA IdleInv ==
  ASSUME LInv, NEW h \in Handler, Idle(h)
  PROVE  (HandlerInv(h) /\ RowInv(h) /\ SettledInv(h))'
<1>1. pc'[h] = "idle" /\ known'[h] = "absent"
  BY DEF LInv, TypeOK, Idle
<1> QED
  BY <1>1 DEF HandlerInv, RowInv, SettledInv, HoldsRun, HoldsStream

(* Whatever the order of commits, an ended run keeps its row.              *)
LEMMA CommitKeepsEnds ==
  ASSUME LInv, NEW h \in Handler, HoldsRun(h), NEW r \in Run, IsEnded(r),
         runs' = [runs EXCEPT ![job[h].run] = row[h]]
  PROVE  runs'[r] = runs[r]
BY DEF LInv, TypeOK, RowInv

LEMMA CommitRows ==
  ASSUME LInv, NEW h \in Handler, HoldsRun(h),
         runs' = [runs EXCEPT ![job[h].run] = row[h]]
  PROVE  /\ RowsTimed'
         /\ job[h] \in Delivery /\ job[h].run \in Run
         /\ runs' \in [Run -> Row] /\ runs'[job[h].run] = row[h] /\ row[h] \in Row
<1>1. job[h] \in Delivery /\ job[h].run \in Run
  BY RunAssumption DEF LInv, HandlerInv, HoldsRun
<1>2. runs' \in [Run -> Row] /\ runs'[job[h].run] = row[h] /\ row[h] \in Row
  BY <1>1 DEF LInv, TypeOK
<1>3. RowsTimed'
  BY <1>1 DEF LInv, TypeOK, RowsTimed, RowInv, HasTime, IsEnded
<1> QED
  BY <1>1, <1>2, <1>3

LEMMA CommitStartedLInv ==
  ASSUME LInv, NEW h \in Handler, CommitStarted(h)
  PROVE  LInv'
<1> USE DEF CommitStarted
<1>1. HoldsRun(h) /\ ~ HoldsStream(h) /\ Idle(h)
  BY DEF HoldsRun, HoldsStream
<1>2. /\ RowsTimed' /\ job[h] \in Delivery /\ job[h].run \in Run /\ runs' \in [Run -> Row]
      /\ runs'[job[h].run] = row[h]
  BY <1>1, CommitRows
<1>3. TypeOK'
  BY <1>1, <1>2, RunAssumption DEF LInv, TypeOK, Idle, NoRow, Row, Time
<1>4. ASSUME NEW g \in Handler PROVE (HandlerInv(g) /\ RowInv(g) /\ SettledInv(g))'
  <2>1. CASE g = h
    BY <1>1, <2>1, IdleInv
  <2>2. CASE g # h
    BY <1>1, <2>2, OtherAtCommit DEF LInv, TypeOK, Idle
  <2> QED
    BY <2>1, <2>2
<1>5. LockInv' /\ SweepInv'
  BY <1>1, LocksAfterIdle DEF LInv, SweepInv, Passed
<1>6. \A r \in Run : IsEnded(r)' <=> IsEnded(r)
  BY <1>1, <1>2 DEF LInv, TypeOK, RowInv, IsEnded, Ended
<1>7. \A r \in Run : IsEnded(r) => runs'[r] = runs[r]
  BY <1>1, CommitKeepsEnds
<1>8. LastEndIsLatest'
  BY <1>6, <1>7 DEF LInv, LastEndIsLatest
<1>9. FreshIsHealthy' /\ DegradationExplained'
  BY DEF LInv, FreshIsHealthy, DegradationExplained, Open
<1>10. Monitored => EndEndsTheRun'
  <2> SUFFICES ASSUME Monitored, NEW d \in Delivery, d.kind # "started", receipts'[d] # "absent"
               PROVE  IsEnded(d.run)'
    BY DEF EndEndsTheRun
  <2>1. receipts[d] # "absent" /\ d.run \in Run
    BY RunAssumption DEF LInv, TypeOK
  <2> QED
    BY <1>6, <2>1 DEF LInv, EndEndsTheRun
<1> QED
  BY <1>2, <1>3, <1>4, <1>5, <1>8, <1>9, <1>10 DEF LInv

(* The greatest of two times is one of them and not before either.         *)
LEMMA GreatestIsLater ==
  ASSUME NEW s \in Time \cup {NoTime}, NEW t \in Time \cup {NoTime}
  PROVE  /\ Greatest(s, t) \in {s, t}
         /\ s # NoTime => Greatest(s, t) # NoTime /\ s <= Greatest(s, t)
         /\ t # NoTime => Greatest(s, t) # NoTime /\ t <= Greatest(s, t)
BY RunAssumption DEF Greatest, Time

LEMMA CommitEndedTypeOK ==
  ASSUME LInv, NEW h \in Handler, CommitEnded(h)
  PROVE  TypeOK'
<1> USE DEF CommitEnded
<1>1. HoldsRun(h) /\ Idle(h)
  BY DEF HoldsRun
<1>2. job[h] \in Delivery /\ runs' \in [Run -> Row] /\ row[h] \in Row
  BY <1>1, CommitRows
<1>3. job[h].run \in Run /\ job[h].kind \in Ended /\ row[h].at \in Time \cup {NoTime}
  BY <1>2, RunAssumption DEF LInv, HandlerInv, Row
<1>4. DueAfter(row[h].at) \in 0..(MaxClock + Window) \cup {NoTime}
  BY <1>3, RunAssumption DEF DueAfter, Time
<1>5. Greatest(stream.lastAt, row[h].at) \in Time \cup {NoTime}
  BY <1>3, GreatestIsLater DEF LInv, TypeOK
<1>6. stream' \in [due : 0..(MaxClock + Window) \cup {NoTime},
                   liveness : {"never_seen", "healthy", "degraded", "overdue"},
                   lastAt : Time \cup {NoTime},
                   lastRun : Run \cup {"none"}, lastStatus : Ended \cup {"none"}]
  BY <1>3, <1>4, <1>5 DEF Health
<1>7. freshness' \in {"unknown", "healthy", "degraded", "stale"}
  BY DEF LInv, TypeOK, FreshnessAfter, Health
<1>8. incidents' \in [Degradations \cup Absences -> Time \cup {NoTime}]
  BY <1>3 DEF LInv, TypeOK
<1>9. receipts' \in [Delivery -> {"absent", "mapped", "duplicate"}]
  BY <1>2 DEF LInv, TypeOK
<1>10. /\ pc' \in [Handler -> {"idle", "received", "accepted", "looked", "recorded",
                               "expected", "settled"}]
       /\ job' \in [Handler -> Delivery \cup {NoDelivery}]
       /\ began' \in [Handler -> Time]
       /\ known' \in [Handler -> {"absent", "started", "ended"}]
       /\ row' \in [Handler -> Row]
       /\ resolved' \in [Handler -> SUBSET (Degradations \cup Absences)]
  BY <1>1, RunAssumption DEF LInv, TypeOK, Idle, NoRow, Row, Time
<1> QED
  BY <1>2, <1>6, <1>7, <1>8, <1>9, <1>10 DEF LInv, TypeOK

LEMMA CommitEndedLast ==
  ASSUME LInv, NEW h \in Handler, CommitEnded(h)
  PROVE  LastEndIsLatest'
<1> DEFINE newest == Greatest(stream.lastAt, row[h].at)
<1>1. HoldsRun(h) /\ runs' = [runs EXCEPT ![job[h].run] = row[h]] /\ stream'.lastAt = newest
  BY DEF HoldsRun, CommitEnded
<1>2. RowsTimed' /\ job[h].run \in Run /\ runs'[job[h].run] = row[h] /\ row[h] \in Row
  BY <1>1, CommitRows
<1>3. PICK last \in Run : last = job[h].run
  BY <1>2
<1>4. row[h].at \in Time \cup {NoTime} /\ stream.lastAt \in Time \cup {NoTime}
  BY <1>2 DEF LInv, TypeOK, Row
<1>5. /\ newest \in {stream.lastAt, row[h].at}
      /\ stream.lastAt # NoTime => newest # NoTime /\ stream.lastAt <= newest
      /\ row[h].at # NoTime => newest # NoTime /\ row[h].at <= newest
  BY <1>4, GreatestIsLater
<1>6. \A r \in Run : IsEnded(r) => IsEnded(r)' /\ runs'[r] = runs[r]
  BY <1>1, CommitKeepsEnds DEF IsEnded
<1>7. \A r \in Run \ {last} : runs'[r] = runs[r] /\ (IsEnded(r)' <=> IsEnded(r))
  BY <1>1, <1>3 DEF LInv, TypeOK, IsEnded
<1>8. runs'[last] = row[h] /\ (row[h].at # NoTime <=> IsEnded(last)')
  BY <1>2, <1>3 DEF RowsTimed
<1>9. \A r \in Run : IsEnded(r) => runs[r].at \in Time
  BY DEF LInv, TypeOK, RowsTimed, Row
<1>10. newest # NoTime => \E r \in Run : IsEnded(r)' /\ newest = runs'[r].at
  <2>1. CASE newest = row[h].at
    BY <1>8, <2>1
  <2>2. CASE newest = stream.lastAt
    BY <1>6, <2>2 DEF LInv, LastEndIsLatest
  <2> QED
    BY <1>5, <2>1, <2>2
<1>11. ASSUME NEW r \in Run, IsEnded(r)'
       PROVE  newest # NoTime /\ runs'[r].at <= newest
  <2>1. CASE r = last
    BY <1>5, <1>8, <1>11, <2>1
  <2>2. CASE r # last
    <3>1. IsEnded(r) /\ runs'[r].at = runs[r].at
      BY <1>7, <1>11, <2>2
    <3>2. stream.lastAt # NoTime /\ runs[r].at <= stream.lastAt
      BY <3>1 DEF LInv, LastEndIsLatest
    <3>3. newest # NoTime /\ stream.lastAt <= newest
      BY <1>5, <3>2
    <3>4. runs[r].at \in Int /\ stream.lastAt \in Int /\ newest \in Int
      BY <1>4, <1>5, <1>9, <3>1, <3>2, <3>3 DEF Time
    <3> HIDE DEF newest
    <3> QED
      BY <3>1, <3>2, <3>3, <3>4
  <2> QED
    BY <2>1, <2>2
<1> HIDE DEF newest
<1> QED
  BY <1>1, <1>10, <1>11 DEF LastEndIsLatest

LEMMA CommitEndedLInv ==
  ASSUME LInv, NEW h \in Handler, CommitEnded(h)
  PROVE  LInv'
<1>1. HoldsRun(h) /\ HoldsStream(h) /\ Idle(h) /\ ~ sweep.marks
  BY DEF HoldsRun, HoldsStream, CommitEnded, LInv, LockInv
<1>2. runs' = [runs EXCEPT ![job[h].run] = row[h]]
  BY DEF CommitEnded
<1>3. /\ RowsTimed' /\ job[h] \in Delivery /\ job[h].run \in Run
      /\ runs'[job[h].run] = row[h]
  BY <1>1, <1>2, CommitRows
<1>4. job[h].kind \in Ended /\ IncidentOf(job[h].kind) \in Degradations
  BY <1>3, RunAssumption DEF LInv, HandlerInv, CommitEnded, IncidentOf, Degradations
<1>5. ASSUME NEW g \in Handler PROVE (HandlerInv(g) /\ RowInv(g) /\ SettledInv(g))'
  <2>1. CASE g = h
    BY <1>1, <2>1, IdleInv
  <2>2. CASE g # h
    BY <1>1, <1>2, <2>2, OtherAtCommit DEF LInv, TypeOK, Idle
  <2> QED
    BY <2>1, <2>2
<1>6. LockInv'
  BY <1>1, LocksAfterIdle DEF CommitEnded
<1>7. SweepInv'
  BY <1>1 DEF LInv, SweepInv, CommitEnded, FreshnessAfter
<1>8. FreshIsHealthy'
  BY DEF LInv, SweepInv, FreshIsHealthy, CommitEnded, FreshnessAfter, Health
<1>9. DegradationExplained'
  <2>1. CASE job[h].kind = "completed"
    <3>1. stream'.liveness = "healthy"
      BY <2>1 DEF CommitEnded, Health
    <3>2. \A t \in Degradations : Open(t) => t \in resolved[h]
      BY <2>1 DEF LInv, SettledInv, CommitEnded
    <3>3. \A t \in Degradations : ~ Open(t)'
      BY <2>1, <3>2 DEF LInv, TypeOK, CommitEnded, Open
    <3> QED
      BY <3>1, <3>3 DEF DegradationExplained
  <2>2. CASE job[h].kind # "completed"
    <3>1. stream'.liveness = "degraded" /\ stream'.lastStatus = job[h].kind
      BY <2>2 DEF CommitEnded, Health
    <3>2. IncidentOf(job[h].kind) \notin resolved[h]
      BY <1>4, <2>2 DEF LInv, SettledInv, CommitEnded, ResolvedBy, Degradations, Absences
    <3>3. ~ Open(IncidentOf(job[h].kind)) => row[h].at # NoTime
      BY <2>2 DEF LInv, SettledInv, CommitEnded, HasTime
    <3>4. incidents'[IncidentOf(job[h].kind)] # NoTime
      BY <1>4, <2>2, <3>2, <3>3 DEF LInv, TypeOK, CommitEnded, Open
    <3> QED
      BY <3>1, <3>4 DEF DegradationExplained, Open
  <2> QED
    BY <2>1, <2>2
<1>10. Monitored => EndEndsTheRun'
  <2> SUFFICES ASSUME Monitored, NEW d \in Delivery, d.kind # "started", receipts'[d] # "absent"
               PROVE  IsEnded(d.run)'
    BY DEF EndEndsTheRun
  <2>1. d.run \in Run
    BY RunAssumption
  <2>2. CASE d.run = job[h].run
    BY <1>1, <1>3, <2>2 DEF LInv, RowInv, IsEnded
  <2>3. CASE d.run # job[h].run
    <3>1. receipts[d] # "absent"
      BY <2>3 DEF LInv, TypeOK, CommitEnded
    <3>2. IsEnded(d.run)
      BY <3>1 DEF LInv, EndEndsTheRun
    <3> QED
      BY <1>1, <1>2, <2>1, <3>2, CommitKeepsEnds DEF IsEnded
  <2> QED
    BY <2>2, <2>3
<1> QED
  BY <1>3, <1>5, <1>6, <1>7, <1>8, <1>9, <1>10, CommitEndedTypeOK, CommitEndedLast DEF LInv

----------------------------------------------------------------------------
(* The sweep and the clock.                                                *)

LEMMA SweepStepLInv ==
  ASSUME LInv, SweepAbsent \/ SweepOverdue \/ SweepMark \/ SweepJudge
  PROVE  LInv'
<1>1. UNCHANGED <<clock, tables, handlers>>
  BY DEF SweepAbsent, SweepOverdue, SweepMark, SweepJudge
<1>2. sweep' \in [pc : {"idle", "absent", "raised", "marked", "judged"}, now : Time,
                  raised : SUBSET Absences, marks : BOOLEAN, judges : BOOLEAN]
  <2>1. RaiseOverdue \subseteq Absences /\ "absent_expected_run" \in Absences
    BY DEF RaiseOverdue, Absences
  <2>2. Passed(sweep.now) \in BOOLEAN /\ Monitored \in BOOLEAN
    BY RunAssumption DEF Passed
  <2>3. CASE SweepAbsent
    <3>1. PICK raised \in SUBSET Absences :
            sweep' = [sweep EXCEPT !.pc = "absent", !.now = clock, !.raised = raised]
      BY <2>1, <2>3 DEF SweepAbsent
    <3> QED
      BY <3>1 DEF LInv, TypeOK
  <2>4. CASE SweepOverdue
    <3>1. sweep.raised \cup RaiseOverdue \subseteq Absences
      BY <2>1 DEF LInv, TypeOK
    <3> QED
      BY <2>4, <3>1 DEF LInv, TypeOK, SweepOverdue
  <2>5. CASE SweepMark
    BY <2>2, <2>5 DEF LInv, TypeOK, SweepMark
  <2>6. CASE SweepJudge
    BY <2>2, <2>6 DEF LInv, TypeOK, SweepJudge
  <2> QED
    BY <2>3, <2>4, <2>5, <2>6
<1>3. TypeOK'
  BY <1>1, <1>2 DEF LInv, TypeOK, tables, handlers
<1>4. ASSUME NEW h \in Handler PROVE (HandlerInv(h) /\ RowInv(h) /\ SettledInv(h))'
  BY <1>1, OtherHandler DEF LInv, handlers
<1>5. sweep'.marks /\ ~ sweep.marks => StreamFree
  BY DEF LInv, TypeOK, SweepAbsent, SweepOverdue, SweepMark, SweepJudge
<1>6. LockInv'
  BY <1>1, <1>5 DEF LInv, LockInv, handlers, HoldsRun, HoldsStream, StreamFree
<1>7. SweepInv'
  BY <1>1 DEF LInv, TypeOK, SweepInv, Passed, tables, SweepAbsent, SweepOverdue, SweepMark, SweepJudge
<1> QED
  BY <1>1, <1>3, <1>4, <1>6, <1>7, TablesUnchanged DEF LInv

(* The sweep's commit raises absences, never a degradation, and displays   *)
(* a stream it marks as stale.                                             *)
LEMMA SweepCommitLInv ==
  ASSUME LInv, SweepCommit
  PROVE  LInv'
<1>1. sweep.pc = "judged" /\ sweep' = IdleSweep /\ UNCHANGED <<clock, receipts, runs, handlers>>
  BY DEF SweepCommit
<1>2. TypeOK'
  <2>1. sweep' \in [pc : {"idle", "absent", "raised", "marked", "judged"}, now : Time,
                    raised : SUBSET Absences, marks : BOOLEAN, judges : BOOLEAN]
    BY <1>1, RunAssumption DEF IdleSweep, Time
  <2>2. incidents' \in [Degradations \cup Absences -> Time \cup {NoTime}]
    BY DEF LInv, TypeOK, SweepCommit
  <2>3. stream' \in [due : 0..(MaxClock + Window) \cup {NoTime},
                     liveness : {"never_seen", "healthy", "degraded", "overdue"},
                     lastAt : Time \cup {NoTime},
                     lastRun : Run \cup {"none"}, lastStatus : Ended \cup {"none"}]
    <3>1. stream' = stream \/ stream' = [stream EXCEPT !.liveness = "overdue"]
      BY DEF SweepCommit
    <3> QED
      BY <3>1 DEF LInv, TypeOK
  <2>4. freshness' \in {"unknown", "healthy", "degraded", "stale"}
    BY DEF LInv, TypeOK, SweepCommit
  <2> QED
    BY <1>1, <2>1, <2>2, <2>3, <2>4 DEF LInv, TypeOK, handlers
<1>3. \A t \in Degradations : incidents'[t] = incidents[t]
  BY DEF LInv, TypeOK, SweepCommit, Degradations, Absences
<1>4. ASSUME NEW h \in Handler PROVE (HandlerInv(h) /\ RowInv(h) /\ SettledInv(h))'
  <2>1. HandlerInv(h)' /\ RowInv(h)'
    BY <1>1 DEF LInv, handlers, HandlerInv, RowInv, HoldsRun, HoldsStream, HasTime, IsEnded
  <2>2. IncidentOf(job[h].kind) \in Degradations
    BY DEF IncidentOf, Degradations
  <2>3. SettledInv(h)'
    BY <1>1, <1>3, <2>2 DEF LInv, handlers, SettledInv, HasTime, Open
  <2> QED
    BY <2>1, <2>3
<1>5. LockInv'
  BY <1>1 DEF LInv, LockInv, handlers, HoldsRun, HoldsStream, IdleSweep
<1>6. SweepInv'
  BY <1>1 DEF LInv, SweepInv, SweepCommit, IdleSweep
<1>7. RowsTimed' /\ (Monitored => EndEndsTheRun')
  BY <1>1 DEF LInv, RowsTimed, EndEndsTheRun, IsEnded
<1>8. stream'.lastAt = stream.lastAt /\ stream'.lastStatus = stream.lastStatus
  BY DEF LInv, TypeOK, SweepCommit
<1>9. LastEndIsLatest'
  BY <1>1, <1>8 DEF LInv, LastEndIsLatest, IsEnded
<1>10. FreshIsHealthy'
  BY <1>1 DEF LInv, TypeOK, SweepInv, FreshIsHealthy, SweepCommit
<1>11. DegradationExplained'
  <2>1. stream'.liveness \in {stream.liveness, "overdue"}
    BY DEF LInv, TypeOK, SweepCommit
  <2>2. IncidentOf(stream.lastStatus) \in Degradations
    BY DEF IncidentOf, Degradations
  <2> QED
    BY <1>3, <1>8, <2>1, <2>2 DEF LInv, DegradationExplained, Open
<1> QED
  BY <1>2, <1>4, <1>5, <1>6, <1>7, <1>9, <1>10, <1>11 DEF LInv

LEMMA TickLInv ==
  ASSUME LInv, Tick
  PROVE  LInv'
<1>1. UNCHANGED <<tables, handlers, sweep>>
  BY DEF Tick
<1>2. TypeOK'
  BY <1>1, RunAssumption DEF LInv, TypeOK, Tick, tables, handlers, Time
<1>3. ASSUME NEW h \in Handler PROVE (HandlerInv(h) /\ RowInv(h) /\ SettledInv(h))'
  BY <1>1, OtherHandler DEF LInv, handlers
<1>4. LockInv' /\ SweepInv'
  BY <1>1 DEF LInv, LockInv, SweepInv, Passed, tables, handlers, HoldsRun, HoldsStream
<1> QED
  BY <1>1, <1>2, <1>3, <1>4, TablesUnchanged DEF LInv

LEMMA StutterLInv ==
  ASSUME LInv, UNCHANGED vars
  PROVE  LInv'
<1>1. UNCHANGED <<clock, tables, handlers, sweep>>
  BY DEF vars, tables, handlers
<1>2. TypeOK'
  BY <1>1 DEF LInv, TypeOK, tables, handlers
<1>3. ASSUME NEW h \in Handler PROVE (HandlerInv(h) /\ RowInv(h) /\ SettledInv(h))'
  BY <1>1, OtherHandler DEF LInv, handlers
<1>4. LockInv' /\ SweepInv'
  BY <1>1 DEF LInv, LockInv, SweepInv, Passed, tables, handlers, HoldsRun, HoldsStream
<1> QED
  BY <1>1, <1>2, <1>3, <1>4, TablesUnchanged DEF LInv

LEMMA NextLInv == LInv /\ [Next]_vars => LInv'
<1> SUFFICES ASSUME LInv, [Next]_vars PROVE LInv'
  OBVIOUS
<1>1. ASSUME NEW h \in Handler, NEW d \in Delivery, Receive(h, d) PROVE LInv'
  BY <1>1, ReceiveLInv
<1>2. ASSUME NEW h \in Handler, Accept(h) PROVE LInv'
  BY <1>2, AcceptLInv
<1>3. ASSUME NEW h \in Handler, RecordStarted(h) PROVE LInv'
  BY <1>3, RecordStartedLInv
<1>4. ASSUME NEW h \in Handler, LockRun(h) PROVE LInv'
  BY <1>4, LockRunLInv
<1>5. ASSUME NEW h \in Handler, RecordRun(h) PROVE LInv'
  BY <1>5, RecordRunLInv
<1>6. ASSUME NEW h \in Handler, Expect(h) PROVE LInv'
  BY <1>6, ExpectLInv
<1>7. ASSUME NEW h \in Handler, Settle(h) PROVE LInv'
  BY <1>7, SettleLInv
<1>8. ASSUME NEW h \in Handler, CommitStarted(h) PROVE LInv'
  BY <1>8, CommitStartedLInv
<1>9. ASSUME NEW h \in Handler, CommitEnded(h) PROVE LInv'
  BY <1>9, CommitEndedLInv
<1>10. ASSUME NEW h \in Handler, Abort(h) PROVE LInv'
  BY <1>10, ThrowLInv DEF Abort
<1>11. CASE SweepAbsent \/ SweepOverdue \/ SweepMark \/ SweepJudge
  BY <1>11, SweepStepLInv
<1>12. CASE SweepCommit
  BY <1>12, SweepCommitLInv
<1>13. CASE Tick
  BY <1>13, TickLInv
<1>14. CASE UNCHANGED vars
  BY <1>14, StutterLInv
<1> QED
  BY <1>1, <1>2, <1>3, <1>4, <1>5, <1>6, <1>7, <1>8, <1>9, <1>10, <1>11, <1>12, <1>13, <1>14 DEF Next

----------------------------------------------------------------------------
(* Theorems.                                                               *)

(* The inductive invariant holds of every reachable state, whether or not  *)
(* the stream's sources are monitored.                                     *)
THEOREM LivenessInvariant == Spec => []LInv
<1> QED
  BY InitLInv, NextLInv, PTL DEF Spec

(* Every table, handler and sweep keeps its type.                          *)
THEOREM TypeCorrect == Spec => []TypeOK
<1>1. LInv => TypeOK
  BY DEF LInv
<1> QED
  BY <1>1, LivenessInvariant, PTL

(* last_terminal_run_at is the latest end on record, although ends arrive  *)
(* out of order, twice, or for runs that ended before.                     *)
THEOREM LatestEndIsKept == Spec => []LastEndIsLatest
<1>1. LInv => LastEndIsLatest
  BY DEF LInv
<1> QED
  BY <1>1, LivenessInvariant, PTL

(* The freshness shown for the sources is never better than the stream's   *)
(* health, although the sweep marks and judges in two statements.          *)
THEOREM FreshnessNeverFlatters == Spec => []FreshIsHealthy
<1>1. LInv => FreshIsHealthy
  BY DEF LInv
<1> QED
  BY <1>1, LivenessInvariant, PTL

(* A degraded stream has an open incident of the kind its last run calls   *)
(* for, and a completed run leaves no degradation open.                    *)
THEOREM DegradationHasIncident == Spec => []DegradationExplained
<1>1. LInv => DegradationExplained
  BY DEF LInv
<1> QED
  BY <1>1, LivenessInvariant, PTL

(* The acknowledged end of a run of a stream with monitored sources has    *)
(* ended it: the not-null timestamp refuses the interleaving that loses    *)
(* the end.  Without monitored sources nothing refuses it.                 *)
THEOREM MonitoredEndIsKept == Spec => [](Monitored => EndEndsTheRun)
<1>1. LInv => (Monitored => EndEndsTheRun)
  BY DEF LInv
<1> QED
  BY <1>1, LivenessInvariant, PTL

(* What a run ended with never changes, whichever events and commits       *)
(* follow.                                                                 *)
THEOREM EndsAreFinal == Spec => EndIsFinal
<1>1. LInv /\ [Next]_vars => [\A r \in Run : IsEnded(r) => runs'[r] = runs[r]]_vars
  <2> SUFFICES ASSUME LInv, Next, NEW r \in Run, IsEnded(r)
               PROVE  runs'[r] = runs[r]
    OBVIOUS
  <2>1. ASSUME NEW h \in Handler, CommitStarted(h) \/ CommitEnded(h)
        PROVE  runs'[r] = runs[r]
    <3>1. HoldsRun(h) /\ runs' = [runs EXCEPT ![job[h].run] = row[h]]
      BY <2>1 DEF CommitStarted, CommitEnded, HoldsRun
    <3> QED
      BY <3>1, CommitKeepsEnds
  <2>2. ASSUME NEW h \in Handler,
               \/ \E d \in Delivery : Receive(h, d)
               \/ Accept(h) \/ RecordStarted(h) \/ LockRun(h) \/ RecordRun(h) \/ Expect(h)
               \/ Settle(h) \/ Abort(h)
        PROVE  UNCHANGED runs
    BY <2>2 DEF Receive, Accept, RecordStarted, LockRun, RecordRun, Expect, Settle, Abort, Throw, tables
  <2>3. ASSUME SweepAbsent \/ SweepOverdue \/ SweepMark \/ SweepJudge \/ SweepCommit \/ Tick
        PROVE  UNCHANGED runs
    BY <2>3 DEF SweepAbsent, SweepOverdue, SweepMark, SweepJudge, SweepCommit, Tick, tables
  <2> QED
    BY <2>1, <2>2, <2>3 DEF Next
<1> QED
  BY <1>1, LivenessInvariant, PTL DEF Spec, EndIsFinal
==============================================================================
