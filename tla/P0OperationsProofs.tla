-------------------------- MODULE P0OperationsProofs --------------------------
(***************************************************************************)
(* Proofs about P0Operations for every number of runs and targets, every   *)
(* cadence, every set of zones, and whatever the producers report.         *)
(***************************************************************************)
EXTENDS P0Operations, OperatorTheorems, TLAPS

-----------------------------------------------------------------------------
(* The inductive invariant.                                                 *)

EndReport == [event : 1..MaxEvents, status : Ended, scope : SUBSET Target, items : SUBSET Checkpoint]

(* What the workers keep, at each place.                                    *)
WorkerInv ==
  /\ worklist \in [Run -> Worklist \cup {NoWork}]
  /\ report \in [Run -> EndReport \cup {NoWork}]
  /\ \A r \in Run :
       /\ pc[r] # "idle" => worklist[r] \in Worklist
       /\ pc[r] \in {"reported", "acked"} => report[r] \in EndReport
       /\ pc[r] \in {"idle", "prepared"} => runs[r] = "open"

(* The attempts of a target: numbered 1 to their count, once each, and in   *)
(* the order of the instants they were made at.                             *)
Numbered(t) ==
  /\ IsFiniteSet(OfTarget(t))
  /\ {x.number : x \in OfTarget(t)} = 1..Attempts(t)
  /\ \A x, y \in OfTarget(t) :
       /\ x # y => x.number # y.number
       /\ x.number < y.number => x.at.utc <= y.at.utc

LedgerInv ==
  /\ \A t \in Target : Numbered(t)
  /\ \A x \in ledger : x.at.utc <= clock

(* A worker knows no attempt that is not on record.                         *)
KnownInv ==
  \A r \in Run : pc[r] # "idle" =>
    \A t \in Target : worklist[r].known[t] <= Attempts(t)

(* An item of a report is the only one for its target, follows what the     *)
(* worker knew, and is later than that.                                     *)
ItemInv(r, x) ==
  /\ x.run = r /\ x.event = report[r].event
  /\ x.number = worklist[r].known[x.target] + 1
  /\ x.at.utc <= clock
  /\ \A y \in report[r].items : y.target = x.target => y = x
  /\ \A y \in OfTarget(x.target) : y.number < x.number => y.at.utc <= x.at.utc

ReportInv ==
  \A r \in Run : pc[r] \in {"reported", "acked"} =>
    \A x \in report[r].items : ItemInv(r, x)

(* Only events with a receipt have attempts, and only runs on record have    *)
(* events with a receipt.                                                   *)
RecordInv ==
  /\ \A x \in ledger : <<x.run, x.event>> \in receipts
  /\ \A r \in Run, event \in 1..MaxEvents : <<r, event>> \in receipts => runs[r] # "open"

PInv ==
  /\ TypeOK
  /\ WorkerInv
  /\ LedgerInv
  /\ KnownInv
  /\ ReportInv
  /\ RecordInv
  /\ AckedIsRecorded
  /\ CompletedCoversScope

-----------------------------------------------------------------------------
(* Facts about the tables.                                                  *)

LEMMA CountIsNatural ==
  ASSUME NEW t \in Target, Numbered(t)
  PROVE  Attempts(t) \in Nat /\ (Attempts(t) = 0 <=> OfTarget(t) = {})
BY FS_CardinalityType, FS_EmptySet DEF Numbered, Attempts

(* The number the progress shows is the count of the attempts.              *)
LEMMA LatestIsCount ==
  ASSUME NEW t \in Target, ledger \subseteq Checkpoint, Numbered(t)
  PROVE  LatestNumber(t) = Attempts(t)
<1>1. Attempts(t) \in Nat /\ (Attempts(t) = 0 <=> OfTarget(t) = {})
  BY CountIsNatural
<1>2. CASE OfTarget(t) = {}
  BY <1>1, <1>2 DEF LatestNumber
<1>3. CASE OfTarget(t) # {}
  <2>1. Attempts(t) \in {x.number : x \in OfTarget(t)}
    BY <1>1, <1>3 DEF Numbered
  <2>2. PICK last \in OfTarget(t) : last.number = Attempts(t)
    BY <2>1
  <2>3. \A y \in OfTarget(t) : y.number \in 1..Attempts(t)
    BY DEF Numbered
  <2>4. \A y \in OfTarget(t) : y.number <= last.number
    BY <1>1, <2>2, <2>3
  <2> DEFINE highest == CHOOSE x \in OfTarget(t) : \A y \in OfTarget(t) : y.number <= x.number
  <2>5. highest \in OfTarget(t) /\ \A y \in OfTarget(t) : y.number <= highest.number
    BY <2>4
  <2>6. highest.number = Attempts(t)
    BY <1>1, <2>2, <2>3, <2>5
  <2> QED
    BY <1>3, <2>6 DEF LatestNumber
<1> QED
  BY <1>2, <1>3

(* What an end of a producer is made of.                                    *)
LEMMA EndType ==
  ASSUME NEW end \in Ends
  PROVE  /\ end.status \in Ended
         /\ end.scope \in SUBSET Target
         /\ DOMAIN end.outcome \subseteq Target
         /\ \A t \in DOMAIN end.outcome : end.outcome[t] \in Outcome
<1>1. /\ end.status \in Ended /\ end.scope \in SUBSET Target
      /\ end.outcome \in UNION {[targets -> Outcome] : targets \in SUBSET Target}
  BY P0Assumption
<1>2. PICK targets \in SUBSET Target : end.outcome \in [targets -> Outcome]
  BY <1>1
<1> QED
  BY <1>1, <1>2

LEMMA InitPInv == Init => PInv
<1> SUFFICES ASSUME Init PROVE PInv
  OBVIOUS
<1>1. TypeOK
  BY P0Assumption DEF Init, TypeOK
<1>2. WorkerInv /\ KnownInv /\ ReportInv /\ RecordInv /\ AckedIsRecorded /\ CompletedCoversScope
  BY DEF Init, WorkerInv, KnownInv, ReportInv, RecordInv, AckedIsRecorded, CompletedCoversScope
<1>3. ASSUME NEW t \in Target PROVE Numbered(t)
  <2>1. OfTarget(t) = {} /\ IsFiniteSet({}) /\ Attempts(t) = 0
    BY FS_EmptySet DEF Init, OfTarget, Attempts
  <2>2. {x.number : x \in OfTarget(t)} = 1..0
    BY <2>1
  <2> QED
    BY <2>1, <2>2 DEF Numbered
<1>4. LedgerInv
  BY <1>3 DEF Init, LedgerInv
<1> QED
  BY <1>1, <1>2, <1>4 DEF PInv

(* A step that leaves the tables alone keeps what is said about them.       *)
LEMMA SameRecords ==
  ASSUME RecordInv, CompletedCoversScope, UNCHANGED <<ledger, receipts, scopes, runs>>
  PROVE  RecordInv' /\ CompletedCoversScope'
BY DEF RecordInv, CompletedCoversScope, Owed

(* A step that leaves the ledger alone keeps what is said about a target.   *)
LEMMA SameLedger ==
  ASSUME UNCHANGED ledger, NEW t
  PROVE  OfTarget(t)' = OfTarget(t) /\ Attempts(t)' = Attempts(t)
BY DEF OfTarget, Attempts

LEMMA TickPInv ==
  ASSUME PInv, Tick
  PROVE  PInv'
<1> USE DEF Tick
<1>1. clock \in 0..MaxClock /\ clock' = clock + 1 /\ clock' \in 0..MaxClock
  BY P0Assumption DEF PInv, TypeOK
<1>2. TypeOK' /\ WorkerInv' /\ AckedIsRecorded' /\ RecordInv' /\ CompletedCoversScope'
  BY <1>1, SameRecords DEF PInv, TypeOK, WorkerInv, AckedIsRecorded
<1>3. \A x \in Checkpoint : x.at.utc \in 0..MaxClock
  BY DEF Checkpoint, Stamp
<1>4. LedgerInv'
  <2>1. \A t \in Target : Numbered(t)'
    BY SameLedger DEF PInv, LedgerInv, Numbered
  <2>2. \A x \in ledger : x.at.utc <= clock'
    BY <1>1, <1>3 DEF PInv, TypeOK, LedgerInv
  <2> QED
    BY <2>1, <2>2 DEF LedgerInv
<1>5. KnownInv'
  BY DEF PInv, KnownInv, OfTarget, Attempts
<1>6. ReportInv'
  <2>1. \A r \in Run : pc[r] \in {"reported", "acked"} => report[r].items \subseteq Checkpoint
    BY DEF PInv, TypeOK
  <2>2. \A r \in Run : pc[r] \in {"reported", "acked"} =>
          \A x \in report[r].items : x.at.utc <= clock'
    BY <1>1, <1>3, <2>1 DEF PInv, ReportInv, ItemInv
  <2> QED
    BY <2>2 DEF PInv, ReportInv, ItemInv, OfTarget
<1> QED
  BY <1>2, <1>4, <1>5, <1>6 DEF PInv

LEMMA PreparePInv ==
  ASSUME PInv, NEW r \in Run, NEW mode \in {"all", "retry"}, NEW targets \in SUBSET Target,
         NEW input \in Input, Prepare(r, mode, targets, input)
  PROVE  PInv'
<1> USE DEF Prepare
<1>1. \A t \in Target : LatestNumber(t) = Attempts(t) /\ Attempts(t) \in Nat
  BY LatestIsCount, CountIsNatural DEF PInv, TypeOK, LedgerInv
<1> DEFINE known == [t \in Target |-> LatestNumber(t)]
           list == [mode |-> mode, targets |-> targets, input |-> input, known |-> known]
<1>2. known \in [Target -> Nat]
  BY <1>1
<1>3. list \in Worklist
  BY <1>2 DEF Worklist
<1>4. worklist' = [worklist EXCEPT ![r] = list] /\ pc' = [pc EXCEPT ![r] = "prepared"] /\ pc[r] = "idle"
  OBVIOUS
<1>5. worklist'[r] = list /\ pc'[r] = "prepared" /\ \A q \in Run \ {r} : worklist'[q] = worklist[q] /\ pc'[q] = pc[q]
  BY <1>4 DEF PInv, TypeOK, WorkerInv
<1> HIDE DEF list
<1>6. TypeOK'
  BY <1>3, <1>4, <1>5 DEF PInv, TypeOK
<1>7. WorkerInv'
  BY <1>3, <1>4, <1>5 DEF PInv, WorkerInv
<1>8. LedgerInv'
  BY SameLedger DEF PInv, LedgerInv, Numbered
<1>9. KnownInv'
  <2>1. ASSUME NEW q \in Run, pc'[q] # "idle", NEW t \in Target
        PROVE  worklist'[q].known[t] <= Attempts(t)
    <3>1. CASE q = r
      BY <1>1, <1>5, <3>1 DEF list
    <3>2. CASE q # r
      BY <1>5, <2>1, <3>2 DEF PInv, KnownInv
    <3> QED
      BY <3>1, <3>2
  <2> QED
    BY <2>1, SameLedger DEF KnownInv
<1>10. ReportInv'
  BY <1>5, SameLedger DEF PInv, ReportInv, ItemInv
<1>11. AckedIsRecorded' /\ RecordInv' /\ CompletedCoversScope'
  BY <1>5, SameRecords DEF PInv, WorkerInv, AckedIsRecorded, Ended
<1> QED
  BY <1>6, <1>7, <1>8, <1>9, <1>10, <1>11 DEF PInv

LEMMA SignPInv ==
  ASSUME PInv, NEW r \in Run, pc[r] \in {"prepared", "reported", "acked"},
         NEW event \in 1..MaxEvents, NEW end \in Ends, Sign(r, event, end)
  PROVE  PInv'
<1>1. PICK zone \in Zone :
        /\ report' = [report EXCEPT ![r] =
             [event |-> event, status |-> end.status, scope |-> end.scope,
              items |-> {Item(r, t, event, zone, end.outcome[t]) : t \in DOMAIN end.outcome}]]
        /\ pc' = [pc EXCEPT ![r] = "reported"]
        /\ UNCHANGED <<clock, ledger, receipts, scopes, runs, worklist>>
  BY DEF Sign
<1> DEFINE items == {Item(r, t, event, zone, end.outcome[t]) : t \in DOMAIN end.outcome}
           signed == [event |-> event, status |-> end.status, scope |-> end.scope, items |-> items]
<1>2. /\ report'[r] = signed /\ pc'[r] = "reported"
      /\ \A q \in Run \ {r} : report'[q] = report[q] /\ pc'[q] = pc[q]
  BY <1>1 DEF PInv, TypeOK, WorkerInv
<1>3. worklist[r] \in Worklist /\ clock \in 0..MaxClock
  BY DEF PInv, TypeOK, WorkerInv
<1>4. ASSUME NEW t \in DOMAIN end.outcome
      PROVE  Item(r, t, event, zone, end.outcome[t]) \in Checkpoint
  <2>1. t \in Target /\ end.outcome[t] \in Outcome
    BY EndType
  <2>2. worklist[r].known[t] \in Nat /\ worklist[r].input \in Input
    BY <1>3, <2>1 DEF Worklist
  <2>3. [utc |-> clock, zone |-> zone] \in Stamp
    BY <1>3 DEF Stamp
  <2>4. worklist[r].known[t] + 1 \in Nat \ {0}
    BY <2>2
  <2> QED
    BY <2>1, <2>2, <2>3, <2>4 DEF Item, Checkpoint
<1>5. items \subseteq Checkpoint
  BY <1>4
<1>6. signed \in EndReport
  BY <1>5, EndType DEF EndReport
<1>7. TypeOK'
  <2>1. \A q \in Run : IF pc'[q] = "idle" THEN worklist'[q] = NoWork ELSE worklist'[q] \in Worklist
    BY <1>1, <1>2, <1>3 DEF PInv, TypeOK
  <2>2. \A q \in Run : IF pc'[q] \in {"idle", "prepared"} THEN report'[q] = NoWork
          ELSE /\ report'[q].event \in 1..MaxEvents /\ report'[q].status \in Ended
               /\ report'[q].scope \subseteq Target
               /\ report'[q].items \subseteq Checkpoint
    BY <1>2, <1>5, EndType DEF PInv, TypeOK
  <2> QED
    BY <1>1, <2>1, <2>2 DEF PInv, TypeOK
<1> HIDE DEF signed
<1>8. WorkerInv'
  BY <1>1, <1>2, <1>3, <1>6 DEF PInv, WorkerInv
<1>9. LedgerInv'
  BY <1>1, SameLedger DEF PInv, LedgerInv, Numbered
<1>10. KnownInv'
  BY <1>1, <1>2, SameLedger DEF PInv, KnownInv
<1>11. ReportInv'
  <2>1. ASSUME NEW x \in items PROVE ItemInv(r, x)'
    <3>1. PICK t \in DOMAIN end.outcome : x = Item(r, t, event, zone, end.outcome[t])
      BY <2>1
    <3>2. /\ x.target = t /\ x.run = r /\ x.event = event /\ x.number = worklist[r].known[t] + 1
          /\ x.at.utc = clock
      BY <3>1 DEF Item
    <3>3. ASSUME NEW y \in items, y.target = x.target PROVE y = x
      BY <3>1, <3>2, <3>3 DEF Item
    <3>4. \A y \in OfTarget(t) : y.at.utc <= clock
      BY DEF PInv, LedgerInv, OfTarget
    <3>5. clock <= clock
      BY <1>3
    <3> QED
      BY <1>1, <1>2, <3>2, <3>3, <3>4, <3>5, SameLedger DEF ItemInv, signed
  <2>2. ASSUME NEW q \in Run \ {r}, pc[q] \in {"reported", "acked"}, NEW x \in report[q].items
        PROVE  ItemInv(q, x)'
    BY <1>1, <1>2, <2>2, SameLedger DEF PInv, ReportInv, ItemInv
  <2> QED
    BY <1>2, <2>1, <2>2 DEF ReportInv, signed
<1>12. AckedIsRecorded' /\ RecordInv' /\ CompletedCoversScope'
  BY <1>1, <1>2, SameRecords DEF PInv, AckedIsRecorded
<1> QED
  BY <1>7, <1>8, <1>9, <1>10, <1>11, <1>12 DEF PInv

-----------------------------------------------------------------------------
(* The import.                                                              *)

(* The attempt an admissible report adds to a target, if any, is the next.  *)
LEMMA ImportAddsNext ==
  ASSUME PInv, NEW r \in Run, Import(r), NEW t \in Target
  PROVE  \/ OfTarget(t)' = OfTarget(t)
         \/ \E x \in report[r].items :
              /\ OfTarget(t)' = OfTarget(t) \cup {x} /\ x \notin OfTarget(t)
              /\ x \in Checkpoint /\ ItemInv(r, x)
              /\ x.number = Attempts(t) + 1
<1> DEFINE new == {x \in report[r].items : WithKeyOf(x) = {}}
<1>1. pc[r] = "reported" /\ Admissible(r) /\ ledger' = ledger \cup new
  BY DEF Import
<1>2. OfTarget(t)' = OfTarget(t) \cup {x \in new : x.target = t}
  BY <1>1 DEF OfTarget
<1>3. CASE \A x \in new : x.target # t
  BY <1>2, <1>3
<1>4. ASSUME NEW x \in new, x.target = t
      PROVE  /\ OfTarget(t)' = OfTarget(t) \cup {x} /\ x \notin OfTarget(t)
             /\ x \in Checkpoint /\ ItemInv(r, x) /\ x.number = Attempts(t) + 1
  <2>1. x \in Checkpoint /\ ItemInv(r, x)
    BY <1>1 DEF PInv, TypeOK, ReportInv
  <2>2. {y \in new : y.target = t} = {x}
    BY <1>4, <2>1 DEF ItemInv
  <2>3. \A y \in OfTarget(t) : y.number < x.number
    BY <1>1, <1>4 DEF Admissible, NumberFollows
  <2>4. x.number \in Nat /\ x.number # 0
    BY <2>1 DEF Checkpoint
  <2>5. x \notin OfTarget(t)
    BY <2>3, <2>4
  <2>6. Attempts(t) \in Nat /\ (Attempts(t) = 0 <=> OfTarget(t) = {})
    BY CountIsNatural DEF PInv, LedgerInv
  <2>7. worklist[r].known[t] \in Nat /\ worklist[r].known[t] <= Attempts(t)
    <3>1. worklist[r] \in Worklist
      BY <1>1 DEF PInv, WorkerInv
    <3> QED
      BY <1>1, <3>1 DEF PInv, KnownInv, Worklist
  <2>8. x.number <= Attempts(t) + 1
    BY <1>4, <2>1, <2>6, <2>7 DEF ItemInv
  <2>9. Attempts(t) < x.number
    <3>1. CASE OfTarget(t) = {}
      BY <2>4, <2>6, <3>1
    <3>2. CASE OfTarget(t) # {}
      <4>1. Attempts(t) \in {y.number : y \in OfTarget(t)}
        BY <2>6, <3>2 DEF PInv, LedgerInv, Numbered
      <4> QED
        BY <2>3, <4>1
    <3> QED
      BY <3>1, <3>2
  <2>10. x.number = Attempts(t) + 1
    BY <2>4, <2>6, <2>8, <2>9
  <2> QED
    BY <1>2, <2>1, <2>2, <2>5, <2>10
<1> QED
  BY <1>3, <1>4

(* Appending the next attempt keeps the numbering and its order.            *)
LEMMA ImportNumbered ==
  ASSUME PInv, NEW r \in Run, Import(r), NEW t \in Target
  PROVE  /\ Numbered(t)'
         /\ Attempts(t) <= Attempts(t)'
         /\ \A x \in OfTarget(t)' \ OfTarget(t) : x.number = Attempts(t) + 1
<1>1. Numbered(t) /\ Attempts(t) \in Nat
  BY CountIsNatural DEF PInv, LedgerInv
<1>2. CASE OfTarget(t)' = OfTarget(t)
  <2>1. Attempts(t)' = Attempts(t)
    BY <1>2 DEF Attempts
  <2> QED
    BY <1>1, <1>2, <2>1 DEF Numbered
<1>3. ASSUME NEW x \in report[r].items,
             OfTarget(t)' = OfTarget(t) \cup {x}, x \notin OfTarget(t),
             x \in Checkpoint, ItemInv(r, x), x.number = Attempts(t) + 1
      PROVE  /\ Numbered(t)'
             /\ Attempts(t) <= Attempts(t)'
             /\ \A y \in OfTarget(t)' \ OfTarget(t) : y.number = Attempts(t) + 1
  <2>1. IsFiniteSet(OfTarget(t)') /\ Attempts(t)' = Attempts(t) + 1
    BY <1>1, <1>3, FS_AddElement DEF Numbered, Attempts
  <2>2. \A y \in OfTarget(t) : y.number \in 1..Attempts(t)
    BY <1>1 DEF Numbered
  <2>3. {y.number : y \in OfTarget(t)'} = {y.number : y \in OfTarget(t)} \cup {Attempts(t) + 1}
    BY <1>3
  <2>4. {y.number : y \in OfTarget(t)'} = 1..(Attempts(t) + 1)
    BY <1>1, <2>3 DEF Numbered
  <2>5. x.target = t
    BY <1>3 DEF OfTarget
  <2>6. \A y \in OfTarget(t) : y.number < x.number /\ y.at.utc <= x.at.utc
    BY <1>1, <1>3, <2>2, <2>5 DEF ItemInv
  <2>7. ASSUME NEW y \in OfTarget(t)', NEW z \in OfTarget(t)'
        PROVE  /\ y # z => y.number # z.number
               /\ y.number < z.number => y.at.utc <= z.at.utc
    <3>1. CASE y \in OfTarget(t) /\ z \in OfTarget(t)
      BY <1>1, <3>1 DEF Numbered
    <3>2. CASE y \in OfTarget(t) /\ z = x
      BY <1>1, <1>3, <2>2, <2>6, <3>2
    <3>3. CASE y = x /\ z \in OfTarget(t)
      BY <1>1, <1>3, <2>2, <2>6, <3>3
    <3>4. CASE y = x /\ z = x
      BY <1>1, <1>3, <3>4
    <3> QED
      BY <1>3, <3>1, <3>2, <3>3, <3>4
  <2>8. Numbered(t)'
    BY <2>1, <2>4, <2>7 DEF Numbered
  <2> QED
    BY <1>1, <1>3, <2>1, <2>8
<1> QED
  BY <1>2, <1>3, ImportAddsNext

LEMMA ImportPInv ==
  ASSUME PInv, NEW r \in Run, Import(r)
  PROVE  PInv'
<1> DEFINE new == {x \in report[r].items : WithKeyOf(x) = {}}
<1>1. /\ pc[r] = "reported" /\ Admissible(r)
      /\ receipts' = receipts \cup {<<r, report[r].event>>}
      /\ scopes' = Projected(r)
      /\ runs' = IF runs[r] = "open" THEN [runs EXCEPT ![r] = report[r].status] ELSE runs
      /\ ledger' = ledger \cup new
      /\ pc' = [pc EXCEPT ![r] = "acked"] \/ UNCHANGED pc
      /\ UNCHANGED <<clock, worklist, report>>
  BY DEF Import
<1>2. report[r] \in EndReport /\ report[r].items \subseteq Checkpoint
  BY <1>1 DEF PInv, TypeOK, WorkerInv
<1>3. pc'[r] \in {"reported", "acked"} /\ \A q \in Run \ {r} : pc'[q] = pc[q]
  BY <1>1 DEF PInv, TypeOK
<1>4. runs'[r] = report[r].status /\ \A q \in Run \ {r} : runs'[q] = runs[q]
  BY <1>1 DEF PInv, TypeOK, Admissible, RunMatches
<1>5. TypeOK'
  <2>1. runs' \in [Run -> Ended \cup {"open"}] /\ receipts' \subseteq Run \X (1..MaxEvents)
    BY <1>1, <1>2 DEF PInv, TypeOK, EndReport
  <2>2. pc' \in [Run -> {"idle", "prepared", "reported", "acked"}]
    BY <1>1 DEF PInv, TypeOK
  <2>3. scopes' \subseteq [run : Run, event : 1..MaxEvents, targets : SUBSET Target]
    BY <1>1, <1>2 DEF PInv, TypeOK, Projected, EndReport
  <2> QED
    BY <1>1, <1>2, <1>3, <2>1, <2>2, <2>3 DEF PInv, TypeOK
<1>6. WorkerInv'
  BY <1>1, <1>3, <1>4 DEF PInv, WorkerInv
<1>7. \A x \in new : x.at.utc <= clock
  BY <1>1 DEF PInv, ReportInv, ItemInv
<1>8. LedgerInv'
  BY <1>1, <1>7, ImportNumbered DEF PInv, LedgerInv
<1>9. ASSUME NEW q \in Run, pc[q] # "idle", NEW t \in Target
      PROVE  /\ worklist[q].known[t] \in Nat
             /\ worklist[q].known[t] <= Attempts(t)
             /\ Attempts(t) \in Nat
  <2>1. worklist[q] \in Worklist
    BY <1>9 DEF PInv, WorkerInv
  <2> QED
    BY <1>9, <2>1, CountIsNatural DEF PInv, KnownInv, LedgerInv, Worklist
<1>10. KnownInv'
  <2>1. \A t \in Target : Attempts(t)' \in Nat /\ Attempts(t) <= Attempts(t)'
    <3>1. \A t \in Target : Numbered(t)' => Attempts(t)' \in Nat
      BY FS_CardinalityType DEF Numbered, Attempts
    <3> QED
      BY <3>1, ImportNumbered
  <2> QED
    BY <1>1, <1>3, <1>9, <2>1 DEF KnownInv
<1>11. ReportInv'
  <2>1. ASSUME NEW q \in Run, pc[q] \in {"reported", "acked"}, NEW x \in report[q].items
        PROVE  ItemInv(q, x)'
    <3>1. ItemInv(q, x) /\ x \in Checkpoint /\ x.target \in Target
      BY <2>1 DEF PInv, TypeOK, ReportInv, Checkpoint
    <3>2. ASSUME NEW y \in OfTarget(x.target)', y.number < x.number
          PROVE  y.at.utc <= x.at.utc
      <4>1. CASE y \in OfTarget(x.target)
        BY <3>1, <3>2, <4>1 DEF ItemInv
      <4>2. CASE y \notin OfTarget(x.target)
        <5>1. y.number = Attempts(x.target) + 1
          BY <3>1, <3>2, <4>2, ImportNumbered
        <5>2. x.number <= Attempts(x.target) + 1 /\ x.number \in Nat /\ Attempts(x.target) \in Nat
          BY <1>9, <2>1, <3>1 DEF ItemInv, Checkpoint
        <5> QED
          BY <3>2, <5>1, <5>2
      <4> QED
        BY <4>1, <4>2
    <3> QED
      BY <1>1, <3>1, <3>2 DEF ItemInv
  <2> QED
    BY <1>1, <1>3, <2>1 DEF ReportInv
<1>12. ASSUME NEW x \in report[r].items
       PROVE  \E y \in ledger' :
                /\ y.target = x.target /\ y.run = x.run /\ y.event = x.event
                /\ y.number = x.number /\ y.at.utc = x.at.utc /\ y.outcome = x.outcome
                /\ y.input = x.input
  <2>1. CASE WithKeyOf(x) = {}
    BY <1>1, <2>1
  <2>2. CASE WithKeyOf(x) # {}
    BY <1>1, <2>2 DEF Admissible, SameContent, WithKeyOf
  <2> QED
    BY <2>1, <2>2
<1>13. AckedIsRecorded'
  <2>1. ASSUME NEW q \in Run \ {r}, pc'[q] = "acked", NEW x \in report[q].items
        PROVE  \E y \in ledger' :
                 /\ y.target = x.target /\ y.run = x.run /\ y.event = x.event
                 /\ y.number = x.number /\ y.at.utc = x.at.utc /\ y.outcome = x.outcome
                 /\ y.input = x.input
    <3>1. pc[q] = "acked"
      BY <1>3, <2>1
    <3> QED
      BY <1>1, <1>4, <2>1, <3>1 DEF PInv, AckedIsRecorded
  <2>2. ASSUME NEW q \in Run \ {r}, pc'[q] = "acked"
        PROVE  <<q, report[q].event>> \in receipts' /\ runs'[q] = report[q].status
    <3>1. pc[q] = "acked"
      BY <1>3, <2>2
    <3> QED
      BY <1>1, <1>4, <2>2, <3>1 DEF PInv, AckedIsRecorded
  <2>3. <<r, report[r].event>> \in receipts' /\ runs'[r] = report[r].status
    BY <1>1, <1>4
  <2> QED
    BY <1>1, <1>12, <2>1, <2>2, <2>3 DEF AckedIsRecorded
<1>14. RecordInv'
  <2>1. \A x \in new : x.run = r /\ x.event = report[r].event
    BY <1>1 DEF PInv, ReportInv, ItemInv
  <2>2. report[r].status # "open"
    BY <1>2 DEF EndReport, Ended
  <2> QED
    BY <1>1, <1>4, <2>1, <2>2 DEF PInv, RecordInv
<1>15. CompletedCoversScope'
  <2> DEFINE Covered(rows, q, event) == {x.target : x \in {y \in rows : y.run = q /\ y.event = event}}
  <2> SUFFICES ASSUME NEW q \in Run, NEW event \in 1..MaxEvents, runs'[q] = "completed",
                      <<q, event>> \in receipts'
               PROVE  Covered(ledger', q, event) = Owed(scopes', q, event)
    BY DEF CompletedCoversScope
  <2>1. \A x \in report[r].items : x.run = r /\ x.event = report[r].event
    BY <1>1 DEF PInv, ReportInv, ItemInv
  <2>2. <<q, event>> \in receipts => runs[q] = "completed"
    BY <1>1, <1>4 DEF PInv, RecordInv, TypeOK
  <2>3. <<q, event>> \in receipts => Covered(ledger, q, event) = Owed(scopes, q, event)
    BY <2>2 DEF PInv, CompletedCoversScope
  <2>4. CASE <<q, event>> # <<r, report[r].event>>
    <3>1. <<q, event>> \in receipts
      BY <1>1, <2>4
    <3>2. Covered(ledger', q, event) = Covered(ledger, q, event)
      BY <1>1, <2>1, <2>4
    <3>3. {x \in scopes' : x.run = q /\ x.event = event} = {x \in scopes : x.run = q /\ x.event = event}
      BY <1>1, <2>4 DEF Projected
    <3> QED
      BY <2>3, <3>1, <3>2, <3>3 DEF Owed
  <2>5. CASE <<q, event>> = <<r, report[r].event>>
    <3>1. Reported(r) = Owed(scopes', q, event)
      BY <1>1, <1>4, <2>5 DEF Admissible, ScopeReported
    <3>2. CASE <<q, event>> \in receipts
      <4>1. scopes' = scopes
        BY <1>1, <2>5, <3>2 DEF Projected
      <4>2. Covered(ledger', q, event) \subseteq Covered(ledger, q, event) \cup Reported(r)
        BY <1>1 DEF Reported
      <4>3. Covered(ledger, q, event) \subseteq Covered(ledger', q, event)
        BY <1>1
      <4> QED
        BY <2>3, <3>1, <3>2, <4>1, <4>2, <4>3
    <3>3. CASE <<q, event>> \notin receipts
      <4>1. \A x \in ledger : ~ (x.run = q /\ x.event = event)
        BY <3>3 DEF PInv, RecordInv
      <4>2. new = report[r].items
        BY <2>1, <2>5, <4>1 DEF WithKeyOf
      <4>3. {y \in ledger' : y.run = q /\ y.event = event} = report[r].items
        BY <1>1, <2>1, <2>5, <4>1, <4>2
      <4> QED
        BY <3>1, <4>3 DEF Reported
    <3> QED
      BY <3>2, <3>3
  <2> QED
    BY <2>4, <2>5
<1> QED
  BY <1>5, <1>6, <1>8, <1>10, <1>11, <1>13, <1>14, <1>15 DEF PInv

LEMMA NextPInv == PInv /\ [Next]_vars => PInv'
<1> SUFFICES ASSUME PInv, [Next]_vars PROVE PInv'
  OBVIOUS
<1>1. CASE Tick
  BY <1>1, TickPInv
<1>2. ASSUME NEW r \in Run, NEW input \in Input, PrepareAll(r, input) \/ PrepareRetry(r, input)
      PROVE  PInv'
  <2>1. RetryTargets(input) \in SUBSET Target /\ Target \in SUBSET Target
    BY DEF RetryTargets
  <2> QED
    BY <1>2, <2>1, PreparePInv DEF PrepareAll, PrepareRetry
<1>3. ASSUME NEW r \in Run, Report(r) PROVE PInv'
  <2>1. 1 \in 1..MaxEvents
    BY P0Assumption
  <2> QED
    BY <1>3, <2>1, SignPInv DEF Report
<1>4. ASSUME NEW r \in Run, ResolveAgain(r) PROVE PInv'
  <2>1. report[r].event \in 1..MaxEvents
    BY <1>4 DEF PInv, TypeOK, ResolveAgain
  <2> QED
    BY <1>4, <2>1, SignPInv DEF ResolveAgain
<1>5. ASSUME NEW r \in Run, EndAgain(r) PROVE PInv'
  <2>1. report[r].event \in 1..MaxEvents
    BY <1>5 DEF PInv, TypeOK, EndAgain
  <2>2. report[r].event + 1 \in 1..MaxEvents
    BY <1>5, <2>1, P0Assumption DEF EndAgain
  <2> QED
    BY <1>5, <2>2, SignPInv DEF EndAgain
<1>6. ASSUME NEW r \in Run, Import(r) PROVE PInv'
  BY <1>6, ImportPInv
<1>7. CASE UNCHANGED vars
  <2>1. RecordInv' /\ CompletedCoversScope'
    BY <1>7, SameRecords DEF vars, PInv
  <2>2. TypeOK' /\ WorkerInv' /\ AckedIsRecorded'
    BY <1>7 DEF vars, PInv, TypeOK, WorkerInv, AckedIsRecorded
  <2>3. LedgerInv' /\ KnownInv' /\ ReportInv'
    BY <1>7, SameLedger DEF vars, PInv, LedgerInv, Numbered, KnownInv, ReportInv, ItemInv
  <2> QED
    BY <2>1, <2>2, <2>3 DEF PInv
<1> QED
  BY <1>1, <1>2, <1>3, <1>4, <1>5, <1>6, <1>7 DEF Next

-----------------------------------------------------------------------------
(* The order of the attempts.                                               *)

(* The text of two observation times puts one before the other unless they  *)
(* are written alike, and orders instants of one zone as they happened.     *)
LEMMA TextOrder ==
  ASSUME NEW s \in Stamp, NEW u \in Stamp
  PROVE  /\ s = u \/ TextBefore(s, u) \/ TextBefore(u, s)
         /\ s.zone = u.zone /\ TextBefore(s, u) => s.utc < u.utc
<1>1. /\ s.utc \in Int /\ s.zone \in Int /\ u.utc \in Int /\ u.zone \in Int
  <2>1. s.utc \in 0..MaxClock /\ u.utc \in 0..MaxClock /\ s.zone \in Zone /\ u.zone \in Zone
    BY DEF Stamp
  <2>2. \A n \in Zone : n \in Int
    BY P0Assumption
  <2> QED
    BY <2>1, <2>2
<1>2. s.utc = u.utc /\ s.zone = u.zone => s = u
  BY DEF Stamp
<1> QED
  BY <1>1, <1>2 DEF TextBefore

LEMMA TwoZones == PInv => RefusalNeedsTwoZones
<1> SUFFICES ASSUME PInv, NEW x \in ledger, NEW y \in ledger, x.target = y.target,
                    x.at.zone = y.at.zone, Precedes(x, y)
             PROVE  x.number < y.number
  BY DEF RefusalNeedsTwoZones
<1>1. x \in Checkpoint /\ y \in Checkpoint
  BY DEF PInv, TypeOK
<1>2. /\ x.at \in Stamp /\ y.at \in Stamp /\ x.number \in Nat /\ y.number \in Nat
      /\ x.at.utc \in Int /\ y.at.utc \in Int /\ x.target \in Target
  BY <1>1 DEF Checkpoint, Stamp
<1>3. CASE x.at = y.at /\ x.number < y.number
  BY <1>3
<1>4. CASE TextBefore(x.at, y.at)
  <2>1. x.at.utc < y.at.utc
    BY <1>2, <1>4, TextOrder
  <2>2. x # y /\ x \in OfTarget(x.target) /\ y \in OfTarget(x.target)
    BY <1>2, <2>1 DEF OfTarget
  <2>3. x.number # y.number /\ (y.number < x.number => y.at.utc <= x.at.utc)
    BY <1>2, <2>2 DEF PInv, LedgerInv, Numbered
  <2> QED
    BY <1>2, <2>1, <2>3
<1> QED
  BY <1>3, <1>4 DEF Precedes

(* Once attempts can be reduced, the last in text and the highest number    *)
(* are one attempt, among all of a target's and among some of them.         *)
LEMMA LastIsHighest ==
  ASSUME PInv, Reducible, NEW t \in Target, NEW rows \in SUBSET OfTarget(t), rows # {}
  PROVE  LastOf(rows) \in rows /\ LastOf(rows) = Highest(rows)
<1>1. \A x \in rows : x \in Checkpoint /\ x \in OfTarget(t)
  BY DEF PInv, TypeOK, OfTarget
<1>2. \A x \in rows : x.number \in Nat /\ x.at \in Stamp /\ x.number <= Attempts(t)
  <2>1. \A x \in OfTarget(t) : x.number \in 1..Attempts(t)
    BY DEF PInv, LedgerInv, Numbered
  <2> QED
    BY <1>1, <2>1 DEF Checkpoint
<1>3. PICK top \in rows : \A y \in rows : y.number <= top.number
  <2> DEFINE numbers == {x.number : x \in rows}
  <2>1. numbers \in SUBSET Nat /\ numbers # {} /\ \A n \in numbers : n <= Attempts(t)
    BY <1>2
  <2>2. Attempts(t) \in Nat
    BY CountIsNatural DEF PInv, LedgerInv
  <2> HIDE DEF numbers
  <2>3. \E n \in numbers : \A m \in numbers : m <= n
    BY <2>1, <2>2, GreatestNumber
  <2> QED
    BY <2>3 DEF numbers
<1>4. ASSUME NEW x \in rows, NEW y \in rows, x # y
      PROVE  x.number # y.number /\ (Precedes(x, y) <=> x.number < y.number)
  <2>1. /\ x.number # y.number
        /\ Precedes(x, y) => x.number < y.number
        /\ Precedes(y, x) => y.number < x.number
    BY <1>1, <1>4 DEF Reducible
  <2>2. Precedes(x, y) \/ Precedes(y, x)
    BY <1>2, <1>4, <2>1, TextOrder DEF Precedes
  <2> QED
    BY <1>2, <2>1, <2>2
<1>5. \A y \in rows \ {top} : Precedes(y, top)
  BY <1>2, <1>3, <1>4
<1>6. LastOf(rows) \in rows /\ \A y \in rows \ {LastOf(rows)} : Precedes(y, LastOf(rows))
  BY <1>5 DEF LastOf
<1>7. LastOf(rows) = top
  BY <1>2, <1>3, <1>4, <1>6
<1>8. Highest(rows) \in rows /\ \A y \in rows : y.number <= Highest(rows).number
  BY <1>3 DEF Highest
<1>9. Highest(rows) = top
  BY <1>2, <1>3, <1>4, <1>8
<1> QED
  BY <1>6, <1>7, <1>9

LEMMA DriverAndView ==
  ASSUME PInv, Reducible, NEW input \in Input
  PROVE  RetryTargets(input) = DueByView(input)
<1> SUFFICES ASSUME NEW t \in Target
             PROVE  t \in RetryTargets(input) <=> t \in DueByView(input)
  BY DEF RetryTargets, DueByView
<1> DEFINE rows == OfTarget(t)
           good == Resolved(rows)
<1>1. /\ rows = {x \in ledger : x.target = t}
      /\ good = {x \in rows : x.outcome = "resolved"} /\ good \in SUBSET rows
  BY DEF OfTarget, Resolved
<1>2. rows # {} => LastOf(rows) = Highest(rows)
  BY LastIsHighest
<1>3. good # {} => LastOf(good) = Highest(good) /\ LastOf(good) \in good
  BY <1>1, LastIsHighest
<1>4. clock \in Int /\ Cadence \in Int /\ (good # {} => LastOf(good).at.utc \in Int)
  <2>1. \A x \in good : x \in Checkpoint
    BY <1>1 DEF PInv, TypeOK
  <2>2. \A x \in good : x.at.utc \in Int
    BY <2>1 DEF Checkpoint, Stamp
  <2> QED
    BY <1>3, <2>2, P0Assumption DEF PInv, TypeOK
<1>5. good # {} => (clock - LastOf(good).at.utc >= Cadence <=> clock >= Highest(good).at.utc + Cadence)
  BY <1>3, <1>4
<1>6. t \in RetryTargets(input) <=>
        \/ rows = {}
        \/ /\ ~ (LastOf(rows).outcome = "validation_rejected" /\ LastOf(rows).input = input)
           /\ good = {} \/ clock - LastOf(good).at.utc >= Cadence
  BY DEF RetryTargets
<1>7. t \in DueByView(input) <=>
        \/ rows = {}
        \/ /\ ~ (Highest(rows).outcome = "validation_rejected" /\ Highest(rows).input = input)
           /\ good = {} \/ clock >= Highest(good).at.utc + Cadence
  BY <1>1 DEF DueByView
<1> HIDE DEF rows, good
<1> QED
  BY <1>2, <1>5, <1>6, <1>7

-----------------------------------------------------------------------------
(* Theorems.                                                                *)

(* The inductive invariant holds of every reachable state, whatever the     *)
(* workers' imports overtake.                                               *)
THEOREM OperationsInvariant == Spec => []PInv
<1> QED
  BY InitPInv, NextPInv, PTL DEF Spec

(* Ledger, receipts, runs and workers keep their types.                     *)
THEOREM TypeCorrect == Spec => []TypeOK
<1>1. PInv => TypeOK
  BY DEF PInv
<1> QED
  BY <1>1, OperationsInvariant, PTL

(* An answered import is on record as it was reported, although replies     *)
(* were lost and its checkpoints were resolved again.                       *)
THEOREM AnswersAreRecorded == Spec => []AckedIsRecorded
<1>1. PInv => AckedIsRecorded
  BY DEF PInv
<1> QED
  BY <1>1, OperationsInvariant, PTL

(* The attempts of every target are numbered 1 to their count: a worker     *)
(* whose snapshot was overtaken is refused.                                 *)
THEOREM NoStaleAttempt == Spec => []EveryAttemptKnewTheLast
<1>1. PInv => EveryAttemptKnewTheLast
  BY DEF PInv, LedgerInv, Numbered, EveryAttemptKnewTheLast
<1> QED
  BY <1>1, OperationsInvariant, PTL

(* Attempts of a target written in one zone are in the order their numbers  *)
(* say, so that only two zones make p0_checkpoint_attempt_regressed.        *)
THEOREM OneZoneNeverRegresses == Spec => []RefusalNeedsTwoZones
<1> QED
  BY TwoZones, OperationsInvariant, PTL

(* While all producers write observed_at in one zone the progress can       *)
(* always be reduced: no retry is ever refused.                             *)
THEOREM OneZoneIsReducible == Spec => []((\A y, z \in Zone : y = z) => Reducible)
<1>1. ASSUME PInv, \A y, z \in Zone : y = z PROVE Reducible
  <2>1. \A x \in ledger : x.at.zone \in Zone
    BY <1>1 DEF PInv, TypeOK, Checkpoint, Stamp
  <2>2. ASSUME NEW t \in Target, NEW x \in OfTarget(t), NEW y \in OfTarget(t), x # y
        PROVE  x.number # y.number /\ (Precedes(x, y) => x.number < y.number)
    <3>1. x \in ledger /\ y \in ledger /\ x.target = y.target
      BY DEF OfTarget
    <3>2. x.at.zone = y.at.zone
      BY <1>1, <2>1, <3>1
    <3>3. x.number # y.number
      BY <1>1, <2>2 DEF PInv, LedgerInv, Numbered
    <3> QED
      BY <1>1, <3>1, <3>2, <3>3, TwoZones DEF RefusalNeedsTwoZones
  <2> QED
    BY <2>2 DEF Reducible
<1>2. PInv => ((\A y, z \in Zone : y = z) => Reducible)
  BY <1>1
<1> QED
  BY <1>2, OperationsInvariant, PTL

(* Every event of a completed run left an attempt for exactly the targets   *)
(* it signed, or for the whole work unit when it signed none, whatever its  *)
(* worklist asked for and however often it was resolved and imported.       *)
THEOREM CompletionCoversScope == Spec => []CompletedCoversScope
<1>1. PInv => CompletedCoversScope
  BY DEF PInv
<1> QED
  BY <1>1, OperationsInvariant, PTL

(* Whenever the driver prepares a retry at all, it prepares the targets the *)
(* database's view shows as due, although one orders the attempts by the    *)
(* text of their time and the other by number.                              *)
THEOREM DriverFollowsView == Spec => RetryFollowsView
<1> DEFINE Follows ==
      \A r \in Run :
        (pc[r] = "idle" /\ pc'[r] = "prepared" /\ worklist'[r].mode = "retry") =>
          worklist'[r].targets = DueByView(worklist'[r].input)
<1>1. PInv /\ [Next]_vars => [Follows]_vars
  <2> SUFFICES ASSUME PInv, Next, NEW r \in Run, pc[r] = "idle", pc'[r] = "prepared",
                      worklist'[r].mode = "retry"
               PROVE  worklist'[r].targets = DueByView(worklist'[r].input)
    OBVIOUS
  <2>1. ASSUME NEW q \in Run, Report(q) \/ ResolveAgain(q) \/ EndAgain(q) \/ Import(q)
        PROVE  FALSE
    <3>1. pc' = pc \/ pc' = [pc EXCEPT ![q] = "reported"] \/ pc' = [pc EXCEPT ![q] = "acked"]
      BY <2>1 DEF Report, ResolveAgain, EndAgain, Import, Sign
    <3> QED
      BY <3>1 DEF PInv, TypeOK
  <2>2. ~ Tick
    BY DEF Tick
  <2>3. PICK q \in Run, input \in Input : PrepareAll(q, input) \/ PrepareRetry(q, input)
    BY <2>1, <2>2 DEF Next
  <2>4. PICK mode \in {"all", "retry"}, targets \in SUBSET Target :
          Prepare(q, mode, targets, input) /\ (mode = "retry" => Reducible /\ targets = RetryTargets(input))
    <3>1. RetryTargets(input) \in SUBSET Target
      BY DEF RetryTargets
    <3> QED
      BY <2>3, <3>1 DEF PrepareAll, PrepareRetry
  <2>5. q = r
    BY <2>4 DEF PInv, TypeOK, Prepare
  <2>6. worklist'[r] = [mode |-> mode, targets |-> targets, input |-> input,
                        known |-> [t \in Target |-> LatestNumber(t)]]
    BY <2>4, <2>5 DEF PInv, WorkerInv, Prepare
  <2> QED
    BY <2>4, <2>6, DriverAndView
<1> QED
  BY <1>1, OperationsInvariant, PTL DEF Spec, RetryFollowsView
===============================================================================
