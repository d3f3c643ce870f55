-------------------------- MODULE IncidentsProofs --------------------------
(***************************************************************************)
(* The properties of Incidents, proved for every set of windows and every  *)
(* number of batches, verdicts and faults.                                 *)
(*                                                                         *)
(* The arguments.  OneOpenPerWindow is inductive with the types alone, and *)
(* it is what makes the record an update hits the only open one, on which  *)
(* everything else leans.  Three properties are not inductive, because a   *)
(* verdict or a batch is between two of its commits when a step is taken:  *)
(* ClosedIsLearned needs LessonFirst, EvidenceIsOnRecord CountsOnRecord,   *)
(* and AuditTrail, which speaks of the moments the lock is free, Audited,  *)
(* which says how far the log lags behind at the others.                   *)
(***************************************************************************)
EXTENDS Incidents, FiniteSetTheorems, SequenceTheorems, TLAPS

Threat == [window : Windows, action : Actions, evidence : Nat, status : Statuses]
Row(ids) == [threat : ids, verdict : Verdicts]
BatchWork == [kind : {"batch"}, step : {"stored", "judging"}, todo : SUBSET Windows]
VerdictWork(ids) == [kind : {"verdict"}, id : ids, verdict : Verdicts, done : 0 .. 2]

(* Counted events are stored ones, also between the two steps of a batch.  *)
CountsOnRecord ==
    \A w \in Windows :
        counts[w] + (IF IsBatch /\ work.step = "stored" /\ w \in work.todo THEN 1 ELSE 0)
            <= stored[w]

(* A verdict past its first step has been learned and not yet logged.      *)
Owed(i) == IsVerdict /\ work.id = i /\ work.done >= 1

LessonFirst == IsVerdict /\ work.done >= 1 =>
                   Cardinality(RowsOf(work.id)) < learned[work.id]

(* The log of a threat, unless empty, has a last row.                      *)
HasLast(i) == RowsOf(i) # {} => \E k \in RowsOf(i) : \A l \in RowsOf(i) : l <= k
LogEnds == \A i \in Ids : HasLast(i)
LastRow(i) == CHOOSE k \in RowsOf(i) : \A l \in RowsOf(i) : l <= k
LoggedStatus(i) == IF RowsOf(i) = {} THEN "open" ELSE StatusFor(feedback[LastRow(i)].verdict)

(* AuditTrail between the steps of a verdict: a lesson not yet logged, and *)
(* the status the verdict at work has set.                                 *)
Audited ==
    begun.faults = 0 =>
        \A i \in Ids :
            /\ learned[i] = Cardinality(RowsOf(i)) + (IF Owed(i) THEN 1 ELSE 0)
            /\ threats[i].status = IF Owed(i) /\ work.done = 2
                                   THEN StatusFor(work.verdict) ELSE LoggedStatus(i)

(* A sequence over a set is one over every larger set.                     *)
LEMMA SeqMonotone ==
    ASSUME NEW S, NEW T, S \subseteq T, NEW s \in Seq(S)
    PROVE  s \in Seq(T)
<1>1. /\ Len(s) \in Nat
      /\ s \in [1 .. Len(s) -> S]
  OBVIOUS
<1>2. s \in [1 .. Len(s) -> T]
  BY <1>1
<1>3. QED
  BY <1>1, <1>2, SeqDef

(* What TypeOK says of single threats, rows and steps.                     *)
LEMMA TypeFacts ==
    ASSUME TypeOK
    PROVE  /\ Len(threats) \in Nat /\ Ids = 1 .. Len(threats)
           /\ \A i \in Ids : threats[i] \in Threat
           /\ DOMAIN learned = Ids /\ learned \in [Ids -> Nat]
           /\ Len(feedback) \in Nat /\ DOMAIN feedback = 1 .. Len(feedback)
           /\ \A k \in DOMAIN feedback : feedback[k] \in Row(Ids)
           /\ IsBatch => work \in BatchWork
           /\ IsVerdict => work \in VerdictWork(Ids)
           /\ LockFree => ~IsBatch /\ ~IsVerdict
<1>1. /\ threats \in Seq(Threat)
      /\ learned \in Seq(Nat) /\ Len(learned) = Len(threats)
      /\ feedback \in Seq(Row(Ids))
  BY DEF TypeOK, Threat, Row
<1>2. work = NoWork \/ work \in BatchWork \/ work \in VerdictWork(Ids)
  BY DEF TypeOK, BatchWork, VerdictWork
<1>3. /\ work = NoWork => work.kind = "none"
      /\ work \in BatchWork => work.kind = "batch"
      /\ work \in VerdictWork(Ids) => work.kind = "verdict"
  BY DEF NoWork, BatchWork, VerdictWork
<1>4. /\ Len(threats) \in Nat /\ Ids = 1 .. Len(threats)
      /\ \A i \in Ids : threats[i] \in Threat
  BY <1>1 DEF Ids
<1>5. DOMAIN learned = Ids /\ learned \in [Ids -> Nat]
  BY <1>1 DEF Ids
<1>6. /\ Len(feedback) \in Nat /\ DOMAIN feedback = 1 .. Len(feedback)
      /\ \A k \in DOMAIN feedback : feedback[k] \in Row(Ids)
  BY <1>1
<1>7. QED
  BY <1>2, <1>3, <1>4, <1>5, <1>6 DEF IsBatch, IsVerdict, LockFree

-----------------------------------------------------------------------------
(* Every step keeps the types; the rows of the log and the verdict at work *)
(* stay inside the growing table.                                          *)
LEMMA TypeStep == TypeOK /\ [Next]_vars => TypeOK'
<1> SUFFICES ASSUME TypeOK, [Next]_vars PROVE TypeOK'
  OBVIOUS
<1>t. /\ stored \in [Windows -> Nat] /\ counts \in [Windows -> Nat]
      /\ threats \in Seq(Threat)
      /\ learned \in Seq(Nat) /\ Len(learned) = Len(threats)
      /\ feedback \in Seq(Row(Ids))
      /\ begun \in [{"batches", "verdicts", "faults"} -> Nat]
  BY DEF TypeOK, Threat, Row
<1>w. work = NoWork \/ work \in BatchWork \/ work \in VerdictWork(Ids)
  BY DEF TypeOK, BatchWork, VerdictWork
<1>1. ASSUME NEW ws \in SUBSET Windows, StoreEvents(ws) PROVE TypeOK'
  <2>1. work' \in BatchWork
    BY <1>1 DEF StoreEvents, BatchWork
  <2>2. stored' \in [Windows -> Nat]
    BY <1>1, <1>t DEF StoreEvents, InsertEvents
  <2>3. begun' \in [{"batches", "verdicts", "faults"} -> Nat]
    BY <1>1, <1>t DEF StoreEvents, Count
  <2>4. QED
    BY <1>1, <1>t, <2>1, <2>2, <2>3 DEF StoreEvents, TypeOK, Ids, BatchWork, Threat, Row
<1>2. CASE CountEvents
  <2>1. work' \in BatchWork
    BY <1>2, TypeFacts DEF CountEvents, BatchWork
  <2>2. counts' \in [Windows -> Nat]
    BY <1>2, <1>t DEF CountEvents, Counted
  <2>3. QED
    BY <1>2, <1>t, <2>1, <2>2 DEF CountEvents, TypeOK, Ids, BatchWork, Threat, Row
<1>3. ASSUME NEW w \in Windows, NEW a \in Actions, NEW anomalous \in BOOLEAN,
             Judge(w, a, anomalous)
      PROVE  TypeOK'
  <2>1. work' \in BatchWork
    BY <1>3, TypeFacts DEF Judge, BatchWork
  <2>2. /\ threats' \in Seq(Threat) /\ learned' \in Seq(Nat)
        /\ Len(learned') = Len(threats') /\ Ids \subseteq Ids'
    <3>1. CASE UNCHANGED <<threats, learned>>
      BY <1>t, <3>1 DEF Ids
    <3>2. CASE InsertThreat(w, a)
      <4> DEFINE new == [window |-> w, action |-> a, evidence |-> counts[w],
                         status |-> "open"]
      <4>1. new \in Threat
        BY <1>t DEF Statuses, Threat
      <4>2. threats' = Append(threats, new) /\ learned' = Append(learned, 0)
        BY <3>2 DEF InsertThreat
      <4> HIDE DEF new
      <4>3. QED
        BY <1>t, <4>1, <4>2 DEF Ids
    <3>3. ASSUME NEW n, UNCHANGED learned,
                 threats' = [threats EXCEPT ![n].action = a, ![n].evidence = counts[w]]
          PROVE  /\ threats' \in Seq(Threat) /\ learned' \in Seq(Nat)
                 /\ Len(learned') = Len(threats') /\ Ids \subseteq Ids'
      <4>1. Len(threats) \in Nat /\ threats \in [1 .. Len(threats) -> Threat]
        BY <1>t
      <4>2. /\ threats' = [threats EXCEPT ![n] = [@ EXCEPT !.action = a, !.evidence = counts[w]]]
            /\ counts[w] \in Nat
        BY <1>t, <3>3
      <4>3. threats' \in [1 .. Len(threats) -> Threat]
        BY <4>1, <4>2 DEF Threat
      <4>4. threats' \in Seq(Threat) /\ Len(threats') = Len(threats)
        BY <4>1, <4>3
      <4>5. QED
        BY <1>t, <3>3, <4>1, <4>3, <4>4 DEF Ids
    <3>4. QED
      BY <1>3, <3>1, <3>2, <3>3 DEF Judge, Upsert
  <2>3. feedback' \in Seq(Row(Ids'))
    <3>1. Row(Ids) \subseteq Row(Ids')
      BY <2>2 DEF Row
    <3>2. feedback \in Seq(Row(Ids'))
      BY <1>t, <3>1, SeqMonotone
    <3>3. QED
      BY <1>3, <3>2 DEF Judge
  <2>4. QED
    BY <1>3, <1>t, <2>1, <2>2, <2>3 DEF Judge, TypeOK, BatchWork, Threat, Row
<1>4. CASE FinishBatch
  BY <1>4, <1>t DEF FinishBatch, TypeOK, Ids
<1>5. ASSUME NEW i \in Ids, NEW v \in Verdicts, BeginVerdict(i, v) PROVE TypeOK'
  <2>1. work' \in VerdictWork(Ids')
    BY <1>5 DEF BeginVerdict, VerdictWork, Ids
  <2>2. begun' \in [{"batches", "verdicts", "faults"} -> Nat]
    BY <1>5, <1>t DEF BeginVerdict, Count
  <2>3. QED
    BY <1>5, <1>t, <2>1, <2>2 DEF BeginVerdict, TypeOK, VerdictWork, Ids, Threat, Row
<1>6. ASSUME NEW step, Doing(step), work' # NoWork
      PROVE  work' \in VerdictWork(Ids)
  <2>1. Len(FeedbackOrder) = 3
    BY DEF FeedbackOrder
  <2>2. work \in VerdictWork(Ids)
    BY <1>6, TypeFacts DEF Doing
  <2>3. work.done + 1 # 3 /\ work' = [work EXCEPT !.done = @ + 1]
    BY <1>6, <2>1 DEF Doing
  <2>4. QED
    BY <2>2, <2>3 DEF VerdictWork
<1>7. CASE Learn
  <2>1. learned' \in Seq(Nat) /\ Len(learned') = Len(learned)
    <3>1. work.id \in DOMAIN learned /\ learned[work.id] + 1 \in Nat
      BY <1>7, <1>t, TypeFacts DEF Learn, Doing, VerdictWork
    <3>2. QED
      BY <1>7, <1>t, <3>1 DEF Learn
  <2>2. QED
    BY <1>6, <1>7, <1>t, <2>1
       DEF Learn, Doing, TypeOK, VerdictWork, Ids, Threat, Row
<1>8. CASE ApplyStatus
  <2>1. /\ Len(threats) \in Nat /\ threats \in [1 .. Len(threats) -> Threat]
        /\ StatusFor(work.verdict) \in Statuses
    BY <1>t DEF StatusFor, Statuses
  <2>2. threats' = [threats EXCEPT ![work.id] = [@ EXCEPT !.status = StatusFor(work.verdict)]]
    BY <1>8 DEF ApplyStatus
  <2>3. threats' \in [1 .. Len(threats) -> Threat]
    BY <2>1, <2>2 DEF Threat
  <2>4. threats' \in Seq(Threat) /\ Len(threats') = Len(threats) /\ Ids' = Ids
    BY <2>1, <2>3 DEF Ids
  <2>5. QED
    BY <1>6, <1>8, <1>t, <2>4
       DEF ApplyStatus, Doing, TypeOK, VerdictWork, Threat, Row
<1>9. CASE LogFeedback
  <2>1. [threat |-> work.id, verdict |-> work.verdict] \in Row(Ids)
    BY <1>9, TypeFacts DEF LogFeedback, Doing, VerdictWork, Row
  <2>2. feedback' \in Seq(Row(Ids)) /\ Ids' = Ids
    BY <1>9, <1>t, <2>1 DEF LogFeedback, Ids
  <2>3. QED
    BY <1>6, <1>9, <1>t, <2>2
       DEF LogFeedback, Doing, TypeOK, VerdictWork, Threat, Row
<1>10. CASE Fail
  <2>1. begun' \in [{"batches", "verdicts", "faults"} -> Nat]
    BY <1>10, <1>t DEF Fail, Count
  <2>2. QED
    BY <1>10, <1>t, <2>1 DEF Fail, TypeOK, Ids, Threat, Row
<1>11. CASE Restart
  <2>1. begun' \in [{"batches", "verdicts", "faults"} -> Nat]
    BY <1>11, <1>t DEF Restart, Count
  <2>2. counts' \in [Windows -> Nat]
    BY <1>11 DEF Restart, Zero
  <2>3. QED
    BY <1>11, <1>t, <2>1, <2>2 DEF Restart, TypeOK, Ids, Threat, Row
<1>12. CASE UNCHANGED vars
  BY <1>12 DEF vars, TypeOK, Ids
<1>13. QED
  BY <1>1, <1>2, <1>3, <1>4, <1>5, <1>7, <1>8, <1>9, <1>10, <1>11, <1>12 DEF Next

(* The variables keep their types: in particular every threat's evidence   *)
(* and status are ones the pipeline writes.                                *)
THEOREM TypeCorrect == Spec => []TypeOK
<1>1. Init => TypeOK
  BY DEF Init, EmptyTables, Zero, NoWork, TypeOK, Ids
<1>2. QED
  BY <1>1, TypeStep, PTL DEF Spec

-----------------------------------------------------------------------------
(* The three ways a judged window changes the table.                       *)
Inserted(w, a) ==
    /\ OpenOf(w) = {}
    /\ Ids' = Ids \union {Len(threats) + 1}
    /\ \A i \in Ids : threats'[i] = threats[i] /\ learned'[i] = learned[i]
    /\ threats'[Len(threats) + 1] = [window |-> w, action |-> a,
                                     evidence |-> counts[w], status |-> "open"]
    /\ learned'[Len(threats) + 1] = 0

Updated(w, a, n) ==
    /\ n \in OpenOf(w)
    /\ Ids' = Ids
    /\ learned' = learned
    /\ \A i \in Ids : threats'[i] = IF i = n THEN [threats[n] EXCEPT !.action = a,
                                                                     !.evidence = counts[w]]
                                             ELSE threats[i]

(* Judging a window leaves the table alone, adds a threat to a window that *)
(* has no open one, or updates the open one: that the SELECT finds one at  *)
(* most is what makes "the newest" well defined.                           *)
LEMMA JudgeCases ==
    ASSUME TypeOK, OneOpenPerWindow,
           NEW w \in Windows, NEW a \in Actions, NEW anomalous \in BOOLEAN,
           Judge(w, a, anomalous)
    PROVE  \/ UNCHANGED <<threats, learned>>
           \/ Inserted(w, a)
           \/ \E n \in OpenOf(w) : Updated(w, a, n)
<1> DEFINE newest == CHOOSE i \in OpenOf(w) : \A j \in OpenOf(w) : j <= i
<1>1. /\ Len(threats) \in Nat /\ Ids = 1 .. Len(threats)
      /\ threats \in Seq(Threat) /\ learned \in Seq(Nat) /\ Len(learned) = Len(threats)
  BY TypeFacts DEF TypeOK, Threat
<1>2. \/ UNCHANGED <<threats, learned>>
      \/ OpenOf(w) = {} /\ InsertThreat(w, a)
      \/ /\ OpenOf(w) # {} /\ UNCHANGED learned
         /\ threats' = [threats EXCEPT ![newest].action = a,
                                       ![newest].evidence = counts[w]]
  BY DEF Judge, Upsert
<1>3. ASSUME OpenOf(w) = {}, InsertThreat(w, a)
      PROVE  Inserted(w, a)
  <2> DEFINE new == [window |-> w, action |-> a, evidence |-> counts[w], status |-> "open"]
  <2>1. new \in Threat
    BY DEF TypeOK, Threat, Statuses
  <2>2. threats' = Append(threats, new) /\ learned' = Append(learned, 0)
    BY <1>3 DEF InsertThreat
  <2> HIDE DEF new
  <2>3. /\ DOMAIN threats' = 1 .. (Len(threats) + 1)
        /\ \A i \in 1 .. Len(threats) : threats'[i] = threats[i]
        /\ threats'[Len(threats) + 1] = new
    BY <1>1, <2>1, <2>2, AppendProperties
  <2>4. /\ \A i \in 1 .. Len(threats) : learned'[i] = learned[i]
        /\ learned'[Len(threats) + 1] = 0
    BY <1>1, <2>2, AppendProperties
  <2>5. Ids' = Ids \union {Len(threats) + 1}
    BY <1>1, <2>3 DEF Ids
  <2>6. QED
    BY <1>1, <1>3, <2>3, <2>4, <2>5 DEF Inserted, new
<1>4. ASSUME OpenOf(w) # {}, UNCHANGED learned,
             threats' = [threats EXCEPT ![newest].action = a,
                                        ![newest].evidence = counts[w]]
      PROVE  \E n \in OpenOf(w) : Updated(w, a, n)
  <2>1. PICK n \in OpenOf(w) : \A j \in OpenOf(w) : j <= n
    BY <1>4 DEF OneOpenPerWindow, OpenOf
  <2>2. newest \in OpenOf(w)
    BY <2>1
  <2> HIDE DEF newest
  <2>3. threats' = [threats EXCEPT ![newest] = [@ EXCEPT !.action = a, !.evidence = counts[w]]]
    BY <1>4
  <2>4. Updated(w, a, newest)
    BY <1>4, <2>2, <2>3 DEF Updated, Ids
  <2>5. QED
    BY <2>2, <2>4
<1>5. QED
  BY <1>2, <1>3, <1>4

(* The middle step of a verdict changes the status of its threat only.     *)
LEMMA StatusStep ==
    ASSUME TypeOK, ApplyStatus
    PROVE  /\ work \in VerdictWork(Ids) /\ work.done = 1
           /\ Ids' = Ids /\ UNCHANGED <<learned, feedback>>
           /\ work' = [work EXCEPT !.done = 2]
           /\ StatusFor(work.verdict) \in {"blocked", "dismissed"}
           /\ \A i \in Ids : threats'[i] =
                 IF i = work.id THEN [threats[i] EXCEPT !.status = StatusFor(work.verdict)]
                                ELSE threats[i]
<1>1. work \in VerdictWork(Ids) /\ FeedbackOrder[work.done + 1] = "status"
  BY TypeFacts DEF ApplyStatus, Doing
<1>2. work.done = 1
  BY <1>1 DEF VerdictWork, FeedbackOrder
<1>3. threats' = [threats EXCEPT ![work.id] = [@ EXCEPT !.status = StatusFor(work.verdict)]]
  BY DEF ApplyStatus
<1>4. work' = [work EXCEPT !.done = 2]
  BY <1>1, <1>2 DEF ApplyStatus, Doing, FeedbackOrder, VerdictWork
<1>5. StatusFor(work.verdict) \in {"blocked", "dismissed"}
  BY DEF StatusFor
<1>6. QED
  BY <1>1, <1>2, <1>3, <1>4, <1>5 DEF ApplyStatus, Ids

(* The first step of a verdict counts one lesson for its threat.           *)
LEMMA LearnStep ==
    ASSUME TypeOK, Learn
    PROVE  /\ work \in VerdictWork(Ids) /\ work.done = 0
           /\ UNCHANGED <<threats, feedback>>
           /\ work' = [work EXCEPT !.done = 1]
           /\ \A i \in Ids : learned'[i] = IF i = work.id THEN learned[i] + 1 ELSE learned[i]
<1>1. work \in VerdictWork(Ids) /\ FeedbackOrder[work.done + 1] = "learn"
  BY TypeFacts DEF Learn, Doing
<1>2. work.done = 0
  BY <1>1 DEF VerdictWork, FeedbackOrder
<1>3. work' = [work EXCEPT !.done = 1]
  BY <1>1, <1>2 DEF Learn, Doing, FeedbackOrder, VerdictWork
<1>4. DOMAIN learned = Ids
  BY TypeFacts
<1>5. QED
  BY <1>1, <1>2, <1>3, <1>4 DEF Learn

(* The rows of a threat are finitely many; the last step of a verdict adds *)
(* one to its threat's, after all the others.                              *)
LEMMA RowsFinite ==
    ASSUME TypeOK, NEW i
    PROVE  /\ RowsOf(i) \subseteq 1 .. Len(feedback)
           /\ IsFiniteSet(RowsOf(i))
           /\ Cardinality(RowsOf(i)) \in Nat
<1>1. RowsOf(i) \subseteq 1 .. Len(feedback) /\ Len(feedback) \in Nat
  BY TypeFacts DEF RowsOf
<1>2. IsFiniteSet(1 .. Len(feedback))
  BY <1>1, FS_Interval
<1>3. IsFiniteSet(RowsOf(i))
  BY <1>1, <1>2, FS_Subset
<1>4. QED
  BY <1>1, <1>3, FS_CardinalityType

LEMMA LogStep ==
    ASSUME TypeOK, LogFeedback
    PROVE  /\ work \in VerdictWork(Ids) /\ work.done = 2 /\ work' = NoWork
           /\ UNCHANGED <<threats, learned>>
           /\ Len(feedback) \in Nat
           /\ \A k \in 1 .. Len(feedback) : feedback'[k] = feedback[k]
           /\ feedback'[Len(feedback) + 1] = [threat |-> work.id, verdict |-> work.verdict]
           /\ \A i \in Ids : RowsOf(i)' = IF i = work.id
                                          THEN RowsOf(i) \union {Len(feedback) + 1}
                                          ELSE RowsOf(i)
           /\ \A i \in Ids : Cardinality(RowsOf(i)') = IF i = work.id
                                          THEN Cardinality(RowsOf(i)) + 1
                                          ELSE Cardinality(RowsOf(i))
<1> DEFINE new == [threat |-> work.id, verdict |-> work.verdict]
<1>1. work \in VerdictWork(Ids) /\ FeedbackOrder[work.done + 1] = "log"
  BY TypeFacts DEF LogFeedback, Doing
<1>2. work.done = 2
  BY <1>1 DEF VerdictWork, FeedbackOrder
<1>3. work' = NoWork
  BY <1>2 DEF LogFeedback, Doing, FeedbackOrder
<1>4. feedback \in Seq(Row(Ids)) /\ new \in Row(Ids) /\ Len(feedback) \in Nat
  BY <1>1, TypeFacts DEF TypeOK, Row, VerdictWork
<1>5. feedback' = Append(feedback, new) /\ new.threat = work.id
  BY DEF LogFeedback
<1> HIDE DEF new
<1>6. /\ DOMAIN feedback = 1 .. Len(feedback)
      /\ DOMAIN feedback' = 1 .. (Len(feedback) + 1)
      /\ \A k \in 1 .. Len(feedback) : feedback'[k] = feedback[k]
      /\ feedback'[Len(feedback) + 1] = new
  BY <1>4, <1>5, AppendProperties
<1>7. ASSUME NEW i \in Ids
      PROVE  /\ RowsOf(i)' = IF i = work.id THEN RowsOf(i) \union {Len(feedback) + 1}
                                            ELSE RowsOf(i)
             /\ Len(feedback) + 1 \notin RowsOf(i)
  <2>1. 1 .. (Len(feedback) + 1) = (1 .. Len(feedback)) \union {Len(feedback) + 1}
    BY <1>4
  <2>2. Len(feedback) + 1 \notin 1 .. Len(feedback)
    BY <1>4
  <2>3. QED
    BY <1>5, <1>6, <2>1, <2>2 DEF RowsOf
<1>8. ASSUME NEW i \in Ids
      PROVE  Cardinality(RowsOf(i)') = IF i = work.id THEN Cardinality(RowsOf(i)) + 1
                                                      ELSE Cardinality(RowsOf(i))
  <2>1. IsFiniteSet(RowsOf(i))
    BY RowsFinite
  <2>2. QED
    BY <1>7, <2>1, FS_AddElement
<1>9. QED
  BY <1>1, <1>2, <1>3, <1>4, <1>6, <1>7, <1>8 DEF LogFeedback, new

-----------------------------------------------------------------------------
(* Every other step leaves the table as it was.                            *)
LEMMA TableSteps ==
    ASSUME [Next]_vars
    PROVE  \/ UNCHANGED <<threats, Ids>>
           \/ ApplyStatus
           \/ \E w \in Windows, a \in Actions, anomalous \in BOOLEAN : Judge(w, a, anomalous)
BY DEF Next, vars, Ids, StoreEvents, CountEvents, FinishBatch, BeginVerdict, Learn,
       LogFeedback, Fail, Restart

(* A window has at most one open threat, its newest: a threat is inserted  *)
(* only where none is open, and nothing reopens one.                       *)
LEMMA OneOpenStep == TypeOK /\ OneOpenPerWindow /\ [Next]_vars => OneOpenPerWindow'
<1> SUFFICES ASSUME TypeOK, OneOpenPerWindow, [Next]_vars
             PROVE  OneOpenPerWindow'
  OBVIOUS
<1>1. CASE UNCHANGED <<threats, Ids>>
  BY <1>1 DEF OneOpenPerWindow
<1>2. CASE ApplyStatus
  <2>1. /\ Ids' = Ids
        /\ StatusFor(work.verdict) # "open"
        /\ \A i \in Ids : threats'[i] =
              IF i = work.id THEN [threats[i] EXCEPT !.status = StatusFor(work.verdict)]
                             ELSE threats[i]
    BY <1>2, StatusStep
  <2>2. ASSUME NEW i \in Ids
        PROVE  /\ threats'[i].window = threats[i].window
               /\ threats'[i].status = "open" => threats[i].status = "open"
    <3>1. threats[i] \in Threat
      BY TypeFacts
    <3>2. QED
      BY <2>1, <3>1 DEF Threat
  <2>3. QED
    BY <2>1, <2>2 DEF OneOpenPerWindow
<1>3. ASSUME NEW w \in Windows, NEW a \in Actions, NEW anomalous \in BOOLEAN,
             Judge(w, a, anomalous)
      PROVE  OneOpenPerWindow'
  <2>1. CASE UNCHANGED <<threats, learned>>
    BY <2>1 DEF OneOpenPerWindow, Ids
  <2>2. CASE Inserted(w, a)
    <3> DEFINE new == Len(threats) + 1
    <3>1. /\ Len(threats) \in Nat /\ Ids = 1 .. Len(threats) /\ Ids' = 1 .. new
          /\ \A i \in Ids : threats'[i] = threats[i] /\ i <= new
          /\ threats'[new].window = w
      BY <2>2, TypeFacts DEF Inserted
    <3> SUFFICES ASSUME NEW i \in Ids', NEW j \in Ids',
                        threats'[i].window = threats'[j].window, threats'[i].status = "open"
                 PROVE  j <= i
      BY DEF OneOpenPerWindow
    <3>2. CASE i = new
      BY <3>1, <3>2
    <3>3. CASE i \in Ids /\ j \in Ids
      BY <3>1, <3>3 DEF OneOpenPerWindow
    <3>4. CASE i \in Ids /\ j = new
      BY <2>2, <3>1, <3>4 DEF Inserted, OpenOf
    <3>5. QED
      BY <3>1, <3>2, <3>3, <3>4
  <2>3. ASSUME NEW n \in OpenOf(w), Updated(w, a, n)
        PROVE  OneOpenPerWindow'
    <3>1. \A i \in Ids : /\ threats'[i].window = threats[i].window
                         /\ threats'[i].status = threats[i].status
      BY <2>3, TypeFacts DEF Updated, Threat, OpenOf
    <3>2. QED
      BY <2>3, <3>1 DEF OneOpenPerWindow, Updated
  <2>4. QED
    BY <1>3, <2>1, <2>2, <2>3, JudgeCases
<1>4. QED
  BY <1>1, <1>2, <1>3, TableSteps

(* However batches, verdicts, errors and restarts interleave, a window has *)
(* at most one open threat, and it is the window's newest.                 *)
THEOREM OneOpen == Spec => []OneOpenPerWindow
<1>1. Init => OneOpenPerWindow
  BY DEF Init, EmptyTables, OneOpenPerWindow, Ids
<1>2. QED
  BY <1>1, OneOpenStep, TypeCorrect, PTL DEF Spec

(* What a verdict was given on stays as it was judged, and only a verdict  *)
(* on that very threat changes its status: an update reaches open threats  *)
(* only.                                                                   *)
THEOREM VerdictsStand == Spec => VerdictStands
<1>1. TypeOK /\ OneOpenPerWindow /\ [Next]_vars => [DecidedStands]_vars
  <2> SUFFICES ASSUME TypeOK, OneOpenPerWindow, [Next]_vars
               PROVE  DecidedStands
    OBVIOUS
  <2>f. \A i \in Ids : threats[i] \in Threat
    BY TypeFacts
  <2>s. \A i \in Ids : threats[i] = [threats[i] EXCEPT !.status = threats[i].status]
    BY <2>f DEF Threat
  <2>1. CASE UNCHANGED <<threats, Ids>>
    BY <2>1, <2>s DEF DecidedStands
  <2>2. CASE ApplyStatus
    <3>1. /\ IsVerdict
          /\ \A i \in Ids : threats'[i] =
                IF i = work.id THEN [threats[i] EXCEPT !.status = StatusFor(work.verdict)]
                               ELSE threats[i]
      BY <2>2, StatusStep DEF ApplyStatus, Doing
    <3>2. \A i \in Ids : i = work.id => threats'[i].status = StatusFor(work.verdict)
      BY <2>f, <3>1 DEF Threat
    <3>3. QED
      BY <2>s, <3>1, <3>2 DEF DecidedStands
  <2>3. ASSUME NEW w \in Windows, NEW a \in Actions, NEW anomalous \in BOOLEAN,
               Judge(w, a, anomalous)
        PROVE  DecidedStands
    <3>1. CASE \A i \in Ids : threats'[i] = threats[i]
      BY <2>s, <3>1 DEF DecidedStands
    <3>2. ASSUME NEW n \in OpenOf(w), Updated(w, a, n)
          PROVE  DecidedStands
      <4>1. /\ threats[n].status = "open" /\ threats'[n].status = "open"
            /\ \A i \in Ids : i # n => threats'[i] = threats[i]
        BY <2>f, <3>2 DEF Updated, OpenOf, Threat
      <4>2. QED
        BY <2>s, <4>1 DEF DecidedStands
    <3>3. QED
      BY <2>3, <3>1, <3>2, JudgeCases DEF Inserted
  <2>4. QED
    BY <2>1, <2>2, <2>3, TableSteps
<1>2. QED
  BY <1>1, TypeCorrect, OneOpen, PTL DEF Spec, VerdictStands

-----------------------------------------------------------------------------
(* Lessons.  A closed threat was learned from, and no threat has more rows *)
(* than lessons; a verdict between its steps is one lesson ahead.          *)
LEMMA LessonStep ==
    ASSUME TypeOK, TypeOK', OneOpenPerWindow, ClosedIsLearned, LessonFirst, [Next]_vars
    PROVE  ClosedIsLearned' /\ LessonFirst'
<1>t. /\ Len(threats) \in Nat /\ Ids = 1 .. Len(threats)
      /\ \A i \in Ids : threats[i] \in Threat /\ learned[i] \in Nat
      /\ \A i \in Ids : Cardinality(RowsOf(i)) \in Nat
  BY TypeFacts, RowsFinite
<1>1. CASE UNCHANGED <<threats, learned, feedback>> /\ ~IsVerdict'
  BY <1>1 DEF ClosedIsLearned, LessonFirst, Ids, RowsOf
<1>2. CASE UNCHANGED <<threats, learned, feedback, work>>
  BY <1>2 DEF ClosedIsLearned, LessonFirst, Ids, RowsOf, IsVerdict
<1>3. ASSUME NEW i \in Ids, NEW v \in Verdicts, BeginVerdict(i, v)
      PROVE  ClosedIsLearned' /\ LessonFirst'
  BY <1>3 DEF BeginVerdict, ClosedIsLearned, LessonFirst, Ids, RowsOf
<1>4. ASSUME NEW w \in Windows, NEW a \in Actions, NEW anomalous \in BOOLEAN,
             Judge(w, a, anomalous)
      PROVE  ClosedIsLearned' /\ LessonFirst'
  <2>1. LessonFirst'
    BY <1>4 DEF Judge, IsBatch, IsVerdict, LessonFirst
  <2>2. UNCHANGED feedback
    BY <1>4 DEF Judge
  <2>3. CASE UNCHANGED <<threats, learned>>
    BY <2>1, <2>2, <2>3 DEF ClosedIsLearned, Ids, RowsOf
  <2>4. CASE Inserted(w, a)
    <3> DEFINE new == Len(threats) + 1
    <3>1. new \notin Ids
      BY <1>t
    <3>2. RowsOf(new) = {}
      BY <3>1, TypeFacts DEF RowsOf, Row
    <3>3. Cardinality(RowsOf(new)) = 0
      BY <3>2, FS_EmptySet
    <3>4. threats'[new].status = "open" /\ learned'[new] = 0
      BY <2>4 DEF Inserted
    <3>5. \A i : RowsOf(i)' = RowsOf(i)
      BY <2>2 DEF RowsOf
    <3>6. QED
      BY <2>1, <2>4, <3>3, <3>4, <3>5 DEF ClosedIsLearned, Inserted
  <2>5. ASSUME NEW n \in OpenOf(w), Updated(w, a, n)
        PROVE  ClosedIsLearned'
    <3>1. \A i \in Ids : threats'[i].status = threats[i].status
      BY <1>t, <2>5 DEF Updated, Threat
    <3>2. \A i : RowsOf(i)' = RowsOf(i)
      BY <2>2 DEF RowsOf
    <3>3. QED
      BY <2>5, <3>1, <3>2 DEF ClosedIsLearned, Updated
  <2>6. QED
    BY <1>4, <2>1, <2>3, <2>4, <2>5, JudgeCases
<1>5. CASE Learn
  <2>1. /\ work.id \in Ids /\ work'.id = work.id
        /\ \A i \in Ids : learned'[i] = IF i = work.id THEN learned[i] + 1 ELSE learned[i]
        /\ UNCHANGED <<threats, feedback>>
    BY <1>5, LearnStep DEF VerdictWork
  <2>2. \A i : RowsOf(i)' = RowsOf(i)
    BY <2>1 DEF RowsOf
  <2>3. ClosedIsLearned'
    BY <1>t, <2>1, <2>2 DEF ClosedIsLearned, Ids
  <2>4. Cardinality(RowsOf(work.id)) < learned'[work.id]
    BY <1>t, <2>1 DEF ClosedIsLearned
  <2>5. QED
    BY <2>1, <2>2, <2>3, <2>4 DEF LessonFirst
<1>6. CASE ApplyStatus
  <2>1. /\ IsVerdict /\ work.done = 1 /\ work.id \in Ids
        /\ work'.id = work.id /\ Ids' = Ids
        /\ UNCHANGED <<learned, feedback>>
        /\ \A i \in Ids \ {work.id} : threats'[i] = threats[i]
    BY <1>6, StatusStep DEF VerdictWork, ApplyStatus, Doing
  <2>2. \A i : RowsOf(i)' = RowsOf(i)
    BY <2>1 DEF RowsOf
  <2>3. Cardinality(RowsOf(work.id)) < learned[work.id]
    BY <2>1 DEF LessonFirst
  <2>4. learned[work.id] > 0
    BY <1>t, <2>1, <2>3
  <2>5. ClosedIsLearned'
    BY <2>1, <2>2, <2>4 DEF ClosedIsLearned
  <2>6. QED
    BY <2>1, <2>2, <2>3, <2>5 DEF LessonFirst
<1>7. CASE LogFeedback
  <2>1. /\ IsVerdict /\ work.done = 2 /\ work.id \in Ids /\ work' = NoWork
        /\ UNCHANGED <<threats, learned>>
        /\ \A i \in Ids : Cardinality(RowsOf(i)') = IF i = work.id
                              THEN Cardinality(RowsOf(i)) + 1 ELSE Cardinality(RowsOf(i))
    BY <1>7, LogStep DEF VerdictWork, LogFeedback, Doing
  <2>2. Cardinality(RowsOf(work.id)) < learned[work.id]
    BY <2>1 DEF LessonFirst
  <2>3. ClosedIsLearned'
    BY <1>t, <2>1, <2>2 DEF ClosedIsLearned, Ids
  <2>4. LessonFirst'
    BY <2>1 DEF LessonFirst, IsVerdict, NoWork
  <2>5. QED
    BY <2>3, <2>4
<1>8. /\ (\E ws \in SUBSET Windows : StoreEvents(ws)) => ~IsVerdict'
      /\ CountEvents => ~IsVerdict'
      /\ FinishBatch \/ Fail \/ Restart => ~IsVerdict'
  BY TypeFacts DEF StoreEvents, CountEvents, FinishBatch, Fail, Restart, IsVerdict, IsBatch,
                   NoWork, BatchWork
<1>9. QED
  BY <1>1, <1>2, <1>3, <1>4, <1>5, <1>6, <1>7, <1>8
     DEF Next, vars, StoreEvents, CountEvents, FinishBatch, Fail, Restart

(* A verdict that took effect anywhere was learned from, whatever fails    *)
(* between the commits of apply_feedback (orchestrator.py:144-182).        *)
THEOREM NoLessonLost == Spec => []ClosedIsLearned
<1>1. Init => ClosedIsLearned /\ LessonFirst
  BY DEF Init, EmptyTables, NoWork, ClosedIsLearned, LessonFirst, IsVerdict, Ids
<1>2. QED
  BY <1>1, LessonStep, TypeCorrect, OneOpen, PTL DEF Spec

-----------------------------------------------------------------------------
(* Evidence.  Events are stored before they are counted, so a batch cut    *)
(* short, or windows lost in a restart, leave the counts behind the log.   *)
LEMMA EvidenceStep ==
    ASSUME TypeOK, TypeOK', OneOpenPerWindow, EvidenceIsOnRecord, CountsOnRecord, [Next]_vars
    PROVE  EvidenceIsOnRecord' /\ CountsOnRecord'
<1>t. /\ \A w \in Windows : /\ stored[w] \in Nat /\ counts[w] \in Nat
                            /\ stored'[w] \in Nat /\ counts'[w] \in Nat
      /\ \A i \in Ids : threats[i] \in Threat
      /\ \A i \in Ids' : threats'[i] \in Threat
  <2>1. \A i \in Ids' : threats'[i] \in Threat
    <3>1. threats' \in Seq(Threat)
      BY DEF TypeOK, Threat
    <3>2. QED
      BY <3>1 DEF Ids
  <2>2. QED
    BY <2>1, TypeFacts DEF TypeOK
<1>a. CountsOnRecord' => \A w \in Windows : counts'[w] <= stored'[w]
  BY <1>t DEF CountsOnRecord
<1>1. CASE UNCHANGED <<counts, stored>> /\ (UNCHANGED work \/ ~IsBatch')
  <2>1. CountsOnRecord'
    BY <1>1, <1>t DEF CountsOnRecord, IsBatch, EvidenceIsOnRecord
  <2>2. CASE UNCHANGED <<threats, Ids>>
    BY <1>1, <2>1, <2>2 DEF EvidenceIsOnRecord
  <2>3. CASE ApplyStatus
    BY <1>1, <1>t, <2>1, <2>3, StatusStep DEF EvidenceIsOnRecord, Threat
  <2>4. ASSUME NEW w \in Windows, NEW a \in Actions, NEW anomalous \in BOOLEAN,
               Judge(w, a, anomalous)
        PROVE  FALSE
    BY <1>1, <2>4, TypeFacts DEF Judge, IsBatch, BatchWork
  <2>5. QED
    BY <2>1, <2>2, <2>3, <2>4, TableSteps
<1>2. ASSUME NEW ws \in SUBSET Windows, StoreEvents(ws)
      PROVE  EvidenceIsOnRecord' /\ CountsOnRecord'
  <2>1. /\ \A w \in Windows : stored'[w] = stored[w] + (IF w \in ws THEN 1 ELSE 0)
        /\ UNCHANGED <<counts, threats, Ids>>
        /\ work'.todo = ws
    BY <1>2 DEF StoreEvents, InsertEvents, Ids
  <2>2. CountsOnRecord'
    BY <1>t, <2>1 DEF CountsOnRecord, EvidenceIsOnRecord
  <2>3. \A i \in Ids : threats[i].evidence <= stored'[threats[i].window]
    BY <1>t, <2>1 DEF EvidenceIsOnRecord, Threat
  <2>4. QED
    BY <1>a, <2>1, <2>2, <2>3 DEF EvidenceIsOnRecord
<1>3. CASE CountEvents
  <2>1. /\ \A w \in Windows : counts'[w] = counts[w] + (IF w \in work.todo THEN 1 ELSE 0)
        /\ UNCHANGED <<stored, threats, Ids>>
        /\ IsBatch /\ work.step = "stored" /\ work'.step = "judging"
    BY <1>3, TypeFacts DEF CountEvents, Counted, Ids, BatchWork
  <2>2. CountsOnRecord'
    BY <1>t, <2>1 DEF CountsOnRecord
  <2>3. QED
    BY <1>a, <2>1, <2>2 DEF EvidenceIsOnRecord
<1>4. ASSUME NEW w \in Windows, NEW a \in Actions, NEW anomalous \in BOOLEAN,
             Judge(w, a, anomalous)
      PROVE  EvidenceIsOnRecord' /\ CountsOnRecord'
  <2>1. UNCHANGED <<counts, stored>> /\ work'.step = "judging"
    BY <1>4, TypeFacts DEF Judge, BatchWork
  <2>2. CountsOnRecord'
    BY <1>t, <2>1 DEF CountsOnRecord, EvidenceIsOnRecord
  <2>3. CASE UNCHANGED <<threats, learned>>
    BY <2>1, <2>2, <2>3 DEF EvidenceIsOnRecord, Ids
  <2>4. CASE Inserted(w, a)
    <3>1. threats'[Len(threats) + 1].evidence <= stored[threats'[Len(threats) + 1].window]
      <4>1. /\ threats'[Len(threats) + 1].evidence = counts[w]
            /\ threats'[Len(threats) + 1].window = w
        BY <2>4 DEF Inserted
      <4>2. QED
        BY <4>1 DEF EvidenceIsOnRecord
    <3>2. \A i \in Ids : threats'[i].evidence <= stored[threats'[i].window]
      BY <2>4 DEF EvidenceIsOnRecord, Inserted
    <3>3. Ids' = Ids \union {Len(threats) + 1}
      BY <2>4 DEF Inserted
    <3>4. QED
      BY <1>a, <2>1, <2>2, <3>1, <3>2, <3>3 DEF EvidenceIsOnRecord
  <2>5. ASSUME NEW n \in OpenOf(w), Updated(w, a, n)
        PROVE  EvidenceIsOnRecord'
    <3>1. /\ threats'[n].evidence = counts[w] /\ threats'[n].window = w
          /\ \A i \in Ids \ {n} : threats'[i] = threats[i]
      BY <1>t, <2>5 DEF Updated, OpenOf, Threat
    <3>2. QED
      BY <2>1, <2>5, <3>1 DEF EvidenceIsOnRecord, Updated
  <2>6. QED
    BY <1>4, <2>2, <2>3, <2>4, <2>5, JudgeCases
<1>5. CASE Restart
  <2>1. /\ \A w \in Windows : counts'[w] = 0
        /\ UNCHANGED <<stored, threats, Ids>> /\ ~IsBatch'
    BY <1>5 DEF Restart, Zero, Ids, IsBatch, NoWork
  <2>2. QED
    BY <1>t, <2>1 DEF EvidenceIsOnRecord, CountsOnRecord
<1>6. /\ FinishBatch \/ Fail => UNCHANGED <<counts, stored>> /\ ~IsBatch'
      /\ \A i \in Ids, v \in Verdicts :
            BeginVerdict(i, v) => UNCHANGED <<counts, stored>> /\ ~IsBatch'
      /\ \A step : Doing(step) => UNCHANGED <<counts, stored>> /\ ~IsBatch'
  BY TypeFacts DEF FinishBatch, Fail, BeginVerdict, Doing, IsBatch, NoWork, VerdictWork
<1>7. QED
  BY <1>1, <1>2, <1>3, <1>4, <1>5, <1>6
     DEF Next, vars, Learn, ApplyStatus, LogFeedback

(* A threat never claims more than the event log can show                  *)
(* (orchestrator.py:102-140: events are stored before they are judged).    *)
THEOREM EvidenceBacked == Spec => []EvidenceIsOnRecord
<1>1. Init => EvidenceIsOnRecord /\ CountsOnRecord
  BY DEF Init, EmptyTables, Zero, NoWork, EvidenceIsOnRecord, CountsOnRecord, IsBatch, Ids
<1>2. QED
  BY <1>1, EvidenceStep, TypeCorrect, OneOpen, PTL DEF Spec

-----------------------------------------------------------------------------
(* The audit trail.                                                        *)

(* Appending to the log keeps its last rows, or makes the new one the last.*)
LEMMA LastStep ==
    ASSUME TypeOK, LogEnds, [Next]_vars
    PROVE  LogEnds'
<1>1. ASSUME UNCHANGED feedback
      PROVE  LogEnds'
  <2>1. \A i : HasLast(i)' <=> HasLast(i)
    BY <1>1 DEF HasLast, RowsOf
  <2>2. \A i : i \notin Ids => RowsOf(i) = {}
    BY TypeFacts DEF RowsOf, Row
  <2>3. QED
    BY <2>1, <2>2 DEF LogEnds, HasLast
<1>2. CASE LogFeedback
  <2> SUFFICES ASSUME NEW i \in Ids PROVE HasLast(i)'
    BY <1>2 DEF LogFeedback, Ids, LogEnds
  <2>1. Len(feedback) \in Nat /\ RowsOf(i) \subseteq 1 .. Len(feedback)
    BY RowsFinite, TypeFacts
  <2>2. RowsOf(i)' = RowsOf(i) \/ RowsOf(i)' = RowsOf(i) \union {Len(feedback) + 1}
    BY <1>2, LogStep
  <2>3. QED
    BY <2>1, <2>2 DEF LogEnds, HasLast
<1>3. QED
  BY <1>1, <1>2 DEF Next, vars, StoreEvents, CountEvents, Judge, FinishBatch, BeginVerdict,
                    Learn, ApplyStatus, Fail, Restart

(* What the log says of a threat does not change until a row is added.     *)
LEMMA LoggedKept ==
    ASSUME NEW i, UNCHANGED feedback
    PROVE  RowsOf(i)' = RowsOf(i) /\ LoggedStatus(i)' = LoggedStatus(i)
<1>1. RowsOf(i)' = RowsOf(i)
  BY DEF RowsOf
<1>2. QED
  BY <1>1 DEF LoggedStatus, LastRow

LEMMA AuditStep ==
    ASSUME TypeOK, TypeOK', OneOpenPerWindow, LogEnds, Audited, [Next]_vars
    PROVE  Audited'
<1> SUFFICES ASSUME begun'.faults = 0 PROVE Audited'
  BY DEF Audited
<1>t. /\ Len(threats) \in Nat /\ Ids = 1 .. Len(threats)
      /\ \A i \in Ids : threats[i] \in Threat /\ learned[i] \in Nat
      /\ \A i \in Ids : Cardinality(RowsOf(i)) \in Nat
      /\ begun.faults \in Nat /\ DOMAIN begun = {"batches", "verdicts", "faults"}
  BY TypeFacts, RowsFinite DEF TypeOK
<1>f. ~Fail /\ ~Restart /\ begun.faults = 0
  BY <1>t DEF Fail, Restart, Count, Next, vars, StoreEvents, CountEvents, Judge, FinishBatch,
              BeginVerdict, Learn, ApplyStatus, LogFeedback, Doing
<1>a. \A i \in Ids :
          /\ learned[i] = Cardinality(RowsOf(i)) + (IF Owed(i) THEN 1 ELSE 0)
          /\ threats[i].status = IF Owed(i) /\ work.done = 2
                                 THEN StatusFor(work.verdict) ELSE LoggedStatus(i)
  BY <1>f DEF Audited
<1>1. ASSUME UNCHANGED <<threats, learned, feedback>>,
             \A i \in Ids : ~Owed(i) /\ ~Owed(i)'
      PROVE  Audited'
  BY <1>1, <1>a, LoggedKept DEF Audited, Ids
<1>2. CASE UNCHANGED vars
  BY <1>2, <1>a, LoggedKept DEF vars, Audited, Ids, Owed, IsVerdict
<1>3. ASSUME NEW w \in Windows, NEW a \in Actions, NEW anomalous \in BOOLEAN,
             Judge(w, a, anomalous)
      PROVE  Audited'
  <2>1. UNCHANGED feedback /\ (\A i : ~Owed(i) /\ ~Owed(i)')
    BY <1>3, TypeFacts DEF Judge, Owed, IsVerdict, IsBatch, BatchWork
  <2>2. \A i : RowsOf(i)' = RowsOf(i) /\ LoggedStatus(i)' = LoggedStatus(i)
    BY <2>1, LoggedKept
  <2>3. CASE UNCHANGED <<threats, learned>>
    BY <1>1, <2>1, <2>3
  <2>4. CASE Inserted(w, a)
    <3> DEFINE new == Len(threats) + 1
    <3>1. RowsOf(new) = {}
      BY <1>t, TypeFacts DEF RowsOf, Row
    <3>2. Cardinality(RowsOf(new)) = 0
      BY <3>1, FS_EmptySet
    <3>3. threats'[new].status = "open" /\ learned'[new] = 0
      BY <2>4 DEF Inserted
    <3>4. LoggedStatus(new) = "open"
      BY <3>1 DEF LoggedStatus
    <3>5. \A i \in Ids : threats'[i] = threats[i] /\ learned'[i] = learned[i]
      BY <2>4 DEF Inserted
    <3>6. Ids' = Ids \union {new}
      BY <2>4 DEF Inserted
    <3> HIDE DEF new
    <3>7. QED
      BY <1>a, <2>1, <2>2, <3>2, <3>3, <3>4, <3>5, <3>6 DEF Audited
  <2>5. ASSUME NEW n \in OpenOf(w), Updated(w, a, n)
        PROVE  Audited'
    <3>1. Ids' = Ids /\ learned' = learned
      BY <2>5 DEF Updated
    <3>2. ASSUME NEW i \in Ids
          PROVE  threats'[i].status = threats[i].status
      <4>1. threats[n] \in Threat
        BY <1>t DEF OpenOf
      <4>2. CASE i = n
        BY <2>5, <4>1, <4>2 DEF Updated, Threat
      <4>3. CASE i # n
        BY <2>5, <4>3 DEF Updated
      <4>4. QED
        BY <4>2, <4>3
    <3>3. QED
      BY <1>a, <2>1, <2>2, <3>1, <3>2 DEF Audited
  <2>6. QED
    BY <1>3, <2>3, <2>4, <2>5, JudgeCases
<1>4. CASE Learn
  <2>1. /\ IsVerdict /\ IsVerdict' /\ work.id \in Ids /\ work.done = 0
        /\ work'.id = work.id /\ work'.done = 1
        /\ \A i \in Ids : learned'[i] = IF i = work.id THEN learned[i] + 1 ELSE learned[i]
        /\ UNCHANGED <<threats, feedback, Ids>>
    BY <1>4, LearnStep DEF VerdictWork, IsVerdict, Ids
  <2>2. \A i : RowsOf(i)' = RowsOf(i) /\ LoggedStatus(i)' = LoggedStatus(i)
    BY <2>1, LoggedKept
  <2>3. \A i \in Ids : ~Owed(i) /\ (Owed(i)' <=> i = work.id)
    BY <2>1 DEF Owed
  <2>4. QED
    BY <1>a, <1>t, <2>1, <2>2, <2>3 DEF Audited
<1>5. CASE ApplyStatus
  <2>1. /\ IsVerdict /\ IsVerdict' /\ work.id \in Ids /\ work.done = 1
        /\ work'.id = work.id /\ work'.done = 2 /\ work'.verdict = work.verdict
        /\ UNCHANGED <<learned, feedback, Ids>>
        /\ \A i \in Ids : threats'[i].status =
              IF i = work.id THEN StatusFor(work.verdict) ELSE threats[i].status
    BY <1>5, <1>t, StatusStep DEF VerdictWork, IsVerdict, Ids, Threat
  <2>2. \A i : RowsOf(i)' = RowsOf(i) /\ LoggedStatus(i)' = LoggedStatus(i)
    BY <2>1, LoggedKept
  <2>3. \A i \in Ids : (Owed(i) <=> i = work.id) /\ (Owed(i)' <=> i = work.id)
    BY <2>1 DEF Owed
  <2>4. \A i \in Ids : /\ learned'[i] = Cardinality(RowsOf(i)') + (IF Owed(i)' THEN 1 ELSE 0)
                       /\ threats'[i].status = IF Owed(i)' /\ work'.done = 2
                              THEN StatusFor(work'.verdict) ELSE LoggedStatus(i)'
    BY <1>a, <2>1, <2>2, <2>3
  <2>5. QED
    BY <2>1, <2>4 DEF Audited
<1>6. CASE LogFeedback
  <2> DEFINE last == Len(feedback) + 1
  <2>1. /\ IsVerdict /\ work.id \in Ids /\ work.done = 2 /\ ~IsVerdict'
        /\ UNCHANGED <<threats, learned, Ids>>
        /\ Len(feedback) \in Nat
        /\ \A k \in 1 .. Len(feedback) : feedback'[k] = feedback[k]
        /\ feedback'[last].verdict = work.verdict
    BY <1>6, LogStep DEF VerdictWork, IsVerdict, Ids, NoWork, LogFeedback, Doing
  <2>2. \A i \in Ids : RowsOf(i)' = IF i = work.id THEN RowsOf(i) \union {last} ELSE RowsOf(i)
    BY <1>6, LogStep
  <2>3. \A i \in Ids : Cardinality(RowsOf(i)') = IF i = work.id THEN Cardinality(RowsOf(i)) + 1
                                                 ELSE Cardinality(RowsOf(i))
    BY <1>6, LogStep
  <2>4. \A i \in Ids : ~Owed(i)' /\ (Owed(i) <=> i = work.id)
    BY <2>1 DEF Owed
  <2>5. ASSUME NEW i \in Ids, i = work.id
        PROVE  LoggedStatus(i)' = StatusFor(work.verdict)
    <3>1. RowsOf(i) \subseteq 1 .. Len(feedback)
      BY RowsFinite
    <3>2. \A k \in RowsOf(i) \union {last} :
             (\A l \in RowsOf(i) \union {last} : l <= k) <=> k = last
      BY <2>1, <3>1
    <3>3. RowsOf(i)' = RowsOf(i) \union {last}
      BY <2>2, <2>5
    <3> HIDE DEF last
    <3>4. LastRow(i)' = last
      BY <3>2, <3>3 DEF LastRow
    <3>5. QED
      BY <2>1, <3>3, <3>4 DEF LoggedStatus, StatusFor
  <2>6. ASSUME NEW i \in Ids, i # work.id
        PROVE  LoggedStatus(i)' = LoggedStatus(i)
    <3>1. RowsOf(i)' = RowsOf(i)
      BY <2>2, <2>6
    <3>2. LastRow(i)' = LastRow(i)
      BY <3>1 DEF LastRow
    <3>3. CASE RowsOf(i) # {}
      <4>1. LastRow(i) \in RowsOf(i)
        BY <3>3 DEF LogEnds, HasLast, LastRow
      <4>2. LastRow(i) \in 1 .. Len(feedback)
        BY <4>1, RowsFinite
      <4>3. QED
        BY <2>1, <3>1, <3>2, <4>2 DEF LoggedStatus, StatusFor
    <3>4. CASE RowsOf(i) = {}
      BY <3>1, <3>4 DEF LoggedStatus
    <3>5. QED
      BY <3>3, <3>4
  <2>7. \A i \in Ids : /\ learned[i] = Cardinality(RowsOf(i)')
                       /\ threats[i].status = LoggedStatus(i)'
    <3> SUFFICES ASSUME NEW i \in Ids
                 PROVE  /\ learned[i] = Cardinality(RowsOf(i)')
                        /\ threats[i].status = LoggedStatus(i)'
      OBVIOUS
    <3>1. Owed(i) <=> i = work.id
      BY <2>4
    <3>2. /\ learned[i] = Cardinality(RowsOf(i)) + (IF Owed(i) THEN 1 ELSE 0)
          /\ threats[i].status = IF Owed(i) /\ work.done = 2
                                 THEN StatusFor(work.verdict) ELSE LoggedStatus(i)
      BY <1>a
    <3>3. Cardinality(RowsOf(i)) \in Nat
      BY <1>t
    <3>4. learned[i] = Cardinality(RowsOf(i)')
      BY <2>3, <3>1, <3>2, <3>3
    <3>5. threats[i].status = LoggedStatus(i)'
      BY <2>1, <2>5, <2>6, <3>1, <3>2
    <3>6. QED
      BY <3>4, <3>5
  <2>8. \A i \in Ids : Cardinality(RowsOf(i)') \in Nat
    BY <1>t, <2>3
  <2>9. QED
    BY <2>1, <2>4, <2>7, <2>8 DEF Audited
<1>7. ASSUME NEW i \in Ids, NEW v \in Verdicts, BeginVerdict(i, v)
      PROVE  Audited'
  BY <1>1, <1>7, TypeFacts DEF BeginVerdict, Owed
<1>8. CASE (\E ws \in SUBSET Windows : StoreEvents(ws)) \/ CountEvents \/ FinishBatch
  BY <1>1, <1>8, TypeFacts DEF StoreEvents, CountEvents, FinishBatch, Owed, IsVerdict, IsBatch,
                               BatchWork, NoWork
<1>9. QED
  BY <1>2, <1>3, <1>4, <1>5, <1>6, <1>7, <1>8, <1>f DEF Next

(* As long as no storage call failed, a threat's status is that of the last*)
(* verdict logged for it, and every lesson taken is a row of the log.      *)
THEOREM LogTellsAll == Spec => []AuditTrail
<1>1. Init => LogEnds /\ Audited
  BY DEF Init, EmptyTables, Ids, LogEnds, Audited
<1>2. TypeOK /\ Audited => AuditTrail
  <2> SUFFICES ASSUME TypeOK, Audited, LockFree, begun.faults = 0, NEW i \in Ids
               PROVE  /\ learned[i] = Cardinality(RowsOf(i))
                      /\ threats[i].status = LoggedStatus(i)
    BY DEF AuditTrail, LoggedStatus, LastRow, StatusFor
  <2>1. ~Owed(i)
    BY TypeFacts DEF Owed
  <2>2. Cardinality(RowsOf(i)) \in Nat
    BY RowsFinite
  <2>3. QED
    BY <2>1, <2>2 DEF Audited
<1>3. QED
  BY <1>1, <1>2, AuditStep, LastStep, TypeCorrect, OneOpen, PTL DEF Spec

=============================================================================
