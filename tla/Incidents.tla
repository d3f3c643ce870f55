----------------------------- MODULE Incidents -----------------------------
(***************************************************************************)
(* The server's pipeline (server/pipeline/orchestrator.py) and the threat  *)
(* table it keeps: a batch is stored, counted into its behaviour windows   *)
(* and judged window by window; an analyst's verdict teaches the learner,  *)
(* closes the threat and is logged.                                        *)
(*                                                                         *)
(* process_batch and apply_feedback hold the pipeline's RLock, but every   *)
(* storage call inside commits by itself, so a storage error or a crash    *)
(* may come between any two of them.                                       *)
(*                                                                         *)
(* What a window is judged to be is any action here; Judgement says under  *)
(* which policy which, and QLearning what a verdict teaches.  A threat's   *)
(* id is its place in the table.                                           *)
(***************************************************************************)
EXTENDS Naturals, Sequences, FiniteSets

CONSTANTS Windows,      \* (agent, user, host, hour) keys
          MaxBatches,   \* bound: batches
          MaxVerdicts,  \* bound: verdicts
          MaxFaults     \* bound: storage errors and restarts

ASSUME IncidentsAssumption == /\ IsFiniteSet(Windows)
                              /\ MaxBatches \in Nat
                              /\ MaxVerdicts \in Nat
                              /\ MaxFaults \in Nat

Actions == {"DISMISS", "ALERT", "BLOCK"}
Verdicts == {"block", "dismiss"}

VARIABLES stored,     \* the events table: events per window
          counts,     \* RollingFeatureStore: events counted per window
          threats,    \* the threats table
          feedback,   \* the feedback table
          work,       \* what the holder of the pipeline's lock is doing
          learned,    \* history: verdicts the learner was taught, per threat
          begun       \* the bounds' counters

vars == <<stored, counts, threats, feedback, work, learned, begun>>

NoWork == [kind |-> "none"]
Ids == DOMAIN threats
IsBatch == work.kind = "batch"
IsVerdict == work.kind = "verdict"

-----------------------------------------------------------------------------
(* Altered forms of the definitions below, to see the properties fail.     *)

AlwaysInsert(w) == {}
OfAnyStatus(w) == {i \in Ids : threats[i].window = w}
StatusFirst == <<"status", "learn", "log">>
NothingLogged == <<"learn", "status">>
CountedTwice(ws) == [w \in Windows |-> counts[w] + (IF w \in ws THEN 2 ELSE 0)]

-----------------------------------------------------------------------------
LockFree == work = NoWork

(* upsert_threat's SELECT.                                                 *)
OpenOf(w) == {i \in Ids : threats[i].window = w /\ threats[i].status = "open"}

StatusFor(verdict) == IF verdict = "block" THEN "blocked" ELSE "dismissed"

(* The order of apply_feedback's commits.                                  *)
FeedbackOrder == <<"learn", "status", "log">>

Counted(ws) == [w \in Windows |-> counts[w] + (IF w \in ws THEN 1 ELSE 0)]

(* should_record: quiet, dismissed windows stay in the event log only.     *)
ShouldRecord(anomalous, action) == anomalous \/ action # "DISMISS"

Zero == [w \in Windows |-> 0]
Count(name) == begun' = [begun EXCEPT ![name] = @ + 1]

(* init_schema; the learner's and the agents' tables are of other modules. *)
EmptyTables == stored = Zero /\ threats = <<>> /\ feedback = <<>>

Init == /\ EmptyTables
        /\ counts = Zero
        /\ work = NoWork
        /\ learned = <<>>
        /\ begun = [batches |-> 0, verdicts |-> 0, faults |-> 0]

-----------------------------------------------------------------------------
(* process_batch.                                                          *)

InsertEvents(ws) == stored' = [w \in Windows |-> stored[w] + (IF w \in ws THEN 1 ELSE 0)]

(* A batch with one event in each window of ws.                            *)
StoreEvents(ws) ==
    /\ LockFree
    /\ begun.batches < MaxBatches
    /\ Count("batches")
    /\ InsertEvents(ws)
    /\ work' = [kind |-> "batch", step |-> "stored", todo |-> ws]
    /\ UNCHANGED <<counts, threats, feedback, learned>>

(* The windows are updated and scored.                                     *)
CountEvents ==
    /\ IsBatch
    /\ work.step = "stored"
    /\ counts' = Counted(work.todo)
    /\ work' = [work EXCEPT !.step = "judging"]
    /\ UNCHANGED <<stored, threats, feedback, learned, begun>>

InsertThreat(w, action) ==
    /\ threats' = Append(threats, [window |-> w, action |-> action,
                                   evidence |-> counts[w], status |-> "open"])
    /\ learned' = Append(learned, 0)

(* upsert_threat: update the open record of the window, or insert one.     *)
Upsert(w, action) ==
    LET open == OpenOf(w)
        newest == CHOOSE i \in open : \A j \in open : j <= i
    IN IF open = {}
       THEN InsertThreat(w, action)
       ELSE /\ threats' = [threats EXCEPT ![newest].action = action,
                                          ![newest].evidence = counts[w]]
            /\ UNCHANGED learned

(* Every window of the batch is recorded, or left in the event log only.   *)
Judge(w, action, anomalous) ==
    /\ IsBatch
    /\ work.step = "judging"
    /\ w \in work.todo
    /\ work' = [work EXCEPT !.todo = @ \ {w}]
    /\ IF ShouldRecord(anomalous, action)
       THEN Upsert(w, action) ELSE UNCHANGED <<threats, learned>>
    /\ UNCHANGED <<stored, counts, feedback, begun>>

(* touch_agent, and the answer.                                            *)
FinishBatch ==
    /\ IsBatch
    /\ work.step = "judging"
    /\ work.todo = {}
    /\ work' = NoWork
    /\ UNCHANGED <<stored, counts, threats, feedback, learned, begun>>

-----------------------------------------------------------------------------
(* apply_feedback.  A threat already decided is accepted again.            *)
BeginVerdict(i, verdict) ==
    /\ LockFree
    /\ begun.verdicts < MaxVerdicts
    /\ Count("verdicts")
    /\ work' = [kind |-> "verdict", id |-> i, verdict |-> verdict, done |-> 0]
    /\ UNCHANGED <<stored, counts, threats, feedback, learned>>

Doing(step) ==
    /\ IsVerdict
    /\ FeedbackOrder[work.done + 1] = step
    /\ work' = IF work.done + 1 = Len(FeedbackOrder) THEN NoWork
               ELSE [work EXCEPT !.done = @ + 1]
    /\ UNCHANGED <<stored, counts, begun>>

Learn == /\ Doing("learn")
         /\ learned' = [learned EXCEPT ![work.id] = @ + 1]
         /\ UNCHANGED <<threats, feedback>>

ApplyStatus == /\ Doing("status")
               /\ threats' = [threats EXCEPT ![work.id].status = StatusFor(work.verdict)]
               /\ UNCHANGED <<feedback, learned>>

LogFeedback == /\ Doing("log")
               /\ feedback' = Append(feedback, [threat |-> work.id, verdict |-> work.verdict])
               /\ UNCHANGED <<threats, learned>>

-----------------------------------------------------------------------------
(* A storage call raises: the request fails and the lock is released.      *)
Fail == /\ ~LockFree
        /\ begun.faults < MaxFaults
        /\ Count("faults")
        /\ work' = NoWork
        /\ UNCHANGED <<stored, counts, threats, feedback, learned>>

(* The server dies and starts again: the tables stay, the windows do not.  *)
Restart == /\ begun.faults < MaxFaults
           /\ Count("faults")
           /\ work' = NoWork
           /\ counts' = Zero
           /\ UNCHANGED <<stored, threats, feedback, learned>>

Next == \/ \E ws \in SUBSET Windows : StoreEvents(ws)
        \/ CountEvents
        \/ \E w \in Windows, a \in Actions, anomalous \in BOOLEAN : Judge(w, a, anomalous)
        \/ FinishBatch
        \/ \E i \in Ids, v \in Verdicts : BeginVerdict(i, v)
        \/ Learn \/ ApplyStatus \/ LogFeedback
        \/ Fail
        \/ Restart

Spec == Init /\ [][Next]_vars

-----------------------------------------------------------------------------
Statuses == {"open", "blocked", "dismissed"}
RowsOf(i) == {k \in DOMAIN feedback : feedback[k].threat = i}

TypeOK ==
    /\ stored \in [Windows -> Nat]
    /\ counts \in [Windows -> Nat]
    /\ threats \in Seq([window : Windows, action : Actions, evidence : Nat,
                        status : Statuses])
    /\ learned \in Seq(Nat) /\ Len(learned) = Len(threats)
    /\ feedback \in Seq([threat : Ids, verdict : Verdicts])
    /\ \/ work = NoWork
       \/ work \in [kind : {"batch"}, step : {"stored", "judging"}, todo : SUBSET Windows]
       \/ work \in [kind : {"verdict"}, id : Ids, verdict : Verdicts, done : 0 .. 2]
    /\ begun \in [{"batches", "verdicts", "faults"} -> Nat]

(* "one incident per open window" (sqlite_store.py:90): however batches,   *)
(* verdicts, errors and restarts interleave, a window has at most one open *)
(* threat, and it is the window's newest.                                  *)
OneOpenPerWindow ==
    \A i, j \in Ids : threats[i].window = threats[j].window /\ threats[i].status = "open"
                      => j <= i

(* "Analyst-decided threats are never overwritten" (response.py:160): what *)
(* a verdict was given on stays as it was judged, and only a verdict on    *)
(* that very threat closes it or changes how it was closed.                *)
DecidedStands ==
    \A i \in Ids :
        /\ threats[i].status # "open" =>
               threats'[i] = [threats[i] EXCEPT !.status = threats'[i].status]
        /\ threats'[i].status # threats[i].status => IsVerdict /\ work.id = i

VerdictStands == [][DecidedStands]_vars

(* A verdict that took effect anywhere was learned from, whatever fails in *)
(* between: apply_feedback is "the only place the system's decision        *)
(* boundary changes based on human judgement" (orchestrator.py:147-148), so*)
(* closing a threat first would lose the lesson for good.                  *)
ClosedIsLearned ==
    \A i \in Ids : /\ threats[i].status # "open" => learned[i] > 0
                   /\ Cardinality(RowsOf(i)) <= learned[i]

(* The feedback log is the audit trail (test_api.py:403): as long as no    *)
(* storage call failed, a threat's status is that of the last verdict      *)
(* logged for it, and every lesson the learner took is a row of the log.   *)
AuditTrail ==
    LockFree /\ begun.faults = 0 =>
        \A i \in Ids :
            /\ learned[i] = Cardinality(RowsOf(i))
            /\ threats[i].status =
                   IF RowsOf(i) = {} THEN "open"
                   ELSE LET last == CHOOSE k \in RowsOf(i) : \A l \in RowsOf(i) : l <= k
                        IN IF feedback[last].verdict = "block" THEN "blocked" ELSE "dismissed"

(* A threat never claims more than the event log can show (the raw events  *)
(* are kept as the "audit trail", config.py:54), also when a batch failed  *)
(* after some of its steps or the windows were lost in a restart.          *)
EvidenceIsOnRecord == /\ \A w \in Windows : counts[w] <= stored[w]
                      /\ \A i \in Ids : threats[i].evidence <= stored[threats[i].window]

=============================================================================
