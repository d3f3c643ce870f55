-------------------------- MODULE AgentLoopProofs --------------------------
(***************************************************************************)
(* The safety properties of AgentLoop, proved for every cap, batch size,   *)
(* number of events and backoff.                                           *)
(*                                                                         *)
(* The agent's steps use the buffer as EventBuffer allows, so the theorems *)
(* of EventBufferProofs hold of the whole process (LoopUsesBuffer).  That  *)
(* nothing noticed is left over at the exit needs to know when collectors  *)
(* may run at all (Phases), and that the final flush covers the buffer     *)
(* needs to follow its batch from the drain to the answer (FinalBatch).    *)
(***************************************************************************)
EXTENDS AgentLoop, EventBufferProofs

(* Collectors run between connect and shutdown, and only while the file    *)
(* collector runs does it debounce anything.                               *)
Phases ==
    /\ configured \subseteq Collectors /\ running \subseteq configured \cap available
    /\ main \in {"start", "final", "exited"} => running = {}
    /\ held # 0 => "file" \in running

(* Every change noticed is accepted by the buffer or debounced.            *)
Accounts == held \in Nat /\ noticed \in 0 .. MaxEvents /\ noticed = accepted + held

(* While the last batch is on the wire or once it is answered, the buffer  *)
(* holds only what late threads put there, unless the batch was full.      *)
FinalBatch ==
    /\ final \in [outcome : {"none", "sent", "ok", "failed"}, batch : Nat]
    /\ final.outcome # "none" => main \in {"final", "exited", "crashed"}
    /\ main = "final" => final.outcome = "sent"
    /\ main \in {"final", "exited"} /\ final.outcome \in {"sent", "ok"}
         /\ final.batch < MaxBatch => Elems(items) \subseteq late

-----------------------------------------------------------------------------
(* Each step of the process is one of the buffer's, or leaves it alone.    *)
LEMMA StepUsesBuffer ==
    ASSUME accepted \in Nat, Accounts, [Next]_vars
    PROVE  [BufferNext]_bufferVars /\ accepted' \in Nat
<1>1. \A n \in Nat : Extend(n) => accepted' \in Nat
  BY DEF Extend
<1>2. \A n \in Nat \ {0} : Extend(n) => BufferNext
  <2>1. \A n \in Nat \ {0} : Extend(n) => n \in 1 .. MaxEvents
    BY BufferAssumption DEF Extend
  <2>2. QED
    BY <2>1 DEF BufferNext
<1>3. StopFile => [BufferNext]_bufferVars /\ accepted' \in Nat
  BY <1>1, <1>2 DEF StopFile, Accounts, bufferVars
<1>4. Drain \/ Settle \/ Requeue => BufferNext /\ accepted' = accepted
  BY DEF BufferNext, Drain, Settle, Requeue
<1>5. CASE Interrupt
  BY <1>5 DEF Interrupt, bufferVars
<1>6. CASE Threads
  BY <1>1, <1>2, <1>6 DEF Threads, Emit, Notice, Debounced, Straggle, bufferVars
<1>7. CASE Main
  <2>1. CASE Flush \/ SendSucceeds \/ SendFails \/ FinalFlush \/ FinalSucceeds \/ FinalFails
    BY <1>4, <2>1 DEF Flush, SendSucceeds, SendFails, FinalFlush, FinalSucceeds, FinalFails,
       GiveBack
  <2>2. CASE CollectedOnce
    BY <1>3, <2>2 DEF CollectedOnce
  <2>3. ASSUME NEW c \in Collectors, StopCollector(c)
        PROVE  [BufferNext]_bufferVars /\ accepted' \in Nat
    BY <1>3, <2>3 DEF StopCollector, bufferVars
  <2>4. CASE Refuse \/ Connect \/ TimerFires \/ FlushNothing \/ BeginShutdown \/ FinalNothing
    BY <2>4 DEF Refuse, Connect, TimerFires, FlushNothing, BeginShutdown, FinalNothing,
       bufferVars
  <2>5. QED
    BY <1>7, <2>1, <2>2, <2>3, <2>4 DEF Main
<1>8. CASE UNCHANGED vars
  BY <1>8 DEF vars, bufferVars
<1>9. QED
  BY <1>5, <1>6, <1>7, <1>8 DEF Next

(* See and the buffer's counter move together.                             *)
LEMMA StepAccounts ==
    ASSUME accepted \in Nat, Accounts, [Next]_vars
    PROVE  Accounts'
<1>1. held \in Nat /\ noticed \in 0 .. MaxEvents /\ noticed = accepted + held /\ MaxEvents \in Nat
  BY BufferAssumption DEF Accounts
<1>2. ASSUME UNCHANGED <<held, noticed, accepted>>
      PROVE  Accounts'
  BY <1>1, <1>2 DEF Accounts
<1>3. CASE Interrupt \/ UNCHANGED vars
  BY <1>2, <1>3 DEF Interrupt, vars, bufferVars, threadVars
<1>4. ASSUME NEW c \in Collectors, Emit(c) \/ Straggle(c)
      PROVE  Accounts'
  BY <1>1, <1>4 DEF Emit, Straggle, See, Room, Extend, Accounts, threadVars
<1>5. CASE Notice
  BY <1>1, <1>5 DEF Notice, See, Room, Accounts, bufferVars
<1>6. CASE Debounced
  BY <1>1, <1>6 DEF Debounced, Extend, Accounts
<1>7. StopFile /\ noticed' = noticed => Accounts'
  BY <1>1 DEF StopFile, Extend, Accounts, bufferVars
<1>8. CASE CollectedOnce
  BY <1>7, <1>8 DEF CollectedOnce
<1>9. ASSUME NEW c \in Collectors, StopCollector(c)
      PROVE  Accounts'
  BY <1>2, <1>7, <1>9 DEF StopCollector, bufferVars
<1>10. CASE Flush \/ SendSucceeds \/ SendFails \/ FinalFlush \/ FinalSucceeds \/ FinalFails
  BY <1>2, <1>10 DEF Flush, SendSucceeds, SendFails, FinalFlush, FinalSucceeds, FinalFails,
     GiveBack, Drain, Settle, Requeue, threadVars
<1>11. CASE Refuse \/ Connect \/ TimerFires \/ FlushNothing \/ BeginShutdown \/ FinalNothing
  BY <1>2, <1>11 DEF Refuse, Connect, TimerFires, FlushNothing, BeginShutdown, FinalNothing,
     bufferVars, threadVars
<1>12. QED
  BY <1>3, <1>4, <1>5, <1>6, <1>8, <1>9, <1>10, <1>11 DEF Next, Threads, Main

(* The agent process uses its buffer as EventBuffer allows, so every       *)
(* theorem about the buffer is one about the process (agent/main.py,       *)
(* agent/buffer.py).                                                       *)
THEOREM LoopUsesBuffer == Spec => BufferSpec /\ []Accounts
<1> DEFINE Counting == accepted \in Nat
<1>1. Init => BufferInit /\ Counting /\ Accounts
  BY BufferAssumption DEF Init, BufferInit, Accounts
<1>2. Counting /\ Accounts /\ [Next]_vars => Counting' /\ [BufferNext]_bufferVars
  BY StepUsesBuffer
<1>3. Counting /\ Accounts /\ [Next]_vars => Accounts'
  BY StepAccounts
<1> HIDE DEF Counting
<1>4. QED
  BY <1>1, <1>2, <1>3, PTL DEF Spec, BufferSpec

(* The cap, the counters, the order of events and the choice of what is    *)
(* lost, through every flush, retry, stop and late thread.                 *)
THEOREM LoopBuffers ==
    Spec => [](Bounded /\ Conservation /\ InOrder /\ DropsAreLosses) /\ LosesOnlyOldest
BY LoopUsesBuffer, BufferBounded, BufferConserves, BufferInOrder, BufferCountsLosses,
   BufferLosesOnlyOldest, PTL

-----------------------------------------------------------------------------
LEMMA InitPhases == Init => Phases /\ FinalBatch
BY DEF Init, Phases, FinalBatch, NoFinal, BufferInit

(* A collector that has been stopped, or not started, notices nothing.     *)
LEMMA StepPhases ==
    ASSUME BufferTypeOK, Accounts, Phases, [Next]_vars
    PROVE  Phases'
<1>1. /\ configured \subseteq Collectors /\ running \subseteq configured \cap available
      /\ main \in {"start", "final", "exited"} => running = {}
      /\ held # 0 => "file" \in running
      /\ held \in Nat
  BY DEF Phases, Accounts
<1>2. ASSUME UNCHANGED <<configured, available, running, held, main>>
      PROVE  Phases'
  BY <1>1, <1>2 DEF Phases
<1>3. CASE Interrupt \/ UNCHANGED vars
  BY <1>2, <1>3 DEF Interrupt, vars, staticVars, threadVars
<1>4. ASSUME NEW c \in Collectors, Emit(c) \/ Straggle(c)
      PROVE  Phases'
  BY <1>2, <1>4 DEF Emit, Straggle, staticVars, threadVars
<1>5. CASE Notice \/ Debounced
  BY <1>1, <1>5 DEF Notice, Debounced, Phases, staticVars
<1>6. ASSUME UNCHANGED <<configured, available, running, held>>,
             main' \in {"start", "final", "exited"} => running = {}
      PROVE  Phases'
  BY <1>1, <1>6 DEF Phases
<1>7. CASE Refuse \/ TimerFires \/ Flush \/ FlushNothing \/ SendSucceeds \/ SendFails
             \/ BeginShutdown
  BY <1>1, <1>6, <1>7 DEF Refuse, TimerFires, Flush, FlushNothing, SendSucceeds, SendFails,
     BeginShutdown, AfterFlush, staticVars, threadVars
<1>8. CASE FinalFlush \/ FinalNothing \/ FinalSucceeds \/ FinalFails
  BY <1>1, <1>6, <1>8 DEF FinalFlush, FinalNothing, FinalSucceeds, FinalFails,
     CollectorsStopped, staticVars, threadVars
<1>9. CASE Connect
  <2>1. /\ main = "start" /\ running = {} /\ held = 0
        /\ UNCHANGED <<configured, available, held>>
        /\ \/ main' = "exited" /\ running' = running
           \/ main' \in {"waiting", "collecting"} /\ running' = configured \cap available
    BY <1>1, <1>9 DEF Connect, staticVars
  <2>2. QED
    BY <1>1, <2>1 DEF Phases
<1>10. CASE CollectedOnce
  <2>1. main' = "once" /\ held' = 0 /\ UNCHANGED <<configured, available, running>>
    BY <1>10 DEF CollectedOnce, StopFile, staticVars
  <2>2. QED
    BY <1>1, <2>1 DEF Phases
<1>11. ASSUME NEW c \in Collectors, StopCollector(c)
       PROVE  Phases'
  <2>1. /\ main = "stopping" /\ running' = running \ {c}
        /\ UNCHANGED <<configured, available, main>>
        /\ held' = (IF c = "file" THEN 0 ELSE held)
    BY <1>11 DEF StopCollector, StopFile, staticVars
  <2>2. QED
    BY <1>1, <2>1 DEF Phases
<1>12. QED
  BY <1>3, <1>4, <1>5, <1>7, <1>8, <1>9, <1>10, <1>11 DEF Next, Threads, Main

(* What the collectors notice reaches the buffer whichever way the process *)
(* ends in order (file_collector.py:173-184, main.py:109-116): the count   *)
(* agrees at all times, and nothing is debounced any more at the exit.     *)
THEOREM NothingHeldBack == Spec => []NoticedIsAccounted
<1>1. Init => Phases
  BY InitPhases
<1>2. BufferTypeOK /\ Accounts /\ Phases /\ [Next]_vars => Phases'
  BY StepPhases
<1>3. Accounts /\ Phases => NoticedIsAccounted
  BY DEF Accounts, Phases, NoticedIsAccounted
<1>4. Spec => [](BufferTypeOK /\ Accounts)
  BY LoopUsesBuffer, TypeCorrect, PTL
<1>5. QED
  BY <1>1, <1>2, <1>3, <1>4, PTL DEF Spec

-----------------------------------------------------------------------------
(* What Extend(1) adds to the buffer is the new event alone.               *)
LEMMA ExtendAddsOne ==
    ASSUME BufferTypeOK, Extend(1)
    PROVE  Elems(items') \subseteq Elems(items) \cup {accepted'}
<1> DEFINE new == [i \in 1 .. 1 |-> accepted + i]
<1>1. /\ items \in Seq(Nat) /\ accepted \in Nat
      /\ accepted' = accepted + 1 /\ items' = Trim(items \o new)
  BY DEF BufferTypeOK, Extend, Hold
<1>2. new \in Seq(Nat) /\ DOMAIN new = 1 .. 1 /\ new[1] = accepted + 1
  BY <1>1, IsASeq
<1>3. Elems(new) = {accepted'}
  BY <1>1, <1>2 DEF Elems
<1> HIDE DEF new
<1>4. items \o new \in Seq(Nat)
  BY <1>1, <1>2
<1>5. WindowAt(items', items \o new, Overflow(items \o new)) /\ items' \in Seq(Nat)
      /\ Overflow(items \o new) \in Nat
  BY <1>1, <1>4, TrimKeepsNewest
<1>6. Elems(items') \subseteq Elems(items \o new)
  BY <1>4, <1>5, WindowElems
<1>7. QED
  BY <1>1, <1>2, <1>3, <1>6, ConcatElems

LEMMA DrainTypes ==
    ASSUME BufferTypeOK, Drain
    PROVE  inFlight' \in Seq(Nat) /\ Len(inFlight') \in Nat
<1>1. items \in Seq(Nat) /\ Len(items) \in Nat /\ MaxBatch \in Nat
  BY BufferAssumption DEF BufferTypeOK
<1>2. MinOf(MaxBatch, Len(items)) \in 0 .. Len(items)
  BY <1>1 DEF MinOf
<1>3. inFlight' = SubSeq(items, 1, MinOf(MaxBatch, Len(items)))
  BY DEF Drain
<1>4. QED
  BY <1>1, <1>2, <1>3

(* A drain that does not fill the batch empties the buffer.                *)
LEMMA ShortDrainEmpties ==
    ASSUME BufferTypeOK, Drain, Len(inFlight') < MaxBatch
    PROVE  Elems(items') = {}
<1> DEFINE n == MinOf(MaxBatch, Len(items))
<1>1. /\ items \in Seq(Nat) /\ Len(items) \in Nat /\ MaxBatch \in Nat
      /\ inFlight' = SubSeq(items, 1, n) /\ items' = SubSeq(items, n + 1, Len(items))
  BY BufferAssumption DEF BufferTypeOK, Drain
<1>2. n \in 0 .. Len(items)
  BY <1>1 DEF MinOf
<1>3. Len(inFlight') = n
  BY <1>1, <1>2
<1>4. n = Len(items)
  BY <1>1, <1>3 DEF MinOf
<1>5. DOMAIN items' = {}
  BY <1>1, <1>4
<1>6. QED
  BY <1>5 DEF Elems

LEMMA StepFinalBatch ==
    ASSUME BufferTypeOK, Phases, FinalBatch, [Next]_vars
    PROVE  FinalBatch'
<1>1. /\ final \in [outcome : {"none", "sent", "ok", "failed"}, batch : Nat]
      /\ final.outcome # "none" => main \in {"final", "exited", "crashed"}
      /\ main = "final" => final.outcome = "sent"
      /\ main \in {"final", "exited"} /\ final.outcome \in {"sent", "ok"}
            /\ final.batch < MaxBatch => Elems(items) \subseteq late
  BY DEF FinalBatch
<1>2. ASSUME UNCHANGED <<main, final, late>>,
             items' = items \/ main \notin {"final", "exited"}
      PROVE  FinalBatch'
  BY <1>1, <1>2 DEF FinalBatch
<1>3. ASSUME final.outcome = "none", UNCHANGED final, main' # "final"
      PROVE  FinalBatch'
  BY <1>3 DEF FinalBatch
<1>4. CASE Interrupt \/ UNCHANGED vars
  BY <1>2, <1>4 DEF Interrupt, vars, bufferVars
<1>5. ASSUME NEW c \in Collectors, Emit(c)
      PROVE  FinalBatch'
  BY <1>2, <1>5 DEF Emit, Phases
<1>6. CASE Notice \/ Debounced
  BY <1>2, <1>6 DEF Notice, Debounced, Phases, bufferVars
<1>7. ASSUME NEW c \in Collectors, Straggle(c)
      PROVE  FinalBatch'
  <2>1. /\ Extend(1) /\ late' = late \cup {accepted'} /\ UNCHANGED <<main, final>>
    BY <1>7 DEF Straggle
  <2>2. Elems(items') \subseteq Elems(items) \cup {accepted'}
    BY <2>1, ExtendAddsOne
  <2>3. Elems(items) \subseteq late => Elems(items') \subseteq late'
    BY <2>1, <2>2
  <2>4. QED
    BY <1>1, <2>1, <2>3 DEF FinalBatch
<1>8. CASE Refuse \/ Connect \/ CollectedOnce \/ TimerFires \/ Flush \/ FlushNothing
             \/ SendSucceeds \/ SendFails \/ BeginShutdown \/ FinalNothing
  <2>1. /\ main \in {"start", "collecting", "waiting", "due", "once", "sending",
                     "sending once", "stopping"}
        /\ UNCHANGED final /\ main' # "final"
    BY <1>8 DEF Refuse, Connect, CollectedOnce, TimerFires, Flush, FlushNothing,
       SendSucceeds, SendFails, BeginShutdown, FinalNothing, CollectorsStopped, AfterFlush
  <2>2. QED
    BY <1>1, <1>3, <2>1
<1>9. ASSUME NEW c \in Collectors, StopCollector(c)
      PROVE  FinalBatch'
  BY <1>1, <1>3, <1>9 DEF StopCollector
<1>10. CASE FinalFlush
  <2>1. /\ main' = "final" /\ final' = [outcome |-> "sent", batch |-> Len(inFlight')]
        /\ Drain
    BY <1>10 DEF FinalFlush
  <2>2. final'.outcome = "sent" /\ final'.batch = Len(inFlight')
    BY <2>1
  <2>3. Len(inFlight') \in Nat
    BY <2>1, DrainTypes
  <2>4. final'.batch < MaxBatch => Elems(items') = {}
    BY <2>1, <2>2, ShortDrainEmpties
  <2>5. QED
    BY <2>1, <2>2, <2>3, <2>4 DEF FinalBatch
<1>11. CASE FinalSucceeds
  <2>1. /\ main = "final" /\ main' \in {"exited", "crashed"}
        /\ items' = items /\ late' = late
        /\ final' = [final EXCEPT !.outcome = "ok"]
    BY <1>11 DEF FinalSucceeds, Settle
  <2>2. final'.batch = final.batch /\ final'.outcome = "ok"
    BY <1>1, <2>1
  <2>3. QED
    BY <1>1, <2>1, <2>2 DEF FinalBatch
<1>12. CASE FinalFails
  <2>1. main' = "exited" /\ final' = [final EXCEPT !.outcome = "failed"]
    BY <1>12 DEF FinalFails
  <2>2. final'.outcome = "failed"
    BY <1>1, <2>1
  <2>3. QED
    BY <1>1, <2>1, <2>2 DEF FinalBatch
<1>13. QED
  BY <1>4, <1>5, <1>6, <1>7, <1>8, <1>9, <1>10, <1>11, <1>12 DEF Next, Threads, Main

(* The final flush delivers what is buffered (main.py:110): a final batch  *)
(* that was not full and was answered leaves only what threads that        *)
(* outlived their join added.                                              *)
THEOREM FinalFlushDelivers == Spec => []FinalFlushCovers
<1>1. Init => Phases /\ FinalBatch
  BY InitPhases
<1>2. BufferTypeOK /\ Accounts /\ Phases /\ [Next]_vars => Phases'
  BY StepPhases
<1>3. BufferTypeOK /\ Phases /\ FinalBatch /\ [Next]_vars => FinalBatch'
  BY StepFinalBatch
<1>4. FinalBatch => FinalFlushCovers
  BY DEF FinalBatch, FinalFlushCovers
<1>5. Spec => [](BufferTypeOK /\ Accounts)
  BY LoopUsesBuffer, TypeCorrect, PTL
<1>6. QED
  BY <1>1, <1>2, <1>3, <1>4, <1>5, PTL DEF Spec
=============================================================================
