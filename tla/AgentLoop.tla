----------------------------- MODULE AgentLoop -----------------------------
(***************************************************************************)
(* The life of the agent process (agent/main.py): connect, start the       *)
(* collectors, flush on a timer with exponential backoff, apply the policy *)
(* each answer carries, and on a signal stop the collectors and flush once *)
(* more.  The main thread shares the buffer with the collector threads     *)
(* (agent/collectors/base.py, file_collector.py) and the stop event with   *)
(* the signal handler.                                                     *)
(*                                                                         *)
(* A send is one answer or one TransportError here; Delivery opens it up.  *)
(* Times are whole seconds.                                                *)
(***************************************************************************)
EXTENDS EventBuffer

CONSTANTS RetryBackoff, MaxBackoff         \* cfg.retry_backoff_s, max_backoff_s

ASSUME LoopAssumption == /\ RetryBackoff \in Nat \ {0}
                         /\ MaxBackoff \in Nat \ {0}

Collectors == {"file", "usb", "logon"}

VARIABLES mode,        \* how main was called: run, --once or --check
          configured,  \* the collectors the config constructs
          available,   \* those whose probe works on this platform
          running,     \* collectors whose threads are collecting
          straggling,  \* polling threads still inside diff after stop's join
          held,        \* writes the file collector still debounces
          main,        \* where the main thread is
          stop,        \* _stop
          backoff,     \* _backoff
          code,        \* the exit code
          final,       \* history: how the final flush went
          noticed,     \* history: how many changes the collectors noticed
          late         \* history: events of threads that outlived stop's join

staticVars == <<mode, configured, available>>
threadVars == <<running, straggling, held>>
vars == <<bufferVars, staticVars, threadVars, main, stop, backoff, code, final, noticed, late>>

Greater(a, b) == IF a > b THEN a ELSE b

NoFinal == [outcome |-> "none", batch |-> 0]
Alive == main \notin {"exited", "crashed"}

-----------------------------------------------------------------------------
(* Altered forms of the definitions below, to see the properties fail.     *)

SleepsThroughStop == stop /\ backoff = 0
StopFileNoFlush == /\ held' = 0
                   /\ UNCHANGED bufferVars
DrainBeforeStop == main = "stopping"
ForgetBatch == /\ inFlight' = <<>>
               /\ UNCHANGED <<items, accepted, dropped, delivered>>

-----------------------------------------------------------------------------
NextBackoff ==
    MinOf(MaxBackoff, Greater(RetryBackoff, IF backoff = 0 THEN RetryBackoff
                                                             ELSE backoff * 2))

(* _stop.wait returns as soon as the event is set, whatever the interval.  *)
WakesOnStop == stop

(* FileCollector.stop: the observer is joined, then flush_pending(force).  *)
StopFile == /\ held' = 0
            /\ IF held = 0 THEN UNCHANGED bufferVars ELSE Extend(held)

(* shutdown stops the collectors in the order of self.collectors.          *)
NextToStop(c) ==
    /\ c \in running
    /\ c = "usb" => "file" \notin running
    /\ c = "logon" => running = {"logon"}

CollectorsStopped == main = "stopping" /\ running = {}

(* run goes back to its wait; --once shuts down.                           *)
AfterFlush == IF mode = "run" THEN "waiting" ELSE "stopping"

(* flush_once's except branch.                                             *)
GiveBack == Requeue

(* cfg.validate: with every collector disabled there is nothing to run.    *)
Valid == configured # {}

-----------------------------------------------------------------------------
Init == /\ BufferInit
        /\ mode \in {"run", "once", "check"}
        /\ configured \in SUBSET Collectors
        /\ available \in {a \in SUBSET Collectors : "file" \in a}
        /\ running = {} /\ straggling = {} /\ held = 0
        /\ main = "start"
        /\ stop = FALSE
        /\ backoff = 0
        /\ code = 0
        /\ final = NoFinal
        /\ noticed = 0
        /\ late = {}

(* The signal handler; installed before run is called, and not for --check.*)
Interrupt == /\ Alive
             /\ Valid
             /\ mode # "check"
             /\ stop' = TRUE
             /\ UNCHANGED <<bufferVars, staticVars, threadVars, main,
                            backoff, code, final, noticed, late>>

-----------------------------------------------------------------------------
(* The collector threads.                                                  *)

(* MaxEvents bounds what the collectors notice, emitted or still held.     *)
Room == noticed < MaxEvents
See == Room /\ noticed' = noticed + 1

(* A polling thread reports a change, or the file collector a delete, a    *)
(* move or a write without debouncing.                                     *)
Emit(c) == /\ c \in running
           /\ Alive
           /\ See
           /\ Extend(1)
           /\ UNCHANGED <<staticVars, threadVars, main, stop, backoff, code, final, late>>

(* A write notification is held until its debounce interval has passed.    *)
Notice == /\ "file" \in running
          /\ Alive
          /\ See
          /\ held' = held + 1
          /\ UNCHANGED <<bufferVars, staticVars, running, straggling, main,
                         stop, backoff, code, final, late>>

Debounced == /\ "file" \in running
             /\ Alive
             /\ held > 0
             /\ Extend(1)
             /\ held' = held - 1
             /\ UNCHANGED <<staticVars, running, straggling, main, stop,
                            backoff, code, final, noticed, late>>

(* A polling thread that outlived its join timeout emits, and ends.        *)
Straggle(c) == /\ c \in straggling
               /\ Alive
               /\ See
               /\ Extend(1)
               /\ late' = late \cup {accepted'}
               /\ straggling' = straggling \ {c}
               /\ UNCHANGED <<staticVars, running, held, main, stop,
                              backoff, code, final>>

-----------------------------------------------------------------------------
(* The main thread.                                                        *)

(* Before anything starts: cfg.validate found problems, or the keys are    *)
(* missing or corrupt.                                                     *)
Refuse ==
    /\ main = "start"
    /\ main' = "exited"
    /\ code' = 2
    /\ UNCHANGED <<bufferVars, staticVars, threadVars, stop, backoff, final, noticed, late>>

(* connect, then start every collector that is available; --check ends here.*)
Connect ==
    /\ main = "start"
    /\ Valid
    /\ \/ /\ mode = "check"
          /\ main' = "exited"
          /\ UNCHANGED <<code, running>>
       \/ /\ mode # "check"
          /\ main' = IF mode = "run" THEN "waiting" ELSE "collecting"
          /\ running' = configured \cap available
          /\ UNCHANGED code
       \/ /\ main' = "exited"
          /\ code' = 2
          /\ UNCHANGED running
    /\ UNCHANGED <<bufferVars, staticVars, straggling, held, stop, backoff, final, noticed, late>>

(* --once: the sleep is over, and what the file collector still debounces  *)
(* is released.  The sleep does not look at the stop event.                *)
CollectedOnce ==
    /\ main = "collecting"
    /\ main' = "once"
    /\ StopFile
    /\ UNCHANGED <<staticVars, running, straggling, stop, backoff, code, final, noticed, late>>

(* _stop.wait timed out.  A signal that comes now is seen at the next wait,*)
(* after one more flush.                                                   *)
TimerFires ==
    /\ main = "waiting"
    /\ ~stop
    /\ main' = "due"
    /\ UNCHANGED <<bufferVars, staticVars, threadVars, stop, backoff, code, final, noticed, late>>

(* flush_once drains and sends; with nothing to send it returns.           *)
Flush ==
    /\ main \in {"due", "once"}
    /\ Drain
    /\ main' = IF main = "once" THEN "sending once" ELSE "sending"
    /\ UNCHANGED <<staticVars, threadVars, stop, backoff, code, final, noticed, late>>

FlushNothing ==
    /\ main \in {"due", "once"}
    /\ items = <<>>
    /\ backoff' = 0
    /\ main' = AfterFlush
    /\ UNCHANGED <<bufferVars, staticVars, threadVars, stop, code, final, noticed, late>>

(* _apply_policy runs on every answer: the server always sends a policy.   *)
(* Both branches read self.usb.running, which no collector class defines,  *)
(* so the AttributeError escapes flush_once and run.                       *)
PolicyRaises == "usb" \in configured \cap available

SendSucceeds ==
    /\ main \in {"sending", "sending once"}
    /\ Settle
    /\ IF PolicyRaises
       THEN main' = "crashed" /\ UNCHANGED backoff
       ELSE main' = AfterFlush /\ backoff' = 0
    /\ UNCHANGED <<staticVars, threadVars, stop, code, final, noticed, late>>

(* run waits longer and tries again; --once shuts down and returns 1.      *)
SendFails ==
    /\ main \in {"sending", "sending once"}
    /\ GiveBack
    /\ IF mode = "run" THEN backoff' = NextBackoff /\ UNCHANGED code
                       ELSE code' = 1 /\ UNCHANGED backoff
    /\ main' = AfterFlush
    /\ UNCHANGED <<staticVars, threadVars, stop, final, noticed, late>>

BeginShutdown ==
    /\ main = "waiting"
    /\ WakesOnStop
    /\ main' = "stopping"
    /\ UNCHANGED <<bufferVars, staticVars, threadVars, stop, backoff, code, final, noticed, late>>

(* A stop that raises is logged and the next collector is stopped; what    *)
(* matters here, that its thread no longer collects, is the same.          *)
StopCollector(c) ==
    /\ main = "stopping"
    /\ NextToStop(c)
    /\ running' = running \ {c}
    /\ IF c = "file"
       THEN StopFile /\ UNCHANGED straggling
       ELSE /\ straggling' \in {straggling, straggling \cup {c}}
            /\ UNCHANGED <<bufferVars, held>>
    /\ UNCHANGED <<staticVars, main, stop, backoff, code, final, noticed, late>>

FinalFlush ==
    /\ CollectorsStopped
    /\ Drain
    /\ main' = "final"
    /\ final' = [outcome |-> "sent", batch |-> Len(inFlight')]
    /\ UNCHANGED <<staticVars, threadVars, stop, backoff, code, noticed, late>>

FinalNothing ==
    /\ CollectorsStopped
    /\ items = <<>>
    /\ main' = "exited"
    /\ UNCHANGED <<bufferVars, staticVars, threadVars, stop, backoff, code, final, noticed, late>>

FinalSucceeds ==
    /\ main = "final"
    /\ Settle
    /\ main' = IF PolicyRaises THEN "crashed" ELSE "exited"
    /\ final' = [final EXCEPT !.outcome = "ok"]
    /\ UNCHANGED <<staticVars, threadVars, stop, backoff, code, noticed, late>>

FinalFails ==
    /\ main = "final"
    /\ GiveBack
    /\ main' = "exited"
    /\ final' = [final EXCEPT !.outcome = "failed"]
    /\ UNCHANGED <<staticVars, threadVars, stop, backoff, code, noticed, late>>

-----------------------------------------------------------------------------
Threads == \/ \E c \in Collectors : Emit(c) \/ Straggle(c)
           \/ Notice
           \/ Debounced

Main == \/ Refuse \/ Connect \/ CollectedOnce
        \/ TimerFires \/ Flush \/ FlushNothing \/ SendSucceeds \/ SendFails
        \/ BeginShutdown
        \/ \E c \in Collectors : StopCollector(c)
        \/ FinalFlush \/ FinalNothing \/ FinalSucceeds \/ FinalFails

Next == Interrupt \/ Threads \/ Main

Spec == Init /\ [][Next]_vars

(* Every wait of the main thread ends: the timer's by its interval, a      *)
(* request's by request_timeout_s, a join's by its own timeout.            *)
FairSpec == Spec /\ WF_vars(Main)

-----------------------------------------------------------------------------
TypeOK ==
    /\ BufferTypeOK
    /\ configured \subseteq Collectors
    /\ available \subseteq Collectors
    /\ running \subseteq configured \cap available
    /\ straggling \subseteq {"usb", "logon"}
    /\ held \in 0 .. MaxEvents
    /\ main \in {"start", "waiting", "due", "sending", "collecting", "once", "sending once",
                "stopping", "final", "exited", "crashed"}
    /\ mode \in {"run", "once", "check"}
    /\ stop \in BOOLEAN
    /\ backoff \in 0 .. MaxBackoff
    /\ code \in 0 .. 2
    /\ final \in [outcome : {"none", "sent", "ok", "failed"},
                  batch : 0 .. MaxBatch]
    /\ noticed \in 0 .. MaxEvents
    /\ late \subseteq 1 .. MaxEvents

(* "Stop collecting, then make a final attempt to deliver what is buffered"*)
(* (main.py:110): the final batch is drained after every collector stopped *)
(* and the debounced writes were released, so a successful final flush     *)
(* leaves behind only what a thread that outlived its join emitted, unless *)
(* the batch was full.                                                     *)
FinalFlushCovers ==
    main = "exited" /\ final.outcome = "ok" /\ final.batch < MaxBatch
        => Elems(items) \subseteq late

(* What the collector threads notice reaches the buffer whichever way the  *)
(* process ends in order: every change is in its accounts or still         *)
(* debounced, and once the process has exited none is left in the debounce *)
(* map (file_collector.py:173-184, main.py:109-116).                       *)
NoticedIsAccounted == /\ noticed = accepted + held
                      /\ main = "exited" => held = 0

(* A signal ends the process, however long the backoff has become and      *)
(* whether or not the server ever answers again.                           *)
StopLeadsToExit == stop ~> ~Alive

(* "Connect, collect, and stream until interrupted" (main.py:156): once    *)
(* connected, run goes on until a signal stops it.                         *)
RunsUntilInterrupted ==
    mode = "run" => Alive \/ stop \/ code = 2
=============================================================================
