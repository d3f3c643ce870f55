--------------------------- MODULE FileCollector ---------------------------
(***************************************************************************)
(* The file collector's debouncing (agent/collectors/file_collector.py):   *)
(* the watchdog observer's thread handles notifications and puts writes in *)
(* _pending; the flusher's thread, and at the end the thread that stops    *)
(* the collector, take what is ready under the lock and report it after    *)
(* releasing it.  All three report into the agent's buffer.                *)
(*                                                                         *)
(* Time is counted in ticks up to the debounce interval; watchdog and the  *)
(* file system are modelled from how this code uses them: notifications    *)
(* come in order, some time after the change.                              *)
(***************************************************************************)
EXTENDS Naturals, Sequences, FiniteSets

CONSTANTS Paths,
          Excluded,     \* the paths exclude_patterns match
          Debounce,     \* debounce_s in ticks, above 0
          MaxChanges    \* bound: changes to the file system

ASSUME CollectorAssumption == /\ IsFiniteSet(Paths)
                              /\ Excluded \subseteq Paths
                              /\ Debounce \in Nat \ {0}
                              /\ MaxChanges \in Nat

Flushers == {"flusher", "stopper"}

VARIABLES size,       \* what file_size would answer; 0 for a missing file
          changes,    \* changes so far; the number of the last one
          notices,    \* the observer's queue
          observer,   \* the delete or move the observer is about to report
          pending,    \* _pending, per path: {} or one entry
          ready,      \* what each flushing thread took and has to report
          emitted,    \* the events reported, in order
          phase,      \* where stop is
          discarded,  \* history: writes a delete or move ended
          skipped     \* history: changes not looked at

vars == <<size, changes, notices, observer, pending, ready, emitted, phase, discarded, skipped>>

(* An entry's "writes" are the changes it stands for: hits is their number.*)
(* Its age counts from the first of them (first_seen).                     *)
Entries == [path : Paths, action : {"create", "modify"},
            writes : SUBSET (1 .. MaxChanges),
            age : 0 .. Debounce]
Ends == [action : {"delete", "move"}, path : Paths, src : Paths,
         change : 1 .. MaxChanges]
Notices == [action : {"create", "modify", "delete", "move"}, path : Paths, src : Paths,
            change : 1 .. MaxChanges]
Idle == [action |-> "none"]

MaxOf(S) == CHOOSE m \in S : \A x \in S : x <= m

-----------------------------------------------------------------------------
(* Altered forms of the definitions below, to see the properties fail.     *)

DestOnly(n) == {n.path}
HitsRestart(entry, change) == {change}
FlushFirst(p) == CASE p = "stopping" -> "drained"
                   [] p = "drained" -> "joined"
                   [] p = "joined" -> "stopped"

-----------------------------------------------------------------------------
WriteActions == {"create", "modify"}

(* A further write on a pending path; the first action stays.              *)
CombinedWrites(entry, change) == entry.writes \cup {change}

(* The paths whose pending write a delete or move discards.                *)
Ended(n) == IF n.action = "move" THEN {n.path, n.src} ELSE {n.path}

(* The steps of stop: the flusher is joined, then the observer, then the   *)
(* remaining writes are taken.                                             *)
AfterStop(p) == CASE p = "stopping" -> "joined"
                  [] p = "joined" -> "drained"
                  [] p = "drained" -> "stopped"

Init == /\ size = [p \in Paths |-> 0]
        /\ changes = 0
        /\ notices = <<>>
        /\ observer = Idle
        /\ pending = [p \in Paths |-> {}]
        /\ ready = [f \in Flushers |-> {}]
        /\ emitted = <<>>
        /\ phase = "running"
        /\ discarded = {}
        /\ skipped = {}

-----------------------------------------------------------------------------
(* The file system, and the notifications it sends.                        *)

Notify(n) == /\ changes < MaxChanges
             /\ changes' = changes + 1
             /\ notices' = Append(notices, n)
             /\ UNCHANGED <<observer, pending, ready, emitted, phase, discarded, skipped>>

Notice(action, path, src) ==
    [action |-> action, path |-> path, src |-> src, change |-> changes + 1]

Write(p) == /\ size' = [size EXCEPT ![p] = @ + 1]
            /\ Notify(Notice(IF size[p] = 0 THEN "create" ELSE "modify", p, p))

Delete(p) == /\ size[p] > 0
             /\ size' = [size EXCEPT ![p] = 0]
             /\ Notify(Notice("delete", p, p))

Move(p, q) == /\ size[p] > 0
              /\ p # q
              /\ size' = [size EXCEPT ![p] = 0, ![q] = size[p]]
              /\ Notify(Notice("move", q, p))

Older(age) == IF age < Debounce THEN age + 1 ELSE age

Tick == /\ \E p \in Paths : \E e \in pending[p] : e.age < Debounce
        /\ pending' = [p \in Paths |-> {[e EXCEPT !.age = Older(@)] : e \in pending[p]}]
        /\ UNCHANGED <<size, changes, notices, observer, ready, emitted, phase, discarded, skipped>>

-----------------------------------------------------------------------------
(* handle, on the observer's thread.                                       *)
Observing == /\ phase \in {"running", "stopping", "joined"}
             /\ observer = Idle
             /\ notices # <<>>
             /\ notices' = Tail(notices)

(* A move is judged by where it goes: one onto an excluded path leaves     *)
(* what is pending for its source alone.                                   *)
Skip == /\ Observing
        /\ Head(notices).path \in Excluded
        /\ skipped' = skipped \cup {Head(notices).change}
        /\ UNCHANGED <<size, changes, observer, pending, ready, emitted, phase, discarded>>

HandleWrite ==
    /\ Observing
    /\ LET n == Head(notices)
           p == n.path
       IN /\ p \notin Excluded
          /\ n.action \in WriteActions
          /\ pending' = [pending EXCEPT ![p] =
                 IF @ = {}
                 THEN {[path |-> p, action |-> n.action, writes |-> {n.change}, age |-> 0]}
                 ELSE {[e EXCEPT !.writes = CombinedWrites(e, n.change)] : e \in @}]
    /\ UNCHANGED <<size, changes, observer, ready, emitted, phase, discarded, skipped>>

(* Under the lock the pending writes go; the report follows without it.    *)
HandleEnd ==
    /\ Observing
    /\ LET n == Head(notices)
       IN /\ n.path \notin Excluded
          /\ n.action \notin WriteActions
          /\ observer' = n
          /\ pending' = [p \in Paths |-> IF p \in Ended(n) THEN {} ELSE pending[p]]
          /\ discarded' = discarded \cup
                 UNION {e.writes : e \in UNION {pending[p] : p \in Ended(n)}}
    /\ UNCHANGED <<size, changes, ready, emitted, phase, skipped>>

ReportEnd ==
    /\ observer # Idle
    /\ emitted' = Append(emitted, [action |-> observer.action, path |-> observer.path,
                                   size |-> size[observer.path], writes |-> {},
                                   src |-> observer.src, change |-> observer.change])
    /\ observer' = Idle
    /\ UNCHANGED <<size, changes, notices, pending, ready, phase, discarded, skipped>>

-----------------------------------------------------------------------------
(* flush_pending(force), up to the release of the lock.                    *)
Take(f, taken) ==
    /\ ready' = [ready EXCEPT ![f] = @ \cup taken]
    /\ pending' = [p \in Paths |-> pending[p] \ taken]

(* The flusher's loop; stop may come while it is on its way to the lock.   *)
FlusherTakes ==
    /\ phase \in {"running", "stopping"}
    /\ ready["flusher"] = {}
    /\ LET due == {e \in UNION {pending[p] : p \in Paths} : e.age >= Debounce}
       IN due # {} /\ Take("flusher", due)
    /\ UNCHANGED <<size, changes, notices, observer, emitted, phase, discarded, skipped>>

(* After the release: the size is read now.                                *)
Report(f) ==
    /\ \E e \in ready[f] :
           /\ emitted' = Append(emitted, [action |-> e.action, path |-> e.path,
                                          size |-> size[e.path], writes |-> e.writes,
                                          src |-> e.path, change |-> MaxOf(e.writes)])
           /\ ready' = [ready EXCEPT ![f] = @ \ {e}]
    /\ UNCHANGED <<size, changes, notices, observer, pending, phase, discarded, skipped>>

-----------------------------------------------------------------------------
(* stop.                                                                   *)
BeginStop == /\ phase = "running"
             /\ phase' = "stopping"
             /\ UNCHANGED <<size, changes, notices, observer, pending, ready,
                            emitted, discarded, skipped>>

(* join(2 s): the flusher ends after what it has taken, or is left behind. *)
JoinFlusher == /\ phase = "stopping"
               /\ phase' = AfterStop(phase)
               /\ UNCHANGED <<size, changes, notices, observer, pending, ready,
                              emitted, discarded, skipped>>

(* join(5 s): the observer ends between two notifications; those still     *)
(* queued are never handled.                                               *)
JoinObserver == /\ phase = "joined"
                /\ observer = Idle
                /\ phase' = AfterStop(phase)
                /\ UNCHANGED <<size, changes, notices, observer, pending, ready,
                               emitted, discarded, skipped>>

StopperTakes == /\ phase = "drained"
                /\ phase' = AfterStop(phase)
                /\ Take("stopper", UNION {pending[p] : p \in Paths})
                /\ UNCHANGED <<size, changes, notices, observer, emitted, discarded, skipped>>

Next == \/ \E p \in Paths : Write(p) \/ Delete(p)
        \/ \E p, q \in Paths : Move(p, q)
        \/ Tick
        \/ Skip \/ HandleWrite \/ HandleEnd \/ ReportEnd
        \/ FlusherTakes
        \/ \E f \in Flushers : Report(f)
        \/ BeginStop \/ JoinFlusher \/ JoinObserver \/ StopperTakes

Spec == Init /\ [][Next]_vars

-----------------------------------------------------------------------------
IsEnd(e) == e.action \in {"delete", "move"}
Waiting == UNION {pending[p] : p \in Paths}
Taken == UNION {ready[f] : f \in Flushers}
Reported == {emitted[i] : i \in DOMAIN emitted}

TypeOK ==
    /\ size \in [Paths -> Nat]
    /\ changes \in 0 .. MaxChanges
    /\ notices \in Seq(Notices)
    /\ observer = Idle \/ observer \in Ends
    /\ pending \in [Paths -> SUBSET Entries]
    /\ \A p \in Paths : \A e, f \in pending[p] : e = f
    /\ ready \in [Flushers -> SUBSET Entries]
    /\ \A e \in Reported : e.path \in Paths /\ e.size \in Nat
    /\ phase \in {"running", "stopping", "joined", "drained", "stopped"}
    /\ discarded \subseteq 1 .. MaxChanges
    /\ skipped \subseteq 1 .. MaxChanges

(* Debouncing collapses notifications and never loses one: every change the*)
(* observer was told of is still queued, in hand, pending, taken, reported *)
(* alone or among an event's writes_coalesced, was ended by a delete or a  *)
(* move, or concerned an excluded path.                                    *)
EveryChangeAccounted ==
    1 .. changes = UNION {
        {notices[i].change : i \in DOMAIN notices},
        IF observer = Idle THEN {} ELSE {observer.change},
        UNION {e.writes : e \in Waiting},
        UNION {e.writes : e \in Taken},
        UNION {e.writes : e \in Reported},
        {e.change : e \in {r \in Reported : IsEnd(r)}},
        discarded, skipped}

(* A delete or move "discards any write still pending for it"              *)
(* (file_collector.py:205-208), for the path a file left as well: nothing  *)
(* waits in _pending that is older than a delete or move reported for its  *)
(* path.                                                                   *)
PendingIsLive ==
    \A e \in Waiting, n \in Reported \cup ({observer} \ {Idle}) :
        IsEnd(n) /\ e.path \in {n.path, n.src} => \A w \in e.writes : w > n.change

(* After stop no write is left in _pending: what the observer handled      *)
(* before it ended is taken by the final, forced flush.                    *)
StopLeavesNothing == phase = "stopped" => Waiting = {}

=============================================================================
