------------------------------ MODULE Sensors ------------------------------
(***************************************************************************)
(* The collectors that poll (agent/collectors/base.py): removable drives   *)
(* (usb_collector.py) and logon sessions (logon_collector.py), each in a   *)
(* thread that diffs snapshots; and the agent's main thread, which watches *)
(* the file activity of the drives the USB collector knows                 *)
(* (EndpointAgent._sync_removable_watches, FileCollector.watch, unwatch).  *)
(*                                                                         *)
(* The world changes between any two steps.  A drive is named by the root  *)
(* it is mounted at and the volume behind it: a stick can be swapped for   *)
(* another on the same root.  A session's start time is part of its key,   *)
(* so a session that ended never comes back.                               *)
(***************************************************************************)
EXTENDS Naturals, FiniteSets

CONSTANTS Roots,            \* where removable volumes may be mounted
          WatchDirs,        \* those of them the operator put into watch_dirs
          Sessions,         \* logon sessions
          MaxWorldChanges,  \* bound: changes of the world
          MaxErrors         \* bound: snapshots and watches that fail

ASSUME SensorsAssumption == /\ IsFiniteSet(Roots) /\ IsFiniteSet(Sessions)
                            /\ WatchDirs \subseteq Roots
                            /\ MaxWorldChanges \in Nat
                            /\ MaxErrors \in Nat

VARIABLES volume,    \* the volume mounted at each root, 0 if none
          live,      \* sessions in progress
          ended,     \* sessions that are over
          collector, \* the polling collector looked at: "usb" or "logon"
          thread,    \* where its thread is
          previous,  \* the snapshot its thread compares with
          current,   \* the snapshot just taken
          known,     \* _present, _sessions: what the collector shares
          ons, offs, \* history: reports of each key's coming and going
          base,      \* history: the first snapshot, of which nothing is reported
          main,      \* where the main thread is
          toWatch, toUnwatch,   \* what the sync has left to do
          watches,   \* FileCollector._watches: the volume watched at a root
          worldChanges, errors  \* the bounds' counters

worldVars == <<volume, live, ended, worldChanges>>
threadVars == <<collector, thread, previous, current, known, ons, offs, base>>
mainVars == <<main, toWatch, toUnwatch, watches>>
sensorsVars == <<worldVars, threadVars, mainVars, errors>>

Keys == Roots \cup Sessions
NoSnapshot == [taken |-> FALSE, keys |-> {}]
Snapshot(keys) == [taken |-> TRUE, keys |-> keys]
Mounted == {r \in Roots : volume[r] # 0}
Watched == {r \in Roots : watches[r] # 0}

Error == /\ errors < MaxErrors
         /\ errors' = errors + 1

-----------------------------------------------------------------------------
(* Altered forms of the definitions below, to see the properties fail.     *)

ComparesWithFirst(prev, curr) == prev
OnlyAdds(curr) == known \cup curr
UnwatchesNothing == {}

-----------------------------------------------------------------------------
(* scan_removable, snapshot_sessions.                                      *)
Scan == IF collector = "usb" THEN Mounted ELSE live

(* _run: what the next poll compares with.                                 *)
NextPrevious(prev, curr) == curr

(* diff: the shared copy is replaced before anything is reported.          *)
Shared(curr) == curr

Came(prev, curr) == curr.keys \ prev.keys
Gone(prev, curr) == prev.keys \ curr.keys

(* _sync_removable_watches, from the collector's copy and the watch map.   *)
MissingWatches == known \ Watched
SpareWatches == (Watched \ known) \ WatchDirs

SensorsInit ==
    /\ volume \in [Roots -> {0, 1}]
    /\ live \in SUBSET Sessions
    /\ ended = {}
    /\ collector \in {"usb", "logon"}
    /\ thread = "constructed"
    /\ previous = NoSnapshot /\ current = NoSnapshot
    /\ known \in {Scan, {}}             \* {}: the probe raised
    /\ ons = [k \in Keys |-> 0] /\ offs = [k \in Keys |-> 0]
    /\ base = {}
    /\ main = "start"
    /\ toWatch = {} /\ toUnwatch = {}
    /\ watches = [r \in Roots |-> 0]
    /\ worldChanges = 0 /\ errors = 0

-----------------------------------------------------------------------------
(* The world.                                                              *)

Change == /\ worldChanges < MaxWorldChanges
          /\ worldChanges' = worldChanges + 1
          /\ UNCHANGED <<threadVars, mainVars, errors>>

Plug(r) == /\ Change
           /\ collector = "usb"
           /\ volume[r] = 0
           /\ volume' = [volume EXCEPT ![r] = worldChanges + 2]
           /\ UNCHANGED <<live, ended>>

Unplug(r) == /\ Change
             /\ collector = "usb"
             /\ volume[r] # 0
             /\ volume' = [volume EXCEPT ![r] = 0]
             /\ UNCHANGED <<live, ended>>

LogOn(s) == /\ Change
            /\ collector = "logon"
            /\ s \notin live \cup ended
            /\ live' = live \cup {s}
            /\ UNCHANGED <<volume, ended>>

LogOff(s) == /\ Change
             /\ collector = "logon"
             /\ s \in live
             /\ live' = live \ {s}
             /\ ended' = ended \cup {s}
             /\ UNCHANGED volume

-----------------------------------------------------------------------------
(* The polling thread.                                                     *)

(* _run's first snapshot; a failing one leaves nothing to compare with.    *)
FirstSnapshot ==
    /\ thread = "started"
    /\ thread' = "waiting"
    /\ \/ /\ previous' = Snapshot(Scan)
          /\ base' = Scan
          /\ UNCHANGED errors
       \/ Error /\ UNCHANGED <<previous, base>>
    /\ UNCHANGED <<worldVars, collector, current, known, ons, offs, mainVars>>

(* The next snapshot; when it fails the old one is kept.                   *)
Poll ==
    /\ thread = "waiting"
    /\ \/ /\ current' = Snapshot(Scan)
          /\ thread' = "diffing"
          /\ UNCHANGED errors
       \/ Error /\ UNCHANGED <<current, thread>>
    /\ UNCHANGED <<worldVars, collector, previous, known, ons, offs, base, mainVars>>

(* The first snapshot ever is not compared with anything.                  *)
Baseline ==
    /\ thread = "diffing"
    /\ ~previous.taken
    /\ previous' = current
    /\ base' = current.keys
    /\ thread' = "waiting"
    /\ UNCHANGED <<worldVars, collector, current, known, ons, offs, mainVars, errors>>

Same ==
    /\ thread = "diffing"
    /\ previous = current
    /\ thread' = "waiting"
    /\ UNCHANGED <<worldVars, collector, previous, current, known, ons, offs, base, mainVars, errors>>

(* diff emits a Connect or Logon for each key that came and a Disconnect or*)
(* Logoff for each one gone.                                               *)
Diff ==
    /\ thread = "diffing"
    /\ previous.taken /\ previous # current
    /\ known' = Shared(current.keys)
    /\ ons' = [k \in Keys |-> ons[k] + (IF k \in Came(previous, current) THEN 1 ELSE 0)]
    /\ offs' = [k \in Keys |-> offs[k] + (IF k \in Gone(previous, current) THEN 1 ELSE 0)]
    /\ previous' = NextPrevious(previous, current)
    /\ thread' = "waiting"
    /\ UNCHANGED <<worldVars, collector, current, base, mainVars, errors>>

-----------------------------------------------------------------------------
(* The main thread.                                                        *)

(* start_collectors: the file collector first; it watches the configured   *)
(* directories that are there.                                             *)
StartCollectors ==
    /\ main = "start"
    /\ main' = "loop"
    /\ watches' = [r \in Roots |-> IF r \in WatchDirs THEN volume[r] ELSE 0]
    /\ thread' = "started"
    /\ UNCHANGED <<worldVars, collector, previous, current, known, ons, offs, base,
                   toWatch, toUnwatch, errors>>

SyncBegins ==
    /\ main = "loop"
    /\ collector = "usb"
    /\ toWatch' = MissingWatches
    /\ toUnwatch' = SpareWatches
    /\ main' = IF toWatch' \cup toUnwatch' = {} THEN "loop" ELSE "sync"
    /\ UNCHANGED <<worldVars, threadVars, watches, errors>>

SyncGoesOn == main' = IF toWatch' \cup toUnwatch' = {} THEN "loop" ELSE "sync"

(* watch: a root that is no directory any more is skipped, and so is one   *)
(* whose schedule raises.                                                  *)
Watch(r) ==
    /\ main = "sync"
    /\ r \in toWatch
    /\ toWatch' = toWatch \ {r}
    /\ \/ watches' = [watches EXCEPT ![r] = volume[r]] /\ UNCHANGED errors
       \/ Error /\ UNCHANGED watches
    /\ UNCHANGED toUnwatch
    /\ SyncGoesOn
    /\ UNCHANGED <<worldVars, threadVars>>

Unwatch(r) ==
    /\ main = "sync"
    /\ toWatch = {}
    /\ r \in toUnwatch
    /\ toUnwatch' = toUnwatch \ {r}
    /\ watches' = [watches EXCEPT ![r] = 0]
    /\ UNCHANGED toWatch
    /\ SyncGoesOn
    /\ UNCHANGED <<worldVars, threadVars, errors>>

-----------------------------------------------------------------------------
World == \/ \E r \in Roots : Plug(r) \/ Unplug(r)
         \/ \E s \in Sessions : LogOn(s) \/ LogOff(s)

Thread == FirstSnapshot \/ Poll \/ Baseline \/ Same \/ Diff

Main == \/ StartCollectors
        \/ SyncBegins
        \/ \E r \in Roots : Watch(r) \/ Unwatch(r)

SensorsNext == World \/ Thread \/ Main

SensorsSpec == SensorsInit /\ [][SensorsNext]_sensorsVars

(* The poll interval and the flush interval pass; errors are bounded.      *)
FairSpec == SensorsSpec /\ WF_sensorsVars(Thread) /\ WF_sensorsVars(Main)

-----------------------------------------------------------------------------
SensorsTypeOK ==
    /\ volume \in [Roots -> 0 .. MaxWorldChanges + 1]
    /\ live \subseteq Sessions /\ ended \subseteq Sessions
    /\ thread \in {"constructed", "started", "waiting", "diffing"}
    /\ known \subseteq Keys
    /\ watches \in [Roots -> 0 .. MaxWorldChanges + 1]
    /\ toWatch \subseteq Roots /\ toUnwatch \subseteq Roots

Reports(k) == ons[k] + offs[k]

(* The reports add up: whatever snapshots failed in between, the first one *)
(* and the reported comings and goings give the snapshot compared last, so *)
(* Connect and Disconnect of a drive, or Logon and Logoff, alternate       *)
(* (base.py:135-153).                                                      *)
ReportsAddUp ==
    previous.taken =>
        \A k \in Keys :
            (IF k \in base THEN 1 ELSE 0) + ons[k]
                = (IF k \in previous.keys THEN 1 ELSE 0) + offs[k]

(* "Uses the live snapshot" (usb_collector.py:126): what the file collector*)
(* takes for removable is the snapshot the reports add up to, as soon as   *)
(* anything was reported.  Before, it is what the constructor saw: a drive *)
(* plugged in before the thread's first snapshot stays unknown.            *)
KnownIsLive ==
    (\E k \in Keys : Reports(k) > 0) => known = previous.keys

(* "Watch removable volumes for file activity while they are plugged in"   *)
(* (main.py:194): a drive that is known and stays is watched in the end,   *)
(* and a watch the operator did not ask for ends when its drive is gone    *)
(* from the collector's knowledge.  The code cannot tell that a volume was *)
(* swapped on its root, so this does not say which volume is watched.      *)
WatchesFollowDrives ==
    \A r \in Roots :
        /\ (r \in known /\ r \in Mounted /\ main # "start")
               ~> (r \in Watched \/ r \notin known \/ r \notin Mounted)
        /\ (r \in Watched \ WatchDirs /\ r \notin known)
               ~> (r \notin Watched \/ r \in known)
=============================================================================
