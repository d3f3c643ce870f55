-------------------------- MODULE CollectorsProofs --------------------------
(***************************************************************************)
(* The properties of FileCollector and Sensors, proved for every set of    *)
(* paths, roots and sessions, every exclusion and debounce interval, and   *)
(* any number of changes and failures.                                     *)
(*                                                                         *)
(* The arguments.  FileCollector: every handler moves a change from one of *)
(* eight places to another; EveryChangeAccounted is carried by how each    *)
(* place changes in each step.  PendingIsLive is not inductive: that a     *)
(* fresh write is newer than every delete and move before it holds because *)
(* notifications are handled in the order of the changes.  InSequence says *)
(* so: what is still queued is newer than everything handled.              *)
(*                                                                         *)
(* Sensors: that the reports add up is not inductive by itself: the first  *)
(* snapshot, which is reported of nothing, may be taken late, when the     *)
(* earlier ones failed, and then nothing may have been reported yet.       *)
(* Silent says so, and Phases that a thread which has not begun has no     *)
(* snapshot: the constructor's probe is not one.  KnownIsLive needs Silent *)
(* as well, because a late first snapshot does not replace the shared copy.*)
(***************************************************************************)
EXTENDS FileCollector, Sensors, SequenceTheorems, TLAPS

WritesOf(S) == UNION {e.writes : e \in S}
EndsSeen == {n \in Reported \cup ({observer} \ {Idle}) : IsEnd(n)}

InSequence ==
    /\ \A i \in DOMAIN notices : notices[i].change <= changes
    /\ \A i, j \in DOMAIN notices : i < j => notices[i].change < notices[j].change
    /\ \A p \in Paths : \A e \in pending[p] : \A w \in e.writes :
          w <= changes /\ \A i \in DOMAIN notices : w < notices[i].change
    /\ \A n \in EndsSeen : /\ n.change \in 1 .. changes
                           /\ \A i \in DOMAIN notices : n.change < notices[i].change

(* Deletes leave one path; an entry is kept under its own path.            *)
Shape ==
    /\ \A i \in DOMAIN notices : notices[i].action = "delete" => notices[i].src = notices[i].path
    /\ \A p \in Paths : \A e \in pending[p] : e.path = p
    /\ emitted \in Seq(Reported)

-----------------------------------------------------------------------------
(* A sequence over a set is one over every larger set.                     *)
LEMMA SeqMonotone ==
    ASSUME NEW S, NEW T, S \subseteq T, NEW s \in Seq(S)
    PROVE  s \in Seq(T)
<1>1. /\ Len(s) \in Nat
      /\ s \in [1 .. Len(s) -> S]
  OBVIOUS
<1>2. s \in [1 .. Len(s) -> T]
  BY <1>1
<1>3. QED
  BY <1>1, <1>2, SeqDef

(* What entries or reports stand for.                                      *)
LEMMA Writes ==
    ASSUME NEW S
    PROVE  \A c : c \in WritesOf(S) <=> \E e \in S : c \in e.writes
BY DEF WritesOf

LEMMA WritesOne ==
    ASSUME NEW x
    PROVE  WritesOf({x}) = x.writes /\ WritesOf({}) = {}
<1>1. \A c : c \in WritesOf({x}) <=> c \in x.writes
  BY DEF WritesOf
<1>2. WritesOf({x}) = x.writes
  BY <1>1
<1>3. QED
  BY <1>2 DEF WritesOf

LEMMA WritesUnion ==
    ASSUME NEW S, NEW T
    PROVE  WritesOf(S \cup T) = WritesOf(S) \cup WritesOf(T)
<1>1. \A c : c \in WritesOf(S \cup T) <=> c \in WritesOf(S) \cup WritesOf(T)
  BY DEF WritesOf
<1>2. QED
  BY <1>1

(* What the observer takes from its queue, and what stays there.           *)
LEMMA Queue ==
    ASSUME TypeOK, Observing
    PROVE  /\ observer = Idle
           /\ Len(notices) \in Nat \ {0} /\ DOMAIN notices = 1 .. Len(notices)
           /\ Head(notices) = notices[1] /\ Head(notices) \in Notices
           /\ notices' \in Seq(Notices)
           /\ DOMAIN notices' = 1 .. (Len(notices) - 1)
           /\ \A i \in DOMAIN notices' : i + 1 \in DOMAIN notices
                                         /\ notices'[i] = notices[i + 1]
<1>1. notices \in Seq(Notices) /\ notices # <<>> /\ notices' = Tail(notices) /\ observer = Idle
  BY DEF TypeOK, Observing
<1>2. Len(notices) \in Nat \ {0} /\ DOMAIN notices = 1 .. Len(notices)
  BY <1>1
<1>3. Head(notices) = notices[1] /\ Head(notices) \in Notices
  BY <1>1
<1>4. /\ Tail(notices) \in Seq(Notices)
      /\ Len(Tail(notices)) = Len(notices) - 1
      /\ \A i \in 1 .. (Len(notices) - 1) : Tail(notices)[i] = notices[i + 1]
  BY <1>1, HeadTailProperties
<1>5. DOMAIN notices' = 1 .. (Len(notices) - 1)
  BY <1>1, <1>2, <1>4
<1>6. QED
  BY <1>1, <1>2, <1>3, <1>4, <1>5

(* A change is notified with the next number, at the end of the queue.     *)
LEMMA Notified ==
    ASSUME TypeOK, NEW action \in {"create", "modify", "delete", "move"},
           NEW p \in Paths, NEW q \in Paths, Notify(Notice(action, p, q))
    PROVE  /\ changes \in Nat /\ changes' = changes + 1 /\ changes' \in 1 .. MaxChanges
           /\ Len(notices) \in Nat
           /\ DOMAIN notices = 1 .. Len(notices) /\ DOMAIN notices' = 1 .. (Len(notices) + 1)
           /\ notices' \in Seq(Notices)
           /\ \A i \in 1 .. Len(notices) : notices'[i] = notices[i]
           /\ notices'[Len(notices) + 1] = [action |-> action, path |-> p, src |-> q,
                                            change |-> changes + 1]
<1> DEFINE n == Notice(action, p, q)
<1>1. changes \in Nat /\ changes' = changes + 1 /\ changes' \in 1 .. MaxChanges
  BY CollectorAssumption DEF TypeOK, Notify
<1>2. n \in Notices
  BY <1>1 DEF Notice, Notices
<1>3. notices \in Seq(Notices) /\ notices' = Append(notices, n)
  BY DEF TypeOK, Notify
<1> HIDE DEF n
<1>4. /\ Len(notices) \in Nat /\ DOMAIN notices = 1 .. Len(notices)
      /\ notices' \in Seq(Notices) /\ DOMAIN notices' = 1 .. (Len(notices) + 1)
      /\ \A i \in 1 .. Len(notices) : notices'[i] = notices[i]
      /\ notices'[Len(notices) + 1] = n
  BY <1>2, <1>3, AppendProperties
<1>5. QED
  BY <1>1, <1>4 DEF n, Notice

(* A report is added to those there are.                                   *)
LEMMA Added ==
    ASSUME Shape, NEW r, emitted' = Append(emitted, r)
    PROVE  Reported' = Reported \cup {r} /\ emitted' \in Seq(Reported')
<1>1. emitted \in Seq(Reported \cup {r})
  BY SeqMonotone DEF Shape
<1>2. /\ Len(emitted) \in Nat /\ DOMAIN emitted = 1 .. Len(emitted)
      /\ emitted' \in Seq(Reported \cup {r})
      /\ DOMAIN emitted' = 1 .. (Len(emitted) + 1)
      /\ \A i \in 1 .. Len(emitted) : emitted'[i] = emitted[i]
      /\ emitted'[Len(emitted) + 1] = r
  BY <1>1, AppendProperties
<1>3. 1 .. (Len(emitted) + 1) = (1 .. Len(emitted)) \cup {Len(emitted) + 1}
  BY <1>2
<1>4. Reported' = Reported \cup {r}
  BY <1>2, <1>3 DEF Reported
<1>5. QED
  BY <1>2, <1>4

-----------------------------------------------------------------------------
(* Taking entries out of _pending only moves them.                         *)
LEMMA Taking ==
    ASSUME TypeOK, NEW f \in Flushers, NEW taken \in SUBSET Waiting, Take(f, taken)
    PROVE  /\ ready' \in [Flushers -> SUBSET Entries] /\ pending' \in [Paths -> SUBSET Entries]
           /\ \A p \in Paths : pending'[p] = pending[p] \ taken
           /\ Waiting' = Waiting \ taken
           /\ Taken' = Taken \cup taken
<1>1. /\ pending \in [Paths -> SUBSET Entries] /\ ready \in [Flushers -> SUBSET Entries]
      /\ pending' = [p \in Paths |-> pending[p] \ taken]
      /\ ready' = [ready EXCEPT ![f] = @ \cup taken]
  BY DEF TypeOK, Take
<1>2. Waiting \subseteq Entries
  BY <1>1 DEF Waiting
<1>3. ready' \in [Flushers -> SUBSET Entries] /\ pending' \in [Paths -> SUBSET Entries]
  BY <1>1, <1>2
<1>4. Waiting' = Waiting \ taken
  BY <1>1 DEF Waiting
<1>5. Taken' = Taken \cup taken
  BY <1>1 DEF Taken
<1>6. QED
  BY <1>1, <1>3, <1>4, <1>5

(* A combined entry is one entry again, of the same path.                  *)
LEMMA Combining ==
    ASSUME TypeOK, Shape, HandleWrite
    PROVE  LET n == Head(notices) IN
           /\ n \in Notices /\ n.path \notin Excluded /\ n.action \in WriteActions
           /\ pending' \in [Paths -> SUBSET Entries]
           /\ \A p \in Paths \ {n.path} : pending'[p] = pending[p]
           /\ \A e, f \in pending'[n.path] : e = f
           /\ \A e \in pending'[n.path] : e.path = n.path
           /\ WritesOf(pending'[n.path]) = WritesOf(pending[n.path]) \cup {n.change}
<1> DEFINE n == Head(notices)
           p == n.path
           fresh == [path |-> p, action |-> n.action, writes |-> {n.change}, age |-> 0]
           Joined(e) == [e EXCEPT !.writes = CombinedWrites(e, n.change)]
<1>1. Observing /\ n.path \notin Excluded /\ n.action \in WriteActions
  BY DEF HandleWrite
<1>2. n \in Notices
  BY <1>1, Queue
<1>3. p \in Paths /\ n.change \in 1 .. MaxChanges
  BY <1>2 DEF Notices
<1>4. /\ pending \in [Paths -> SUBSET Entries]
      /\ pending' = [pending EXCEPT ![p] = IF @ = {} THEN {fresh} ELSE {Joined(e) : e \in @}]
      /\ \A e, f \in pending[p] : e = f
      /\ \A e \in pending[p] : e.path = p
  BY <1>3 DEF HandleWrite, TypeOK, Shape
<1>5. fresh \in Entries /\ fresh.path = p /\ fresh.writes = {n.change}
  <2>1. 0 \in 0 .. Debounce
    BY CollectorAssumption
  <2>2. QED
    BY <1>1, <1>3, <2>1 DEF Entries, WriteActions
<1>6. ASSUME NEW e \in Entries
      PROVE  /\ Joined(e) \in Entries /\ Joined(e).path = e.path
             /\ Joined(e).writes = e.writes \cup {n.change}
  BY <1>3 DEF Entries, CombinedWrites
<1> HIDE DEF fresh, Joined, n
<1>7. \A q \in Paths \ {p} : pending'[q] = pending[q]
  BY <1>4
<1>8. CASE pending[p] = {}
  <2>1. pending'[p] = {fresh}
    BY <1>3, <1>4, <1>8
  <2>2. pending' \in [Paths -> SUBSET Entries]
    BY <1>4, <1>5, <1>8
  <2>3. WritesOf(pending'[p]) = WritesOf(pending[p]) \cup {n.change}
    BY <1>5, <1>8, <2>1, WritesOne
  <2>4. (\A e, f \in pending'[p] : e = f) /\ \A e \in pending'[p] : e.path = p
    BY <1>5, <2>1
  <2>5. QED
    BY <1>1, <1>2, <1>7, <2>2, <2>3, <2>4 DEF n
<1>9. CASE pending[p] # {}
  <2>1. PICK e \in pending[p] : pending[p] = {e}
    BY <1>4, <1>9
  <2>2. e \in Entries /\ e.path = p
    BY <1>3, <1>4, <2>1
  <2>3. pending'[p] = {Joined(e)}
    BY <1>3, <1>4, <1>9, <2>1
  <2>4. pending' \in [Paths -> SUBSET Entries]
    <3>1. pending'[p] \in SUBSET Entries
      BY <1>6, <2>2, <2>3
    <3>2. pending' = [pending EXCEPT ![p] = pending'[p]]
      BY <1>3, <1>4, <2>3
    <3>3. QED
      BY <1>4, <3>1, <3>2
  <2>5. Joined(e).path = p /\ Joined(e).writes = e.writes \cup {n.change}
    BY <1>6, <2>2
  <2>6. WritesOf(pending'[p]) = WritesOf(pending[p]) \cup {n.change}
    BY <2>1, <2>3, <2>5, WritesOne
  <2>7. (\A d, f \in pending'[p] : d = f) /\ \A d \in pending'[p] : d.path = p
    BY <2>3, <2>5
  <2>8. QED
    BY <1>1, <1>2, <1>7, <2>4, <2>6, <2>7 DEF n
<1>10. QED
  BY <1>8, <1>9

(* A delete or move empties the paths it ended, and leaves the others.     *)
LEMMA Ending ==
    ASSUME TypeOK, HandleEnd
    PROVE  LET n == Head(notices) IN
           /\ n \in Ends /\ n.path \notin Excluded
           /\ observer = Idle /\ observer' = n /\ n # Idle
           /\ pending' \in [Paths -> SUBSET Entries]
           /\ \A p \in Ended(n) \cap Paths : pending'[p] = {}
           /\ \A p \in Paths \ Ended(n) : pending'[p] = pending[p]
           /\ Ended(n) \subseteq Paths
<1> DEFINE n == Head(notices)
<1>1. Observing /\ n.path \notin Excluded /\ n.action \notin WriteActions /\ observer' = n
  BY DEF HandleEnd
<1>2. n \in Notices /\ observer = Idle
  BY <1>1, Queue
<1>3. n \in Ends
  BY <1>1, <1>2 DEF Notices, Ends, WriteActions
<1>4. n # Idle
  BY <1>3 DEF Ends, Idle
<1>5. Ended(n) \subseteq Paths
  BY <1>2 DEF Ended, Notices
<1>6. /\ pending \in [Paths -> SUBSET Entries]
      /\ pending' = [p \in Paths |-> IF p \in Ended(n) THEN {} ELSE pending[p]]
  BY DEF HandleEnd, TypeOK
<1>7. QED
  BY <1>1, <1>2, <1>3, <1>4, <1>5, <1>6

(* Time passes: the entries grow older and keep what they stand for.       *)
LEMMA Ticking ==
    ASSUME TypeOK, Tick
    PROVE  /\ pending' \in [Paths -> SUBSET Entries]
           /\ \A p \in Paths :
                 /\ \A e, f \in pending'[p] : e = f
                 /\ \A e \in pending'[p] : \E d \in pending[p] : e.path = d.path /\ e.writes = d.writes
                 /\ \A d \in pending[p] : \E e \in pending'[p] : e.path = d.path /\ e.writes = d.writes
<1> DEFINE Aged(e) == [e EXCEPT !.age = Older(@)]
<1>1. /\ pending \in [Paths -> SUBSET Entries]
      /\ pending' = [p \in Paths |-> {Aged(e) : e \in pending[p]}]
      /\ \A p \in Paths : \A e, f \in pending[p] : e = f
  BY DEF Tick, TypeOK
<1>2. ASSUME NEW e \in Entries
      PROVE  Aged(e) \in Entries /\ Aged(e).path = e.path /\ Aged(e).writes = e.writes
  <2>1. Older(e.age) \in 0 .. Debounce
    BY CollectorAssumption DEF Entries, Older
  <2>2. QED
    BY <2>1 DEF Entries
<1> HIDE DEF Aged
<1>3. pending' \in [Paths -> SUBSET Entries]
  BY <1>1, <1>2
<1>4. QED
  BY <1>1, <1>2, <1>3

-----------------------------------------------------------------------------
(* A change of the file system, whichever it is, is a notification; a      *)
(* delete's names one path.                                                *)
LEMMA Changing ==
    ASSUME TypeOK, NEW p \in Paths, NEW q \in Paths, Write(p) \/ Delete(p) \/ Move(p, q)
    PROVE  /\ size' \in [Paths -> Nat]
           /\ \E action \in {"create", "modify", "delete", "move"}, from \in Paths, to \in Paths :
                 /\ Notify(Notice(action, to, from))
                 /\ action = "delete" => from = to
<1>1. size \in [Paths -> Nat]
  BY DEF TypeOK
<1>2. CASE Write(p)
  <2>1. size' \in [Paths -> Nat]
    BY <1>1, <1>2 DEF Write
  <2>2. QED
    BY <1>2, <2>1 DEF Write
<1>3. CASE Delete(p)
  <2>1. size' \in [Paths -> Nat]
    BY <1>1, <1>3 DEF Delete
  <2>2. QED
    BY <1>3, <2>1 DEF Delete
<1>4. CASE Move(p, q)
  <2>1. size' \in [Paths -> Nat]
    BY <1>1, <1>4 DEF Move
  <2>2. QED
    BY <1>4, <2>1 DEF Move
<1>5. QED
  BY <1>2, <1>3, <1>4

(* Next, with the three kinds of change taken together.                    *)
LEMMA Steps ==
    ASSUME [Next]_vars
    PROVE  \/ \E p, q \in Paths : Write(p) \/ Delete(p) \/ Move(p, q)
           \/ Tick
           \/ Skip \/ HandleWrite \/ HandleEnd \/ ReportEnd
           \/ FlusherTakes \/ StopperTakes
           \/ \E f \in Flushers : Report(f)
           \/ BeginStop \/ JoinFlusher \/ JoinObserver
           \/ UNCHANGED vars
BY DEF Next

(* The steps that take entries, with what they take.                       *)
LEMMA TakeSteps ==
    ASSUME FlusherTakes \/ StopperTakes
    PROVE  \E f \in Flushers, taken \in SUBSET Waiting : Take(f, taken)
<1>1. CASE FlusherTakes
  BY <1>1 DEF FlusherTakes, Flushers, Waiting
<1>2. CASE StopperTakes
  BY <1>2 DEF StopperTakes, Flushers, Waiting
<1>3. QED
  BY <1>1, <1>2

LEMMA ReportTypes ==
    ASSUME TypeOK, Shape, NEW r, r.path \in Paths, r.size \in Nat, emitted' = Append(emitted, r)
    PROVE  \A e \in Reported' : e.path \in Paths /\ e.size \in Nat
BY Added DEF TypeOK

(* Every step keeps the types.                                             *)
LEMMA TypeStep == TypeOK /\ Shape /\ [Next]_vars => TypeOK'
<1> SUFFICES ASSUME TypeOK, Shape, [Next]_vars
             PROVE  TypeOK'
  OBVIOUS
<1>t. /\ size \in [Paths -> Nat] /\ changes \in 0 .. MaxChanges
      /\ notices \in Seq(Notices) /\ (observer = Idle \/ observer \in Ends)
      /\ pending \in [Paths -> SUBSET Entries]
      /\ \A p \in Paths : \A e, f \in pending[p] : e = f
      /\ ready \in [Flushers -> SUBSET Entries]
      /\ \A e \in Reported : e.path \in Paths /\ e.size \in Nat
      /\ phase \in {"running", "stopping", "joined", "drained", "stopped"}
      /\ discarded \subseteq 1 .. MaxChanges /\ skipped \subseteq 1 .. MaxChanges
  BY DEF TypeOK
<1>w. WritesOf(Waiting) \subseteq 1 .. MaxChanges
  <2> SUFFICES ASSUME NEW e \in Waiting PROVE e.writes \subseteq 1 .. MaxChanges
    BY Writes
  <2>1. e \in Entries
    BY <1>t DEF Waiting
  <2>2. QED
    BY <2>1 DEF Entries
<1>1. ASSUME NEW p \in Paths, NEW q \in Paths, Write(p) \/ Delete(p) \/ Move(p, q)
      PROVE  TypeOK'
  <2>1. PICK action \in {"create", "modify", "delete", "move"}, from \in Paths, to \in Paths :
            Notify(Notice(action, to, from))
    BY <1>1, Changing
  <2>2. size' \in [Paths -> Nat]
    BY <1>1, Changing
  <2>3. notices' \in Seq(Notices) /\ changes' \in 0 .. MaxChanges
    <3>1. notices' \in Seq(Notices) /\ changes' \in 1 .. MaxChanges
      BY <2>1, Notified
    <3>2. QED
      BY <3>1
  <2>4. UNCHANGED <<observer, pending, ready, emitted, phase, discarded, skipped>>
    BY <2>1 DEF Notify
  <2>5. QED
    BY <1>t, <2>2, <2>3, <2>4 DEF TypeOK, Reported
<1>2. CASE Tick
  <2>1. /\ pending' \in [Paths -> SUBSET Entries]
        /\ \A p \in Paths : \A e, f \in pending'[p] : e = f
    BY <1>2, Ticking
  <2>2. QED
    BY <1>2, <1>t, <2>1 DEF Tick, TypeOK, Reported
<1>3. CASE Skip
  <2>1. notices' \in Seq(Notices) /\ Head(notices).change \in 1 .. MaxChanges
    BY <1>3, Queue DEF Skip, Notices
  <2>2. QED
    BY <1>3, <1>t, <2>1 DEF Skip, TypeOK, Reported
<1>4. CASE HandleWrite
  <2>1. notices' \in Seq(Notices)
    BY <1>4, Queue DEF HandleWrite
  <2>2. /\ pending' \in [Paths -> SUBSET Entries]
        /\ \A p \in Paths : \A e, f \in pending'[p] : e = f
    BY <1>4, <1>t, Combining
  <2>3. UNCHANGED <<size, changes, observer, ready, emitted, phase, discarded, skipped>>
    BY <1>4 DEF HandleWrite
  <2>4. QED
    BY <1>t, <2>1, <2>2, <2>3 DEF TypeOK, Reported
<1>5. CASE HandleEnd
  <2>1. notices' \in Seq(Notices)
    BY <1>5, Queue DEF HandleEnd
  <2>2. /\ pending' \in [Paths -> SUBSET Entries]
        /\ \A p \in Paths : \A e, f \in pending'[p] : e = f
        /\ observer' \in Ends
    BY <1>5, <1>t, Ending
  <2>3. discarded' \subseteq 1 .. MaxChanges
    <3> DEFINE n == Head(notices)
    <3>1. discarded' = discarded \cup WritesOf(UNION {pending[p] : p \in Ended(n)})
      BY <1>5 DEF HandleEnd, WritesOf
    <3>2. UNION {pending[p] : p \in Ended(n)} \subseteq Waiting
      BY <1>5, Ending DEF Waiting
    <3>3. QED
      <4>1. WritesOf(UNION {pending[p] : p \in Ended(n)}) \subseteq WritesOf(Waiting)
        BY <3>2 DEF WritesOf
      <4>2. QED
        BY <1>t, <1>w, <3>1, <4>1
  <2>4. QED
    BY <1>5, <1>t, <2>1, <2>2, <2>3 DEF HandleEnd, TypeOK, Reported
<1>6. CASE ReportEnd
  <2>1. observer \in Ends /\ observer.path \in Paths /\ size[observer.path] \in Nat
    BY <1>6, <1>t DEF ReportEnd, Ends
  <2>2. \A e \in Reported' : e.path \in Paths /\ e.size \in Nat
    BY <1>6, <2>1, ReportTypes DEF ReportEnd
  <2>3. QED
    BY <1>6, <1>t, <2>2 DEF ReportEnd, TypeOK
<1>7. CASE FlusherTakes \/ StopperTakes
  <2>1. /\ ready' \in [Flushers -> SUBSET Entries] /\ pending' \in [Paths -> SUBSET Entries]
        /\ \A p \in Paths : pending'[p] \subseteq pending[p]
    BY <1>7, TakeSteps, Taking
  <2>2. phase' \in {"running", "stopping", "joined", "drained", "stopped"}
    BY <1>7, <1>t DEF FlusherTakes, StopperTakes, AfterStop
  <2>3. UNCHANGED <<size, changes, notices, observer, emitted, discarded, skipped>>
    BY <1>7 DEF FlusherTakes, StopperTakes
  <2>4. QED
    BY <1>t, <2>1, <2>2, <2>3 DEF TypeOK, Reported
<1>8. ASSUME NEW f \in Flushers, Report(f)
      PROVE  TypeOK'
  <2>1. PICK e \in ready[f] :
            /\ emitted' = Append(emitted, [action |-> e.action, path |-> e.path,
                                           size |-> size[e.path], writes |-> e.writes,
                                           src |-> e.path, change |-> MaxOf(e.writes)])
            /\ ready' = [ready EXCEPT ![f] = @ \ {e}]
    BY <1>8 DEF Report
  <2>2. e \in Entries /\ e.path \in Paths /\ size[e.path] \in Nat
    BY <1>t DEF Entries
  <2>3. \A r \in Reported' : r.path \in Paths /\ r.size \in Nat
    BY <2>1, <2>2, ReportTypes
  <2>4. ready' \in [Flushers -> SUBSET Entries]
    BY <1>t, <2>1
  <2>5. QED
    BY <1>8, <1>t, <2>3, <2>4 DEF Report, TypeOK
<1>9. CASE BeginStop \/ JoinFlusher \/ JoinObserver
  <2>1. phase' \in {"running", "stopping", "joined", "drained", "stopped"}
    BY <1>9 DEF BeginStop, JoinFlusher, JoinObserver, AfterStop
  <2>2. UNCHANGED <<size, changes, notices, observer, pending, ready, emitted, discarded, skipped>>
    BY <1>9 DEF BeginStop, JoinFlusher, JoinObserver
  <2>3. QED
    BY <1>t, <2>1, <2>2 DEF TypeOK, Reported
<1>10. CASE UNCHANGED vars
  BY <1>10 DEF vars, TypeOK, Reported
<1>11. QED
  BY <1>1, <1>2, <1>3, <1>4, <1>5, <1>6, <1>7, <1>8, <1>9, <1>10, Steps

-----------------------------------------------------------------------------
(* How the observer's queue changes.                                       *)
LEMMA QueueSteps ==
    ASSUME [Next]_vars
    PROVE  \/ UNCHANGED <<notices, changes>>
           \/ Observing /\ UNCHANGED changes
           \/ \E p, q \in Paths : Write(p) \/ Delete(p) \/ Move(p, q)
<1>1. Skip \/ HandleWrite \/ HandleEnd => Observing /\ UNCHANGED changes
  BY DEF Skip, HandleWrite, HandleEnd
<1>2. \/ Tick \/ ReportEnd \/ FlusherTakes \/ StopperTakes
      \/ (\E f \in Flushers : Report(f))
      \/ BeginStop \/ JoinFlusher \/ JoinObserver \/ UNCHANGED vars
      => UNCHANGED <<notices, changes>>
  BY DEF Tick, ReportEnd, FlusherTakes, StopperTakes, Report, BeginStop, JoinFlusher,
         JoinObserver, vars
<1>3. QED
  BY <1>1, <1>2, Steps

(* How what waits in _pending changes.                                     *)
LEMMA PendingKept ==
    ASSUME [Next]_vars
    PROVE  \/ Tick \/ HandleWrite \/ HandleEnd \/ FlusherTakes \/ StopperTakes
           \/ UNCHANGED pending
<1>1. \A q, r \in Paths : Write(q) \/ Delete(q) \/ Move(q, r) => UNCHANGED pending
  BY DEF Write, Delete, Move, Notify
<1>2. \/ Skip \/ ReportEnd \/ (\E f \in Flushers : Report(f))
      \/ BeginStop \/ JoinFlusher \/ JoinObserver \/ UNCHANGED vars
      => UNCHANGED pending
  BY DEF Skip, ReportEnd, Report, BeginStop, JoinFlusher, JoinObserver, vars
<1>3. QED
  BY <1>1, <1>2, Steps

LEMMA PendingSteps ==
    ASSUME TypeOK, Shape, [Next]_vars, NEW p \in Paths, NEW e \in pending'[p]
    PROVE  /\ e.path = p
           /\ \A w \in e.writes :
                 \/ \E d \in pending[p] : w \in d.writes
                 \/ HandleWrite /\ p = Head(notices).path /\ w = Head(notices).change
<1>t. \A d \in pending[p] : d.path = p
  BY DEF Shape
<1>1. CASE HandleWrite
  <2> DEFINE n == Head(notices)
  <2>1. CASE p = n.path
    <3>1. WritesOf(pending'[p]) = WritesOf(pending[p]) \cup {n.change} /\ e.path = p
      BY <1>1, <2>1, Combining
    <3>2. \A w \in e.writes : w \in WritesOf(pending'[p])
      BY Writes
    <3>3. \A w : w \in WritesOf(pending[p]) => \E d \in pending[p] : w \in d.writes
      BY Writes
    <3>4. QED
      BY <1>1, <2>1, <3>1, <3>2, <3>3
  <2>2. CASE p # n.path
    <3>1. pending'[p] = pending[p]
      BY <1>1, <2>2, Combining
    <3>2. QED
      BY <1>t, <3>1
  <2>3. QED
    BY <2>1, <2>2
<1>2. CASE HandleEnd
  <2>1. pending'[p] = {} \/ pending'[p] = pending[p]
    BY <1>2, Ending
  <2>2. QED
    BY <1>t, <2>1
<1>3. CASE Tick
  <2>1. \E d \in pending[p] : e.path = d.path /\ e.writes = d.writes
    BY <1>3, Ticking
  <2>2. QED
    BY <1>t, <2>1
<1>4. CASE FlusherTakes \/ StopperTakes
  <2>1. pending'[p] \subseteq pending[p]
    BY <1>4, TakeSteps, Taking
  <2>2. QED
    BY <1>t, <2>1
<1>5. CASE UNCHANGED pending
  BY <1>t, <1>5
<1>6. QED
  BY <1>1, <1>2, <1>3, <1>4, <1>5, PendingKept

(* A delete or move is seen once it is in the observer's hands; reporting  *)
(* it changes nothing of what was seen.                                    *)
LEMMA EndsSteps ==
    ASSUME TypeOK, Shape, [Next]_vars
    PROVE  /\ emitted' \in Seq(Reported')
           /\ \A n \in EndsSeen' :
                 \/ \E m \in EndsSeen : n.path = m.path /\ n.src = m.src /\ n.change = m.change
                 \/ HandleEnd /\ n = Head(notices)
<1> DEFINE Old(n) == \E m \in EndsSeen : n.path = m.path /\ n.src = m.src /\ n.change = m.change
<1>1. CASE UNCHANGED <<emitted, observer>>
  BY <1>1 DEF Reported, EndsSeen, Shape
<1>2. CASE HandleEnd
  <2>1. UNCHANGED emitted /\ observer' = Head(notices)
    BY <1>2 DEF HandleEnd
  <2>2. Reported' = Reported
    BY <2>1 DEF Reported
  <2>3. QED
    BY <1>2, <2>1, <2>2 DEF EndsSeen, Shape
<1>3. CASE ReportEnd
  <2>1. PICK r : /\ emitted' = Append(emitted, r) /\ observer' = Idle /\ observer # Idle
                 /\ r.action = observer.action /\ r.path = observer.path
                 /\ r.src = observer.src /\ r.change = observer.change
    BY <1>3 DEF ReportEnd
  <2>2. Reported' = Reported \cup {r} /\ emitted' \in Seq(Reported')
    BY <2>1, Added
  <2>3. IsEnd(r) => Old(r)
    BY <2>1 DEF EndsSeen, IsEnd
  <2>4. ASSUME NEW n \in EndsSeen'
        PROVE  n \in EndsSeen \/ (n = r /\ IsEnd(r))
    <3>1. n \in Reported \cup {r} /\ IsEnd(n)
      BY <2>1, <2>2 DEF EndsSeen
    <3>2. QED
      BY <3>1 DEF EndsSeen
  <2>5. QED
    BY <2>2, <2>3, <2>4
<1>4. ASSUME NEW f \in Flushers, Report(f)
      PROVE  emitted' \in Seq(Reported') /\ \A n \in EndsSeen' : Old(n)
  <2>1. PICK e \in ready[f] : \E r : /\ emitted' = Append(emitted, r)
                                     /\ observer' = observer
                                     /\ r.action = e.action
    BY <1>4 DEF Report
  <2>2. PICK r : /\ emitted' = Append(emitted, r) /\ observer' = observer
                 /\ r.action = e.action
    BY <2>1
  <2>3. e \in Entries /\ ~IsEnd(r)
    BY <2>1, <2>2 DEF TypeOK, Entries, IsEnd
  <2>4. Reported' = Reported \cup {r} /\ emitted' \in Seq(Reported')
    BY <2>2, Added
  <2>5. EndsSeen' \subseteq EndsSeen
    BY <2>2, <2>3, <2>4 DEF EndsSeen
  <2>6. QED
    BY <2>4, <2>5
<1>5. /\ \A q, r \in Paths : Write(q) \/ Delete(q) \/ Move(q, r) => UNCHANGED <<emitted, observer>>
      /\ \/ Tick \/ Skip \/ HandleWrite \/ FlusherTakes \/ StopperTakes
         \/ BeginStop \/ JoinFlusher \/ JoinObserver \/ UNCHANGED vars
         => UNCHANGED <<emitted, observer>>
  BY DEF Write, Delete, Move, Notify, Tick, Skip, HandleWrite, FlusherTakes, StopperTakes,
         BeginStop, JoinFlusher, JoinObserver, vars
<1>6. QED
  BY <1>1, <1>2, <1>3, <1>4, <1>5, Steps

LEMMA ShapeStep == TypeOK /\ Shape /\ [Next]_vars => Shape'
<1> SUFFICES ASSUME TypeOK, Shape, [Next]_vars PROVE Shape'
  OBVIOUS
<1>1. \A i \in DOMAIN notices' : notices'[i].action = "delete" => notices'[i].src = notices'[i].path
  <2>1. CASE UNCHANGED notices
    BY <2>1 DEF Shape
  <2>2. CASE Observing
    BY <2>2, Queue DEF Shape
  <2>3. ASSUME NEW p \in Paths, NEW q \in Paths, Write(p) \/ Delete(p) \/ Move(p, q)
        PROVE  \A i \in DOMAIN notices' :
                  notices'[i].action = "delete" => notices'[i].src = notices'[i].path
    <3>1. PICK action \in {"create", "modify", "delete", "move"}, from \in Paths, to \in Paths :
              Notify(Notice(action, to, from)) /\ (action = "delete" => from = to)
      BY <2>3, Changing
    <3>2. /\ Len(notices) \in Nat
          /\ DOMAIN notices = 1 .. Len(notices) /\ DOMAIN notices' = 1 .. (Len(notices) + 1)
          /\ \A i \in 1 .. Len(notices) : notices'[i] = notices[i]
          /\ notices'[Len(notices) + 1] = [action |-> action, path |-> to, src |-> from,
                                           change |-> changes + 1]
      BY <3>1, Notified
    <3>3. QED
      BY <3>1, <3>2 DEF Shape
  <2>4. QED
    BY <2>1, <2>2, <2>3, QueueSteps
<1>2. QED
  BY <1>1, PendingSteps, EndsSteps DEF Shape

(* What was handled stays older than what is queued, and so is what the    *)
(* observer takes next.                                                    *)
LEMMA Later ==
    ASSUME TypeOK, InSequence, [Next]_vars
    PROVE  /\ changes' \in Nat /\ changes <= changes'
           /\ \A i \in DOMAIN notices' : notices'[i].change <= changes'
           /\ \A i, j \in DOMAIN notices' : i < j => notices'[i].change < notices'[j].change
           /\ \A c \in Nat :
                 (c <= changes /\ \A i \in DOMAIN notices : c < notices[i].change)
                 => (c <= changes' /\ \A i \in DOMAIN notices' : c < notices'[i].change)
           /\ Observing => /\ Head(notices).change \in 1 .. changes
                           /\ \A i \in DOMAIN notices' : Head(notices).change < notices'[i].change
<1>t. /\ changes \in Nat /\ DOMAIN notices = 1 .. Len(notices) /\ Len(notices) \in Nat
      /\ \A i \in DOMAIN notices : notices[i] \in Notices /\ notices[i].change \in Nat \ {0}
  <2>1. notices \in Seq(Notices) /\ changes \in Nat
    BY CollectorAssumption DEF TypeOK
  <2>2. \A n \in Notices : n.change \in Nat \ {0}
    BY CollectorAssumption DEF Notices
  <2>3. QED
    BY <2>1, <2>2
<1>s. /\ \A i \in DOMAIN notices : notices[i].change <= changes
      /\ \A i, j \in DOMAIN notices : i < j => notices[i].change < notices[j].change
  BY DEF InSequence
<1>1. ASSUME Observing
      PROVE  /\ Head(notices).change \in 1 .. changes
             /\ \A i \in DOMAIN notices' : Head(notices).change < notices'[i].change
             /\ \A i \in DOMAIN notices' : notices'[i].change <= changes
             /\ \A i, j \in DOMAIN notices' : i < j => notices'[i].change < notices'[j].change
             /\ \A c \in Nat : (\A i \in DOMAIN notices : c < notices[i].change)
                               => \A i \in DOMAIN notices' : c < notices'[i].change
  <2>1. /\ 1 \in DOMAIN notices /\ Head(notices) = notices[1]
        /\ \A i \in DOMAIN notices' : /\ i \in Nat \ {0} /\ i + 1 \in DOMAIN notices
                                      /\ notices'[i] = notices[i + 1]
    BY <1>1, Queue
  <2>2. Head(notices).change \in Nat \ {0} /\ Head(notices).change <= changes
    BY <1>s, <1>t, <2>1
  <2>3. \A i \in DOMAIN notices' :
           /\ Head(notices).change < notices'[i].change
           /\ notices'[i].change <= changes
    <3> SUFFICES ASSUME NEW i \in DOMAIN notices'
                 PROVE  /\ Head(notices).change < notices'[i].change
                        /\ notices'[i].change <= changes
      OBVIOUS
    <3>1. 1 < i + 1
      BY <2>1
    <3>2. QED
      BY <1>s, <2>1, <3>1
  <2>4. \A i, j \in DOMAIN notices' : i < j => notices'[i].change < notices'[j].change
    <3> SUFFICES ASSUME NEW i \in DOMAIN notices', NEW j \in DOMAIN notices', i < j
                 PROVE  notices'[i].change < notices'[j].change
      OBVIOUS
    <3>1. i + 1 < j + 1
      BY <2>1
    <3>2. QED
      BY <1>s, <2>1, <3>1
  <2>5. \A c \in Nat : (\A i \in DOMAIN notices : c < notices[i].change)
                     => \A i \in DOMAIN notices' : c < notices'[i].change
    BY <2>1
  <2>6. QED
    BY <1>t, <2>2, <2>3, <2>4, <2>5
<1>2. CASE UNCHANGED <<notices, changes>>
  BY <1>1, <1>2, <1>s, <1>t
<1>3. CASE Observing /\ UNCHANGED changes
  BY <1>1, <1>3, <1>t
<1>4. ASSUME NEW p \in Paths, NEW q \in Paths, Write(p) \/ Delete(p) \/ Move(p, q)
      PROVE  /\ changes' \in Nat /\ changes <= changes'
             /\ \A i \in DOMAIN notices' : notices'[i].change <= changes'
             /\ \A i, j \in DOMAIN notices' : i < j => notices'[i].change < notices'[j].change
             /\ \A c \in Nat :
                   (c <= changes /\ \A i \in DOMAIN notices : c < notices[i].change)
                   => (c <= changes' /\ \A i \in DOMAIN notices' : c < notices'[i].change)
  <2>1. PICK action \in {"create", "modify", "delete", "move"}, from \in Paths, to \in Paths :
            Notify(Notice(action, to, from))
    BY <1>4, Changing
  <2>2. /\ changes' = changes + 1 /\ DOMAIN notices' = 1 .. (Len(notices) + 1)
        /\ \A i \in 1 .. Len(notices) : notices'[i] = notices[i]
        /\ notices'[Len(notices) + 1] = [action |-> action, path |-> to, src |-> from,
                                         change |-> changes + 1]
    BY <2>1, Notified
  <2>3. notices'[Len(notices) + 1].change = changes + 1
    BY <2>2
  <2>4. \A i \in DOMAIN notices' : \/ i \in DOMAIN notices /\ notices'[i] = notices[i]
                                   \/ i = Len(notices) + 1 /\ notices'[i].change = changes + 1
    BY <1>t, <2>2, <2>3
  <2>5. \A i \in DOMAIN notices' : notices'[i].change <= changes'
    BY <1>s, <1>t, <2>2, <2>4
  <2>6. \A i, j \in DOMAIN notices' : i < j => notices'[i].change < notices'[j].change
    BY <1>s, <1>t, <2>2, <2>4
  <2>7. QED
    BY <1>s, <1>t, <2>2, <2>4, <2>5, <2>6
<1>5. QED
  BY <1>1, <1>2, <1>3, <1>4, QueueSteps

(* Notifications are handled in the order of the changes.                  *)
LEMMA SequenceStep == TypeOK /\ Shape /\ InSequence /\ [Next]_vars => InSequence'
<1> SUFFICES ASSUME TypeOK, Shape, InSequence, [Next]_vars PROVE InSequence'
  OBVIOUS
<1>1. ASSUME NEW p \in Paths, NEW e \in pending'[p], NEW w \in e.writes
      PROVE  w <= changes' /\ \A i \in DOMAIN notices' : w < notices'[i].change
  <2>1. CASE \E d \in pending[p] : w \in d.writes
    <3>1. PICK d \in pending[p] : w \in d.writes
      BY <2>1
    <3>2. d \in Entries /\ w \in Nat
      BY <3>1, CollectorAssumption DEF TypeOK, Entries
    <3>3. w <= changes /\ \A i \in DOMAIN notices : w < notices[i].change
      BY <3>1 DEF InSequence
    <3>4. QED
      BY <3>2, <3>3, Later
  <2>2. CASE HandleWrite /\ w = Head(notices).change
    <3>1. /\ w \in 1 .. changes /\ changes \in Nat /\ changes' \in Nat /\ changes <= changes'
          /\ \A i \in DOMAIN notices' : w < notices'[i].change
      BY <2>2, Later, CollectorAssumption DEF HandleWrite, TypeOK
    <3>2. QED
      BY <3>1
  <2>3. QED
    BY <2>1, <2>2, PendingSteps
<1>2. ASSUME NEW n \in EndsSeen'
      PROVE  n.change \in 1 .. changes' /\ \A i \in DOMAIN notices' : n.change < notices'[i].change
  <2>t. changes \in Nat /\ changes' \in Nat /\ changes <= changes'
    BY Later, CollectorAssumption DEF TypeOK
  <2>1. CASE \E m \in EndsSeen : n.change = m.change
    <3>1. n.change \in 1 .. changes /\ \A i \in DOMAIN notices : n.change < notices[i].change
      BY <2>1 DEF InSequence
    <3>2. n.change \in Nat /\ n.change <= changes /\ n.change \in 1 .. changes'
      BY <2>t, <3>1
    <3>3. QED
      BY <3>1, <3>2, Later
  <2>2. CASE HandleEnd /\ n = Head(notices)
    <3>1. /\ n.change \in 1 .. changes
          /\ \A i \in DOMAIN notices' : n.change < notices'[i].change
      BY <2>2, Later DEF HandleEnd
    <3>2. QED
      BY <2>t, <3>1
  <2>3. QED
    BY <2>1, <2>2, EndsSteps
<1>3. /\ \A i \in DOMAIN notices' : notices'[i].change <= changes'
      /\ \A i, j \in DOMAIN notices' : i < j => notices'[i].change < notices'[j].change
  BY Later
<1>4. QED
  BY <1>1, <1>2, <1>3 DEF InSequence

(* A delete or move empties its paths under the lock, and what is handled  *)
(* after it is newer.                                                      *)
Live == \A p \in Paths : \A e \in pending[p] : \A n \in EndsSeen :
            e.path \in {n.path, n.src} => \A w \in e.writes : w > n.change

LEMMA LiveStep == TypeOK /\ Shape /\ InSequence /\ Live /\ [Next]_vars => Live'
<1> SUFFICES ASSUME TypeOK, Shape, InSequence, Live, [Next]_vars,
                    NEW p \in Paths, NEW e \in pending'[p], NEW n \in EndsSeen',
                    e.path \in {n.path, n.src}, NEW w \in e.writes
             PROVE  w > n.change
  BY DEF Live
<1>1. /\ e.path = p
      /\ \/ \E d \in pending[p] : w \in d.writes
         \/ HandleWrite /\ w = Head(notices).change
  BY PendingSteps
<1>2. CASE HandleEnd /\ n = Head(notices)
  <2>1. n \in Ends /\ p \notin Ended(n)
    BY <1>2, Ending
  <2>2. n.action = "delete" => n.src = n.path
    <3>1. 1 \in DOMAIN notices /\ n = notices[1]
      BY <1>2, Queue DEF HandleEnd
    <3>2. QED
      BY <3>1 DEF Shape
  <2>3. p \notin {n.path, n.src}
    BY <2>1, <2>2 DEF Ended, Ends
  <2>4. QED
    BY <1>1, <2>3
<1>3. ASSUME NEW m \in EndsSeen, n.path = m.path, n.src = m.src, n.change = m.change
      PROVE  w > n.change
  <2>1. CASE \E d \in pending[p] : w \in d.writes
    BY <1>1, <1>3, <2>1 DEF Live, Shape
  <2>2. CASE HandleWrite /\ w = Head(notices).change
    <3>1. 1 \in DOMAIN notices /\ Head(notices) = notices[1] /\ Head(notices) \in Notices
      BY <2>2, Queue DEF HandleWrite
    <3>2. w \in Nat /\ changes \in Nat
      BY <2>2, <3>1, CollectorAssumption DEF Notices, TypeOK
    <3>3. m.change < w /\ m.change \in 1 .. changes
      BY <2>2, <3>1 DEF InSequence
    <3>4. QED
      BY <1>3, <3>2, <3>3
  <2>3. QED
    BY <1>1, <2>1, <2>2
<1>4. QED
  BY <1>2, <1>3, EndsSteps

-----------------------------------------------------------------------------
LEMMA InitFacts == Init => TypeOK /\ Shape /\ InSequence /\ Live
<1> SUFFICES ASSUME Init PROVE TypeOK /\ Shape /\ InSequence /\ Live
  OBVIOUS
<1>1. Reported = {} /\ EndsSeen = {}
  BY DEF Init, Reported, EndsSeen
<1>2. 0 \in 0 .. MaxChanges
  BY CollectorAssumption
<1>3. TypeOK
  BY <1>1, <1>2 DEF Init, TypeOK
<1>4. QED
  BY <1>1, <1>3 DEF Init, Shape, InSequence, Live

(* The variables keep their types: the threads only ever handle what the   *)
(* observer was notified of.                                               *)
THEOREM TypeCorrect == Spec => []TypeOK
<1>1. QED
  BY InitFacts, TypeStep, ShapeStep, PTL DEF Spec

(* Nothing waits in _pending (file_collector.py:193-212) that is older than*)
(* a delete or move reported for its path.                                 *)
THEOREM PendingLives == Spec => []PendingIsLive
<1>1. Live => PendingIsLive
  BY DEF Live, PendingIsLive, Waiting, EndsSeen
<1>2. QED
  BY <1>1, InitFacts, TypeStep, ShapeStep, SequenceStep, LiveStep, PTL DEF Spec

-----------------------------------------------------------------------------
(* Every change is somewhere.  The places a change can be in:              *)
Queued == {notices[i].change : i \in DOMAIN notices}
InHand == IF observer = Idle THEN {} ELSE {observer.change}
EndsReported == {e.change : e \in {r \in Reported : IsEnd(r)}}

Somewhere(c) == \/ c \in Queued
                \/ c \in InHand
                \/ c \in WritesOf(Waiting)
                \/ c \in WritesOf(Taken)
                \/ c \in WritesOf(Reported)
                \/ c \in EndsReported
                \/ c \in discarded
                \/ c \in skipped

Accounted == \A c : c \in 1 .. changes <=> Somewhere(c)

LEMMA Accounting == EveryChangeAccounted <=> Accounted
BY DEF EveryChangeAccounted, Accounted, Somewhere, Queued, InHand, EndsReported, WritesOf

(* A step accounts for what was accounted for before it, and for what it   *)
(* changes.                                                                *)
LEMMA AccountStep ==
    ASSUME TypeOK, Shape, [Next]_vars, NEW c, Accounted
    PROVE  c \in 1 .. changes' <=> Somewhere(c)'
<1>a. c \in 1 .. changes <=> Somewhere(c)
  BY DEF Accounted
<1>e. /\ UNCHANGED emitted => /\ WritesOf(Reported)' = WritesOf(Reported)
                              /\ EndsReported' = EndsReported
      /\ UNCHANGED notices => Queued' = Queued
      /\ UNCHANGED observer => InHand' = InHand
      /\ UNCHANGED pending => WritesOf(Waiting)' = WritesOf(Waiting)
      /\ UNCHANGED ready => WritesOf(Taken)' = WritesOf(Taken)
  BY DEF Reported, EndsReported, Queued, InHand, WritesOf, Waiting, Taken
<1>1. ASSUME NEW p \in Paths, NEW q \in Paths, Write(p) \/ Delete(p) \/ Move(p, q)
      PROVE  c \in 1 .. changes' <=> Somewhere(c)'
  <2>1. PICK action \in {"create", "modify", "delete", "move"}, from \in Paths, to \in Paths :
            Notify(Notice(action, to, from))
    BY <1>1, Changing
  <2>2. /\ changes \in Nat /\ changes' = changes + 1 /\ Len(notices) \in Nat
        /\ DOMAIN notices = 1 .. Len(notices) /\ DOMAIN notices' = 1 .. (Len(notices) + 1)
        /\ \A i \in 1 .. Len(notices) : notices'[i] = notices[i]
        /\ notices'[Len(notices) + 1] = [action |-> action, path |-> to, src |-> from,
                                         change |-> changes + 1]
    BY <2>1, Notified
  <2>3. notices'[Len(notices) + 1].change = changes + 1
    BY <2>2
  <2>4. Queued' = Queued \cup {changes + 1}
    <3>1. 1 .. (Len(notices) + 1) = (1 .. Len(notices)) \cup {Len(notices) + 1}
      BY <2>2
    <3>2. QED
      BY <2>2, <2>3, <3>1 DEF Queued
  <2>5. UNCHANGED <<observer, pending, ready, emitted, discarded, skipped>>
    BY <2>1 DEF Notify
  <2>6. c \in 1 .. changes' <=> c \in 1 .. changes \/ c = changes + 1
    BY <2>2
  <2>7. QED
    BY <1>a, <1>e, <2>4, <2>5, <2>6 DEF Somewhere
<1>o. ASSUME Observing
      PROVE  Queued = Queued' \cup {Head(notices).change}
  <2>1. /\ Len(notices) \in Nat \ {0} /\ DOMAIN notices = 1 .. Len(notices)
        /\ Head(notices) = notices[1]
        /\ DOMAIN notices' = 1 .. (Len(notices) - 1)
        /\ \A i \in DOMAIN notices' : notices'[i] = notices[i + 1]
    BY <1>o, Queue
  <2>2. ASSUME NEW i \in 2 .. Len(notices)
        PROVE  i - 1 \in DOMAIN notices' /\ notices'[i - 1] = notices[i]
    <3>1. i - 1 \in 1 .. (Len(notices) - 1) /\ (i - 1) + 1 = i
      BY <2>1
    <3>2. QED
      BY <2>1, <3>1
  <2>3. 1 .. Len(notices) = {1} \cup (2 .. Len(notices))
    BY <2>1
  <2>4. \A d \in Queued : d = Head(notices).change \/ d \in Queued'
    BY <2>1, <2>2, <2>3, SMTT(20) DEF Queued
  <2>5. \A d \in Queued' : d \in Queued
    <3> SUFFICES ASSUME NEW i \in DOMAIN notices' PROVE notices'[i].change \in Queued
      BY DEF Queued
    <3>1. i + 1 \in DOMAIN notices
      BY <2>1
    <3>2. QED
      BY <2>1, <3>1 DEF Queued
  <2>6. Head(notices).change \in Queued
    BY <2>1 DEF Queued
  <2>7. QED
    BY <2>4, <2>5, <2>6
<1>2. CASE Tick
  <2>1. WritesOf(Waiting)' = WritesOf(Waiting)
    <3>1. \A e \in Waiting' : \E d \in Waiting : e.writes = d.writes
      BY <1>2, Ticking DEF Waiting
    <3>2. \A d \in Waiting : \E e \in Waiting' : e.writes = d.writes
      BY <1>2, Ticking DEF Waiting
    <3>3. QED
      BY <3>1, <3>2 DEF WritesOf
  <2>2. UNCHANGED <<changes, notices, observer, ready, emitted, discarded, skipped>>
    BY <1>2 DEF Tick
  <2>3. QED
    BY <1>a, <1>e, <2>1, <2>2 DEF Somewhere
<1>3. CASE Skip
  <2>1. /\ Queued = Queued' \cup {Head(notices).change}
        /\ skipped' = skipped \cup {Head(notices).change}
        /\ UNCHANGED <<changes, observer, pending, ready, emitted, discarded>>
    BY <1>3, <1>o DEF Skip
  <2>2. QED
    BY <1>a, <1>e, <2>1 DEF Somewhere
<1>4. CASE HandleWrite
  <2> DEFINE n == Head(notices)
  <2>1. /\ Queued = Queued' \cup {n.change}
        /\ UNCHANGED <<changes, observer, ready, emitted, discarded, skipped>>
    BY <1>4, <1>o DEF HandleWrite
  <2>2. WritesOf(Waiting)' = WritesOf(Waiting) \cup {n.change}
    <3>1. /\ n.path \in Paths
          /\ \A p \in Paths \ {n.path} : pending'[p] = pending[p]
          /\ WritesOf(pending'[n.path]) = WritesOf(pending[n.path]) \cup {n.change}
      BY <1>4, Combining DEF Notices
    <3> HIDE DEF n
    <3> DEFINE Others == UNION {pending[p] : p \in Paths \ {n.path}}
    <3>2. Waiting = Others \cup pending[n.path] /\ Waiting' = Others \cup pending'[n.path]
      BY <3>1 DEF Waiting
    <3> HIDE DEF Others
    <3>3. /\ WritesOf(Waiting) = WritesOf(Others) \cup WritesOf(pending[n.path])
          /\ WritesOf(Waiting') = WritesOf(Others) \cup WritesOf(pending'[n.path])
      BY <3>2, WritesUnion
    <3>4. WritesOf(Waiting)' = WritesOf(Waiting')
      BY DEF WritesOf
    <3>5. QED
      BY <3>1, <3>3, <3>4
  <2>3. QED
    BY <1>a, <1>e, <2>1, <2>2 DEF Somewhere
<1>5. CASE HandleEnd
  <2> DEFINE n == Head(notices)
             gone == UNION {pending[p] : p \in Ended(n)}
  <2>1. /\ Queued = Queued' \cup {n.change} /\ observer = Idle /\ observer' = n /\ n # Idle
        /\ discarded' = discarded \cup WritesOf(gone)
        /\ UNCHANGED <<changes, ready, emitted, skipped>>
    BY <1>5, <1>o, Ending DEF HandleEnd, WritesOf
  <2>2. InHand = {} /\ InHand' = {n.change}
    BY <2>1 DEF InHand
  <2>3. Waiting = Waiting' \cup gone
    <3>1. /\ \A p \in Ended(n) : p \in Paths /\ pending'[p] = {}
          /\ \A p \in Paths \ Ended(n) : pending'[p] = pending[p]
      BY <1>5, Ending
    <3> HIDE DEF n
    <3>2. QED
      BY <3>1 DEF Waiting
  <2> HIDE DEF gone
  <2>4. WritesOf(Waiting) = WritesOf(Waiting)' \cup WritesOf(gone)
    <3>1. WritesOf(Waiting) = WritesOf(Waiting') \cup WritesOf(gone)
      BY <2>3, WritesUnion
    <3>2. WritesOf(Waiting)' = WritesOf(Waiting')
      BY DEF WritesOf
    <3>3. QED
      BY <3>1, <3>2
  <2>5. QED
    BY <1>a, <1>e, <2>1, <2>2, <2>4 DEF Somewhere
<1>6. CASE ReportEnd
  <2>1. PICK r : /\ emitted' = Append(emitted, r) /\ observer' = Idle /\ observer # Idle
                 /\ r.action = observer.action /\ r.change = observer.change
                 /\ r.writes = {}
    BY <1>6 DEF ReportEnd
  <2>2. Reported' = Reported \cup {r} /\ observer \in Ends
    BY <2>1, Added DEF TypeOK
  <2>3. InHand = {r.change} /\ InHand' = {}
    BY <2>1 DEF InHand
  <2>4. IsEnd(r)
    BY <2>1, <2>2 DEF IsEnd, Ends
  <2>5. EndsReported' = EndsReported \cup {r.change}
    BY <2>2, <2>4 DEF EndsReported, IsEnd
  <2>6. WritesOf(Reported)' = WritesOf(Reported)
    <3>0. WritesOf({r}) = r.writes
      BY WritesOne
    <3>1. WritesOf(Reported') = WritesOf(Reported) \cup WritesOf({r})
      BY <2>2, WritesUnion
    <3>2. WritesOf(Reported)' = WritesOf(Reported')
      BY DEF WritesOf
    <3>3. QED
      BY <2>1, <3>0, <3>1, <3>2
  <2>7. UNCHANGED <<changes, notices, pending, ready, discarded, skipped>>
    BY <1>6 DEF ReportEnd
  <2>8. QED
    BY <1>a, <1>e, <2>3, <2>5, <2>6, <2>7 DEF Somewhere
<1>7. CASE FlusherTakes \/ StopperTakes
  <2>1. PICK f \in Flushers, taken \in SUBSET Waiting : Take(f, taken)
    BY <1>7, TakeSteps
  <2>2. Waiting = Waiting' \cup taken /\ Taken' = Taken \cup taken
    BY <2>1, Taking
  <2>3. /\ WritesOf(Waiting) = WritesOf(Waiting)' \cup WritesOf(taken)
        /\ WritesOf(Taken)' = WritesOf(Taken) \cup WritesOf(taken)
    <3>1. /\ WritesOf(Waiting' \cup taken) = WritesOf(Waiting') \cup WritesOf(taken)
          /\ WritesOf(Taken \cup taken) = WritesOf(Taken) \cup WritesOf(taken)
      BY WritesUnion
    <3>2. WritesOf(Waiting)' = WritesOf(Waiting') /\ WritesOf(Taken)' = WritesOf(Taken')
      BY DEF WritesOf
    <3>3. QED
      BY <2>2, <3>1, <3>2
  <2>4. UNCHANGED <<changes, notices, observer, emitted, discarded, skipped>>
    BY <1>7 DEF FlusherTakes, StopperTakes
  <2>5. QED
    BY <1>a, <1>e, <2>3, <2>4 DEF Somewhere
<1>8. ASSUME NEW f \in Flushers, Report(f)
      PROVE  c \in 1 .. changes' <=> Somewhere(c)'
  <2>0. PICK e \in ready[f] :
            /\ emitted' = Append(emitted, [action |-> e.action, path |-> e.path,
                                           size |-> size[e.path], writes |-> e.writes,
                                           src |-> e.path, change |-> MaxOf(e.writes)])
            /\ ready' = [ready EXCEPT ![f] = @ \ {e}]
    BY <1>8 DEF Report
  <2>1. PICK r : /\ emitted' = Append(emitted, r)
                 /\ r.action = e.action /\ r.writes = e.writes
    BY <2>0
  <2>2. e \in Entries /\ ~IsEnd(r)
    BY <2>0, <2>1 DEF TypeOK, Entries, IsEnd
  <2>3. Reported' = Reported \cup {r}
    BY <2>1, Added
  <2>4. EndsReported' = EndsReported
    BY <2>2, <2>3 DEF EndsReported, IsEnd
  <2>5. Taken = Taken' \cup {e}
    BY <2>0 DEF TypeOK, Taken
  <2>6. /\ WritesOf(Taken) = WritesOf(Taken)' \cup e.writes
        /\ WritesOf(Reported)' = WritesOf(Reported) \cup e.writes
    <3>0. WritesOf({e}) = e.writes /\ WritesOf({r}) = r.writes
      BY WritesOne
    <3>1. /\ WritesOf(Taken' \cup {e}) = WritesOf(Taken') \cup WritesOf({e})
          /\ WritesOf(Reported \cup {r}) = WritesOf(Reported) \cup WritesOf({r})
      BY WritesUnion
    <3>2. WritesOf(Taken)' = WritesOf(Taken') /\ WritesOf(Reported)' = WritesOf(Reported')
      BY DEF WritesOf
    <3>3. QED
      BY <2>1, <2>3, <2>5, <3>0, <3>1, <3>2
  <2>7. UNCHANGED <<changes, notices, observer, pending, discarded, skipped>>
    BY <1>8 DEF Report
  <2>8. QED
    BY <1>a, <1>e, <2>4, <2>6, <2>7 DEF Somewhere
<1>9. CASE BeginStop \/ JoinFlusher \/ JoinObserver \/ UNCHANGED vars
  <2>1. UNCHANGED <<changes, notices, observer, pending, ready, emitted, discarded, skipped>>
    BY <1>9 DEF BeginStop, JoinFlusher, JoinObserver, vars
  <2>2. QED
    BY <1>a, <1>e, <2>1 DEF Somewhere
<1>10. QED
  BY <1>1, <1>2, <1>3, <1>4, <1>5, <1>6, <1>7, <1>8, <1>9, Steps

(* Debouncing (file_collector.py:193-240) collapses notifications and never*)
(* loses one, whichever thread takes or reports them.                      *)
THEOREM NoChangeLost == Spec => []EveryChangeAccounted
<1>1. Init => EveryChangeAccounted
  BY DEF Init, EveryChangeAccounted, Waiting, Taken, Reported
<1>2. TypeOK /\ Shape /\ Accounted /\ [Next]_vars => Accounted'
  BY AccountStep DEF Accounted
<1>3. QED
  BY <1>1, <1>2, Accounting, InitFacts, TypeStep, ShapeStep, PTL DEF Spec

(* After stop no write is left in _pending: the observer handles nothing   *)
(* once it was joined, and the last flush takes what there is.             *)
THEOREM NothingLeft == Spec => []StopLeavesNothing
<1>1. Init => StopLeavesNothing
  BY DEF Init, StopLeavesNothing
<1>2. TypeOK /\ Shape /\ StopLeavesNothing /\ [Next]_vars => StopLeavesNothing'
  <2> SUFFICES ASSUME TypeOK, Shape, StopLeavesNothing, [Next]_vars, phase' = "stopped"
               PROVE  Waiting' = {}
    BY DEF StopLeavesNothing
  <2>1. CASE StopperTakes
    <3>1. Take("stopper", Waiting)
      BY <2>1 DEF StopperTakes, Waiting
    <3>2. Waiting' = Waiting \ Waiting
      BY <3>1, Taking DEF Flushers
    <3>3. QED
      BY <3>2
  <2>2. CASE phase = "stopped" /\ ~HandleWrite
    <3>1. \A p \in Paths : pending[p] = {}
      BY <2>2 DEF StopLeavesNothing, Waiting
    <3>2. \A p \in Paths : pending'[p] \subseteq pending[p]
      <4>1. CASE Tick
        BY <3>1, <4>1, Ticking
      <4>2. CASE HandleEnd
        BY <2>2, <4>2 DEF HandleEnd, Observing
      <4>3. CASE FlusherTakes \/ StopperTakes
        BY <2>2, <4>3 DEF FlusherTakes, StopperTakes
      <4>4. QED
        BY <2>2, <4>1, <4>2, <4>3, PendingKept
    <3>3. QED
      BY <3>1, <3>2 DEF Waiting
  <2>3. CASE HandleWrite
    BY <2>3 DEF HandleWrite, Observing
  <2>4. CASE phase # "stopped" /\ ~StopperTakes
    <3>1. CASE JoinFlusher \/ JoinObserver \/ BeginStop
      BY <2>4, <3>1 DEF JoinFlusher, JoinObserver, BeginStop, AfterStop
    <3>2. CASE UNCHANGED phase
      BY <2>4, <3>2
    <3>3. QED
      BY <2>4, <3>1, <3>2 DEF Next, vars, Write, Delete, Move, Notify, Tick, Skip, HandleWrite,
                           HandleEnd, ReportEnd, FlusherTakes, Report
  <2>5. QED
    BY <2>1, <2>2, <2>3, <2>4
<1>3. QED
  BY <1>1, <1>2, InitFacts, TypeStep, ShapeStep, PTL DEF Spec

-----------------------------------------------------------------------------
Snapshots == [taken : BOOLEAN, keys : SUBSET Keys]

SensorsShape ==
    /\ ons \in [Keys -> Nat] /\ offs \in [Keys -> Nat]
    /\ previous \in Snapshots /\ current \in Snapshots
    /\ base \subseteq Keys
    /\ collector \in {"usb", "logon"}

(* The counter bounds the volumes that were ever plugged in.               *)
Volumes ==
    /\ worldChanges \in 0 .. MaxWorldChanges
    /\ volume \in [Roots -> 0 .. worldChanges + 1]
    /\ watches \in [Roots -> 0 .. worldChanges + 1]

(* The USB collector never knows of anything but roots.                    *)
Drives ==
    collector = "usb" => /\ known \subseteq Roots
                         /\ previous.keys \subseteq Roots
                         /\ current.keys \subseteq Roots

Phases ==
    /\ main = "start" => thread = "constructed"
    /\ thread \in {"constructed", "started"} => ~previous.taken
    /\ thread = "diffing" => current.taken

Silent == ~previous.taken => \A k \in Keys : ons[k] = 0 /\ offs[k] = 0

Typed == SensorsTypeOK /\ SensorsShape /\ Volumes /\ Drives

Counting == Phases /\ Silent /\ ReportsAddUp /\ KnownIsLive

-----------------------------------------------------------------------------
(* What a probe returns (usb_collector.py scan_removable, logon_collector.py*)
(* snapshot_sessions): roots for one collector, sessions for the other.    *)
LEMMA ScanTyped ==
    ASSUME SensorsTypeOK, SensorsShape
    PROVE  /\ Scan \subseteq Keys
           /\ collector = "usb" => Scan \subseteq Roots
           /\ Snapshot(Scan) \in Snapshots
           /\ Snapshot(Scan).taken
           /\ Snapshot(Scan).keys = Scan
<1>1. Scan \subseteq Keys
  BY DEF Scan, Mounted, Keys, SensorsTypeOK, SensorsShape
<1>2. collector = "usb" => Scan \subseteq Roots
  BY DEF Scan, Mounted
<1>3. QED
  BY <1>1, <1>2 DEF Snapshot, Snapshots

(* The types and where the snapshots come from survive every step.         *)
LEMMA TypedInit == SensorsInit => Typed
<1> SUFFICES ASSUME SensorsInit PROVE Typed
  OBVIOUS
<1> USE SensorsAssumption
<1>1. worldChanges = 0 /\ worldChanges \in 0 .. MaxWorldChanges
  BY DEF SensorsInit
<1>2. volume \in [Roots -> 0 .. 1] /\ watches \in [Roots -> 0 .. 1]
  BY DEF SensorsInit
<1>3. Volumes
  BY <1>1, <1>2 DEF Volumes
<1>4. SensorsShape
  BY DEF SensorsInit, SensorsShape, Snapshots, NoSnapshot
<1>5. /\ volume \in [Roots -> 0 .. MaxWorldChanges + 1]
      /\ watches \in [Roots -> 0 .. MaxWorldChanges + 1]
  BY <1>2
<1>6. known \subseteq Keys /\ (collector = "usb" => known \subseteq Roots)
  BY DEF SensorsInit, Scan, Mounted, Keys
<1>7. SensorsTypeOK
  BY <1>5, <1>6 DEF SensorsInit, SensorsTypeOK
<1>8. Drives
  BY <1>6 DEF SensorsInit, Drives, NoSnapshot
<1>9. QED
  BY <1>3, <1>4, <1>7, <1>8 DEF Typed

LEMMA IntervalsGrow ==
    ASSUME NEW m \in Nat, NEW n \in Nat, m <= n
    PROVE  0 .. m + 1 \subseteq 0 .. n + 1
OBVIOUS

LEMMA VolumesKept ==
    ASSUME Typed, [SensorsNext]_sensorsVars
    PROVE  /\ Volumes'
           /\ volume' \in [Roots -> 0 .. MaxWorldChanges + 1]
           /\ watches' \in [Roots -> 0 .. MaxWorldChanges + 1]
<1> USE SensorsAssumption DEF Typed
<1>0. worldChanges \in Nat /\ worldChanges <= MaxWorldChanges /\ MaxWorldChanges \in Nat
  BY DEF Volumes
<1>1. Volumes'
  <2>1. ASSUME Change, volume' \in [Roots -> 0 .. worldChanges + 2]
        PROVE  Volumes'
    <3>1. /\ worldChanges' = worldChanges + 1
          /\ worldChanges' \in 0 .. MaxWorldChanges
          /\ watches' = watches
      BY <2>1, <1>0 DEF Change, mainVars
    <3>2. /\ 0 .. worldChanges + 1 \subseteq 0 .. worldChanges' + 1
          /\ worldChanges + 2 = worldChanges' + 1
      BY <3>1, <1>0
    <3>3. watches' \in [Roots -> 0 .. worldChanges' + 1]
      BY <3>1, <3>2 DEF Volumes
    <3>4. QED
      BY <2>1, <3>1, <3>2, <3>3 DEF Volumes
  <2>2. ASSUME NEW r \in Roots, Plug(r) \/ Unplug(r)
        PROVE  Volumes'
    <3>1. volume \in [Roots -> 0 .. worldChanges + 2]
      BY <1>0 DEF Volumes
    <3>2. worldChanges + 2 \in 0 .. worldChanges + 2 /\ 0 \in 0 .. worldChanges + 2
      BY <1>0
    <3>3. volume' \in [Roots -> 0 .. worldChanges + 2]
      BY <2>2, <3>1, <3>2 DEF Plug, Unplug
    <3>4. QED
      BY <2>1, <2>2, <3>3 DEF Plug, Unplug
  <2>3. ASSUME NEW s \in Sessions, LogOn(s) \/ LogOff(s)
        PROVE  Volumes'
    <3>1. volume' \in [Roots -> 0 .. worldChanges + 2]
      BY <2>3, <1>0 DEF LogOn, LogOff, Volumes
    <3>2. QED
      BY <2>1, <2>3, <3>1 DEF LogOn, LogOff
  <2>4. ASSUME Thread \/ SyncBegins
        PROVE  Volumes'
    BY <2>4 DEF Thread, FirstSnapshot, Poll, Baseline, Same, Diff, SyncBegins, worldVars,
                mainVars, Volumes
  <2>5. CASE StartCollectors
    <3>1. worldChanges' = worldChanges /\ volume' = volume
      BY <2>5 DEF StartCollectors, worldVars
    <3>2. \A r \in Roots : (IF r \in WatchDirs THEN volume[r] ELSE 0) \in 0 .. worldChanges + 1
      BY <1>0 DEF Volumes
    <3>3. watches' \in [Roots -> 0 .. worldChanges + 1]
      BY <2>5, <3>2 DEF StartCollectors
    <3>4. QED
      BY <3>1, <3>3 DEF Volumes
  <2>6. ASSUME NEW r \in Roots, Watch(r) \/ Unwatch(r)
        PROVE  Volumes'
    <3>1. worldChanges' = worldChanges /\ volume' = volume
      BY <2>6 DEF Watch, Unwatch, worldVars
    <3>2. volume[r] \in 0 .. worldChanges + 1 /\ 0 \in 0 .. worldChanges + 1
      BY <1>0 DEF Volumes
    <3>3. watches' \in [Roots -> 0 .. worldChanges + 1]
      BY <2>6, <3>2 DEF Watch, Unwatch, Volumes
    <3>4. QED
      BY <3>1, <3>3 DEF Volumes
  <2>7. CASE UNCHANGED sensorsVars
    BY <2>7 DEF sensorsVars, worldVars, mainVars, Volumes
  <2>8. QED
    BY <2>2, <2>3, <2>4, <2>5, <2>6, <2>7 DEF SensorsNext, World, Main
<1>2. worldChanges' \in 0 .. MaxWorldChanges
  BY <1>1 DEF Volumes
<1>3. 0 .. worldChanges' + 1 \subseteq 0 .. MaxWorldChanges + 1
  <2>1. worldChanges' \in Nat /\ worldChanges' <= MaxWorldChanges
    BY <1>0, <1>2
  <2>2. QED
    BY <1>0, <2>1, IntervalsGrow
<1>4. QED
  BY <1>1, <1>3 DEF Volumes

LEMMA TypedNext == Typed /\ [SensorsNext]_sensorsVars => Typed'
<1> SUFFICES ASSUME Typed, [SensorsNext]_sensorsVars PROVE Typed'
  OBVIOUS
<1> USE DEF Typed
<1>1. /\ Volumes'
      /\ volume' \in [Roots -> 0 .. MaxWorldChanges + 1]
      /\ watches' \in [Roots -> 0 .. MaxWorldChanges + 1]
  BY VolumesKept
<1> DEFINE Rest == /\ live \subseteq Sessions /\ ended \subseteq Sessions
                   /\ thread \in {"constructed", "started", "waiting", "diffing"}
                   /\ known \subseteq Keys
                   /\ toWatch \subseteq Roots /\ toUnwatch \subseteq Roots
<1>2. Rest
  BY DEF SensorsTypeOK
<1>3. Rest' /\ SensorsShape' /\ Drives'
  <2>1. CASE World
    BY <1>2, <2>1 DEF World, Plug, Unplug, LogOn, LogOff, Change, threadVars, mainVars,
                      SensorsShape, Drives
  <2>2. ASSUME FirstSnapshot
        PROVE  Rest' /\ SensorsShape' /\ Drives'
    <3>1. UNCHANGED <<live, ended, collector, current, known, ons, offs, toWatch, toUnwatch>>
      BY <2>2 DEF FirstSnapshot, worldVars, mainVars
    <3>2. /\ thread' = "waiting"
          /\ \/ previous' = Snapshot(Scan) /\ base' = Scan
             \/ previous' = previous /\ base' = base
      BY <2>2 DEF FirstSnapshot
    <3>3. SensorsShape' /\ Drives'
      BY <3>1, <3>2, ScanTyped DEF SensorsShape, Drives
    <3>4. QED
      BY <1>2, <3>1, <3>2, <3>3
  <2>3. ASSUME Poll
        PROVE  Rest' /\ SensorsShape' /\ Drives'
    <3>1. /\ UNCHANGED <<live, ended, collector, previous, known, ons, offs, base>>
          /\ UNCHANGED <<toWatch, toUnwatch>>
      BY <2>3 DEF Poll, worldVars, mainVars
    <3>2. \/ current' = Snapshot(Scan) /\ thread' = "diffing"
          \/ current' = current /\ thread' = thread
      BY <2>3 DEF Poll
    <3>3. SensorsShape' /\ Drives'
      BY <3>1, <3>2, ScanTyped DEF SensorsShape, Drives
    <3>4. QED
      BY <1>2, <3>1, <3>2, <3>3
  <2>4. ASSUME Baseline
        PROVE  Rest' /\ SensorsShape' /\ Drives'
    <3>1. /\ UNCHANGED <<live, ended, collector, current, known, ons, offs>>
          /\ UNCHANGED <<toWatch, toUnwatch>>
      BY <2>4 DEF Baseline, worldVars, mainVars
    <3>2. thread' = "waiting" /\ previous' = current /\ base' = current.keys
      BY <2>4 DEF Baseline
    <3>3. current.keys \subseteq Keys
      BY DEF SensorsShape, Snapshots
    <3>4. SensorsShape' /\ Drives'
      BY <3>1, <3>2, <3>3 DEF SensorsShape, Drives
    <3>5. QED
      BY <1>2, <3>1, <3>2, <3>4
  <2>5. ASSUME Same
        PROVE  Rest' /\ SensorsShape' /\ Drives'
    BY <1>2, <2>5 DEF Same, worldVars, mainVars, SensorsShape, Drives
  <2>6. ASSUME Diff
        PROVE  Rest' /\ SensorsShape' /\ Drives'
    <3>1. UNCHANGED <<live, ended, collector, current, base, toWatch, toUnwatch>>
      BY <2>6 DEF Diff, worldVars, mainVars
    <3>2. thread' = "waiting" /\ previous' = current /\ known' = current.keys
      BY <2>6 DEF Diff, NextPrevious, Shared
    <3>3. current.keys \subseteq Keys
      BY DEF SensorsShape, Snapshots
    <3>4. /\ \A k \in Keys : ons[k] + (IF k \in Came(previous, current) THEN 1 ELSE 0) \in Nat
          /\ \A k \in Keys : offs[k] + (IF k \in Gone(previous, current) THEN 1 ELSE 0) \in Nat
      BY DEF SensorsShape
    <3>5. ons' \in [Keys -> Nat] /\ offs' \in [Keys -> Nat]
      BY <2>6, <3>4 DEF Diff
    <3>6. SensorsShape' /\ Drives'
      BY <3>1, <3>2, <3>5 DEF SensorsShape, Drives
    <3>7. QED
      BY <1>2, <3>1, <3>2, <3>3, <3>6
  <2>7. CASE StartCollectors
    BY <1>2, <2>7 DEF StartCollectors, worldVars, SensorsShape, Drives
  <2>8. ASSUME SyncBegins
        PROVE  Rest' /\ SensorsShape' /\ Drives'
    <3>1. UNCHANGED <<live, ended, thread, collector, previous, current, known, ons, offs, base>>
      BY <2>8 DEF SyncBegins, worldVars, threadVars
    <3>2. toWatch' \subseteq Roots /\ toUnwatch' \subseteq Roots
      BY <2>8 DEF SyncBegins, MissingWatches, SpareWatches, Watched, Drives
    <3>3. QED
      BY <1>2, <3>1, <3>2 DEF SensorsShape, Drives
  <2>9. ASSUME NEW r \in Roots, Watch(r) \/ Unwatch(r)
        PROVE  Rest' /\ SensorsShape' /\ Drives'
    BY <1>2, <2>9 DEF Watch, Unwatch, worldVars, threadVars, SensorsShape, Drives
  <2>10. CASE UNCHANGED sensorsVars
    BY <1>2, <2>10 DEF sensorsVars, worldVars, threadVars, mainVars, SensorsShape, Drives
  <2>11. QED
    BY <2>1, <2>2, <2>3, <2>4, <2>5, <2>6, <2>7, <2>8, <2>9, <2>10
       DEF SensorsNext, Thread, Main
<1>4. SensorsTypeOK'
  BY <1>1, <1>3 DEF SensorsTypeOK
<1>5. QED
  BY <1>1, <1>3, <1>4

-----------------------------------------------------------------------------
(* The counts: one step per action that touches what they relate.          *)
LEMMA CountingInit == SensorsInit => Counting
<1> SUFFICES ASSUME SensorsInit PROVE Counting
  OBVIOUS
<1>1. ~previous.taken
  BY DEF SensorsInit, NoSnapshot
<1>2. \A k \in Keys : ons[k] = 0 /\ offs[k] = 0
  BY DEF SensorsInit
<1>3. Phases
  BY <1>1 DEF SensorsInit, Phases
<1>4. KnownIsLive
  BY <1>2 DEF KnownIsLive, Reports
<1>5. QED
  BY <1>1, <1>2, <1>3, <1>4 DEF Counting, Silent, ReportsAddUp

LEMMA CountingNext == Typed /\ Counting /\ [SensorsNext]_sensorsVars => Counting'
<1> SUFFICES ASSUME Typed, Counting, [SensorsNext]_sensorsVars PROVE Counting'
  OBVIOUS
<1> USE DEF Counting
<1>0. SensorsShape /\ SensorsTypeOK
  BY DEF Typed
<1> DEFINE Counts == <<previous, known, ons, offs, base>>
<1>1. ASSUME UNCHANGED Counts
      PROVE  Silent' /\ ReportsAddUp' /\ KnownIsLive'
  BY <1>1 DEF Silent, ReportsAddUp, KnownIsLive, Reports
<1>2. ASSUME UNCHANGED Counts, UNCHANGED <<thread, main, current>>
      PROVE  Counting'
  BY <1>1, <1>2 DEF Phases
<1>3. ASSUME FirstSnapshot
      PROVE  Counting'
  <2>1. thread' = "waiting" /\ main # "start" /\ ~previous.taken
    BY <1>3 DEF FirstSnapshot, Phases
  <2>2. UNCHANGED <<main, current, known, ons, offs>>
    BY <1>3 DEF FirstSnapshot, mainVars
  <2>3. \A k \in Keys : ons'[k] = 0 /\ offs'[k] = 0
    BY <2>1, <2>2 DEF Silent
  <2>4. CASE previous' = Snapshot(Scan) /\ base' = Scan
    <3>1. previous'.keys = base'
      BY <2>4, ScanTyped, <1>0
    <3>2. ReportsAddUp'
      BY <2>3, <3>1 DEF ReportsAddUp
    <3>3. KnownIsLive'
      BY <2>3 DEF KnownIsLive, Reports
    <3>4. QED
      BY <2>1, <2>2, <2>3, <3>2, <3>3 DEF Phases, Silent
  <2>5. CASE UNCHANGED <<previous, base>>
    <3>1. UNCHANGED Counts
      BY <2>2, <2>5
    <3>2. QED
      BY <1>1, <2>1, <2>2, <3>1 DEF Phases
  <2>6. QED
    BY <1>3, <2>4, <2>5 DEF FirstSnapshot
<1>4. ASSUME Poll
      PROVE  Counting'
  <2>1. UNCHANGED Counts /\ UNCHANGED main
    BY <1>4 DEF Poll, mainVars
  <2>2. Snapshot(Scan).taken
    BY <1>0, ScanTyped
  <2>3. Phases'
    BY <1>4, <2>1, <2>2 DEF Poll, Phases
  <2>4. QED
    BY <1>1, <2>1, <2>3
<1>5. ASSUME Baseline
      PROVE  Counting'
  <2>1. \A k \in Keys : ons'[k] = 0 /\ offs'[k] = 0
    BY <1>5 DEF Baseline, Silent
  <2>2. previous' = current /\ base' = current.keys /\ thread' = "waiting"
    BY <1>5 DEF Baseline
  <2>3. ReportsAddUp'
    BY <2>1, <2>2 DEF ReportsAddUp
  <2>4. KnownIsLive'
    BY <2>1 DEF KnownIsLive, Reports
  <2>5. Phases'
    BY <1>5, <2>2 DEF Baseline, Phases, mainVars
  <2>6. QED
    BY <2>1, <2>3, <2>4, <2>5 DEF Silent
<1>6. ASSUME Same
      PROVE  Counting'
  <2>1. UNCHANGED Counts
    BY <1>6 DEF Same
  <2>2. Phases'
    BY <1>6 DEF Same, Phases, mainVars
  <2>3. QED
    BY <1>1, <2>1, <2>2
<1>7. ASSUME Diff
      PROVE  Counting'
  <2>1. /\ previous' = current /\ known' = current.keys /\ base' = base
        /\ thread' = "waiting" /\ main' = main /\ current' = current
    BY <1>7 DEF Diff, NextPrevious, Shared, mainVars
  <2>2. previous.taken /\ current.taken /\ thread = "diffing"
    BY <1>7 DEF Diff, Phases
  <2>3. Phases' /\ Silent'
    BY <2>1, <2>2 DEF Phases, Silent
  <2>4. KnownIsLive'
    BY <2>1 DEF KnownIsLive
  <2>5. ReportsAddUp'
    <3> SUFFICES ASSUME NEW k \in Keys
                 PROVE  (IF k \in base THEN 1 ELSE 0) + ons'[k]
                            = (IF k \in current.keys THEN 1 ELSE 0) + offs'[k]
      BY <2>1 DEF ReportsAddUp
    <3>1. ons[k] \in Nat /\ offs[k] \in Nat
      BY <1>0 DEF SensorsShape
    <3>2. (IF k \in base THEN 1 ELSE 0) + ons[k]
              = (IF k \in previous.keys THEN 1 ELSE 0) + offs[k]
      BY <2>2 DEF ReportsAddUp
    <3>3. ons'[k] = ons[k] + (IF k \in current.keys /\ k \notin previous.keys THEN 1 ELSE 0)
      BY <1>7 DEF Diff, Came
    <3>4. offs'[k] = offs[k] + (IF k \in previous.keys /\ k \notin current.keys THEN 1 ELSE 0)
      BY <1>7 DEF Diff, Gone
    <3>5. QED
      BY <3>1, <3>2, <3>3, <3>4
  <2>6. QED
    BY <2>3, <2>4, <2>5
<1>8. CASE World
  BY <1>2, <1>8 DEF World, Plug, Unplug, LogOn, LogOff, Change, threadVars, mainVars
<1>9. CASE StartCollectors
  <2>1. UNCHANGED Counts
    BY <1>9 DEF StartCollectors
  <2>2. Phases'
    BY <1>9 DEF StartCollectors, Phases
  <2>3. QED
    BY <1>1, <2>1, <2>2
<1>10. ASSUME SyncBegins \/ \E r \in Roots : Watch(r) \/ Unwatch(r)
       PROVE  Counting'
  <2>1. UNCHANGED Counts /\ UNCHANGED <<thread, current>>
    BY <1>10 DEF SyncBegins, Watch, Unwatch, threadVars
  <2>2. main # "start" /\ main' # "start"
    BY <1>10 DEF SyncBegins, Watch, Unwatch, SyncGoesOn
  <2>3. Phases'
    BY <2>1, <2>2 DEF Phases
  <2>4. QED
    BY <1>1, <2>1, <2>3
<1>11. CASE UNCHANGED sensorsVars
  BY <1>2, <1>11 DEF sensorsVars, worldVars, threadVars, mainVars
<1>12. QED
  BY <1>3, <1>4, <1>5, <1>6, <1>7, <1>8, <1>9, <1>10, <1>11 DEF SensorsNext, Thread, Main

-----------------------------------------------------------------------------
(* The types: in particular the main thread only ever watches roots, though*)
(* it works from a copy of what another thread shares (main.py:194-212).   *)
THEOREM SensorsTypeCorrect == SensorsSpec => []SensorsTypeOK
<1>1. Typed => SensorsTypeOK
  BY DEF Typed
<1>2. QED
  BY <1>1, TypedInit, TypedNext, PTL DEF SensorsSpec

(* The first snapshot and the reported comings and goings give the snapshot*)
(* compared last, whichever snapshots raised in between (base.py:135-153). *)
THEOREM ReportsAdded == SensorsSpec => []ReportsAddUp
<1>1. Counting => ReportsAddUp
  BY DEF Counting
<1>2. QED
  BY <1>1, TypedInit, TypedNext, CountingInit, CountingNext, PTL DEF SensorsSpec

(* As soon as anything was reported, what the file collector takes for     *)
(* removable is what the reports add up to (usb_collector.py:126): no      *)
(* report is out before the shared copy is replaced, and no failed or late *)
(* snapshot parts the two.                                                 *)
THEOREM SharedCopyIsReported == SensorsSpec => []KnownIsLive
<1>1. Counting => KnownIsLive
  BY DEF Counting
<1>2. QED
  BY <1>1, TypedInit, TypedNext, CountingInit, CountingNext, PTL DEF SensorsSpec

(* What the reports add up to, per key: it came and went in turn, so the   *)
(* two counts never differ by more than one, and a key that was not there  *)
(* at first comes before it goes (base.py:135-153).                        *)
Alternating ==
    \A k \in Keys :
        /\ k \notin base => offs[k] <= ons[k] /\ ons[k] <= offs[k] + 1
        /\ k \in base => ons[k] <= offs[k] /\ offs[k] <= ons[k] + 1

(* Reports of each drive and session alternate (base.py:135-153).          *)
THEOREM ReportsAlternate == SensorsSpec => []Alternating
<1>1. Typed /\ Counting => Alternating
  <2> SUFFICES ASSUME Typed, Counting, NEW k \in Keys
               PROVE  /\ k \notin base => offs[k] <= ons[k] /\ ons[k] <= offs[k] + 1
                      /\ k \in base => ons[k] <= offs[k] /\ offs[k] <= ons[k] + 1
    BY DEF Alternating
  <2>1. ons[k] \in Nat /\ offs[k] \in Nat
    BY DEF Typed, SensorsShape
  <2>2. CASE previous.taken
    <3>1. (IF k \in base THEN 1 ELSE 0) + ons[k]
              = (IF k \in previous.keys THEN 1 ELSE 0) + offs[k]
      BY <2>2 DEF Counting, ReportsAddUp
    <3>2. QED
      BY <2>1, <3>1
  <2>3. CASE ~previous.taken
    BY <2>1, <2>3 DEF Counting, Silent
  <2>4. QED
    BY <2>2, <2>3
<1>2. QED
  BY <1>1, TypedInit, TypedNext, CountingInit, CountingNext, PTL DEF SensorsSpec
=============================================================================
