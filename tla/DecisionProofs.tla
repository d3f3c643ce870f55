--------------------------- MODULE DecisionProofs ---------------------------
(***************************************************************************)
(* The properties of Judgement and QLearning, proved for every set of      *)
(* paths, sizes, policies and thresholds, every model and learning rate,   *)
(* and any number of batches, verdicts and failures.                       *)
(*                                                                         *)
(* The arguments.  Judgement: that a window is the aggregate of its rows   *)
(* takes an induction over the batch, for which Induction derives what is  *)
(* needed from the order of the naturals and FoldSteps what the fold of    *)
(* the batch goes through.  The other three look at the verdict, which is  *)
(* not inductive: Grounded says which window, no larger than the present   *)
(* one, it was given for.                                                  *)
(*                                                                         *)
(* QLearning: a value stays in the rewards' range because an update ends   *)
(* between the old value and the reward (Taught).  Confirming says what    *)
(* the first of a confirmation's two updates may have lost and the second  *)
(* will win back, which needs that an alert is never worth more than one   *)
(* half (Modest).  Converging counts verdicts against floors, in the row   *)
(* as it stands and in the copy an update in progress will write.          *)
(***************************************************************************)
EXTENDS Judgement, QLearning, WellFoundedInduction, FiniteSetTheorems, TLAPS

(* The order of the naturals, as the library's well-foundedness theorem    *)
(* wants it.                                                               *)
Less == {ss \in Nat \X Nat : ss[1] < ss[2]}

(* Induction over sets of naturals.                                        *)
LEMMA Induction ==
    ASSUME NEW S, 0 \in S, \A n \in Nat : n \in S => n + 1 \in S
    PROVE  Nat \subseteq S
<1> SUFFICES ASSUME Nat \ S # {}
             PROVE  FALSE
  OBVIOUS
<1> DEFINE T == Nat \ S
<1>1. IsWellFoundedOn(Less, Nat)
  BY NatLessThanWellFounded DEF Less, OpToRel
<1>2. \E x \in T : \A y \in T : <<y, x>> \notin Less
  <2>1. T \subseteq Nat /\ T # {}
    OBVIOUS
  <2> HIDE DEF T, Less
  <2>2. QED
    BY <1>1, <2>1, WFMin
<1>3. PICK x \in T : \A y \in T : <<y, x>> \notin Less
  BY <1>2
<1>4. \A y \in T : ~(y < x)
  <2> SUFFICES ASSUME NEW y \in T, y < x
               PROVE  FALSE
    OBVIOUS
  <2>1. <<y, x>> \in Less
    BY DEF Less
  <2>2. QED
    BY <1>3, <2>1
<1>5. x # 0 /\ x - 1 \in Nat
  OBVIOUS
<1>6. x - 1 \in S
  BY <1>4, <1>5
<1>7. QED
  BY <1>5, <1>6

(* g computes the fold of s from base over every set of indices up to n.   *)
Folds(g, base, s, n) ==
    g = [t \in SUBSET (1 .. n) |->
           IF t = {} THEN base ELSE Together(g[t \ {Max(t)}], s[Max(t)])]

(* The largest index, which MapThenFoldSet of the community modules takes  *)
(* first.                                                                  *)
LEMMA MaxIs ==
    ASSUME NEW n \in Nat, NEW t \in SUBSET (1 .. n + 1), n + 1 \in t
    PROVE  Max(t) = n + 1
<1>1. \A y \in t : n + 1 >= y
  OBVIOUS
<1>2. \A x \in t : (\A y \in t : x >= y) => x = n + 1
  BY <1>1
<1>3. QED
  BY <1>1, <1>2 DEF Max

(* A function that computes the folds up to n extends to n + 1, so there   *)
(* is one for every n.                                                     *)
LEMMA FoldExtends ==
    ASSUME NEW base, NEW s, NEW n \in Nat, NEW g, Folds(g, base, s, n)
    PROVE  \E h : Folds(h, base, s, n + 1)
<1> DEFINE h == [t \in SUBSET (1 .. n + 1) |->
                   IF n + 1 \in t THEN Together(g[t \ {n + 1}], s[n + 1]) ELSE g[t]]
<1>1. \A t \in SUBSET (1 .. n) :
        g[t] = IF t = {} THEN base ELSE Together(g[t \ {Max(t)}], s[Max(t)])
  <2> HIDE DEF Together
  <2>1. QED
    BY DEF Folds
<1>2. \A t \in SUBSET (1 .. n + 1) :
        h[t] = IF t = {} THEN base ELSE Together(h[t \ {Max(t)}], s[Max(t)])
  <2> SUFFICES ASSUME NEW t \in SUBSET (1 .. n + 1)
               PROVE  h[t] = IF t = {} THEN base ELSE Together(h[t \ {Max(t)}], s[Max(t)])
    OBVIOUS
  <2>1. CASE n + 1 \in t
    <3>1. Max(t) = n + 1
      BY <2>1, MaxIs
    <3>2. t \ {n + 1} \in SUBSET (1 .. n + 1) /\ n + 1 \notin t \ {n + 1}
      OBVIOUS
    <3>3. h[t \ {n + 1}] = g[t \ {n + 1}]
      BY <3>2
    <3>4. h[t] = Together(g[t \ {n + 1}], s[n + 1])
      BY <2>1
    <3>5. QED
      BY <2>1, <3>1, <3>3, <3>4
  <2>2. CASE n + 1 \notin t
    <3>1. t \in SUBSET (1 .. n)
      BY <2>2
    <3>2. t \ {Max(t)} \in SUBSET (1 .. n + 1) /\ n + 1 \notin t \ {Max(t)}
      BY <2>2
    <3>3. h[t] = g[t] /\ h[t \ {Max(t)}] = g[t \ {Max(t)}]
      BY <2>2, <3>2
    <3>4. QED
      BY <1>1, <3>1, <3>3
  <2>3. QED
    BY <2>1, <2>2
<1>3. h = [t \in SUBSET (1 .. n + 1) |-> h[t]]
  OBVIOUS
<1> HIDE DEF h
<1>4. Folds(h, base, s, n + 1)
  BY <1>2, <1>3, Zenon DEF Folds
<1>5. QED
  BY <1>4

LEMMA FoldExists ==
    ASSUME NEW base, NEW s
    PROVE  \A n \in Nat : \E g : Folds(g, base, s, n)
<1> DEFINE S == {n \in Nat : \E g : Folds(g, base, s, n)}
<1>1. 0 \in S
  <2> DEFINE g == [t \in SUBSET (1 .. 0) |-> base]
  <2>1. \A t \in SUBSET (1 .. 0) : t = {}
    OBVIOUS
  <2>2. g = [t \in SUBSET (1 .. 0) |->
               IF t = {} THEN base ELSE Together(g[t \ {Max(t)}], s[Max(t)])]
    BY <2>1
  <2>3. QED
    BY <2>2 DEF Folds
<1>2. \A n \in Nat : n \in S => n + 1 \in S
  BY FoldExtends
<1> HIDE DEF S
<1>3. Nat \subseteq S
  BY <1>1, <1>2, Induction
<1>4. QED
  BY <1>3 DEF S

(* h passes through the sums of base and ever more elements of s.          *)
Run(h, base, s, n) ==
    h[0] = base /\ \A k \in 1 .. n : h[k] = Together(h[k - 1], s[k])

(* What the loop over a batch computes (RollingFeatureStore.update,        *)
(* vigil/features.py:122-146): each element is added to what came before.  *)
LEMMA FoldSteps ==
    ASSUME NEW base, NEW s, NEW n \in Nat, DOMAIN s = 1 .. n
    PROVE  \E h : Run(h, base, s, n) /\ FoldLeft(Together, base, s) = h[n]
<1> DEFINE P(g) == g = [t \in SUBSET (1 .. n) |->
                          IF t = {} THEN base ELSE Together(g[t \ {Max(t)}], s[Max(t)])]
           c == CHOOSE g : P(g)
           h == [k \in 0 .. n |-> c[1 .. k]]
<1>1. FoldLeft(Together, base, s) = c[1 .. n]
  <2> HIDE DEF Together
  <2>1. QED
    BY Zenon DEF FoldLeft, MapThenFoldSet
<1>2. P(c)
  <2>1. \E g : Folds(g, base, s, n)
    BY FoldExists
  <2>2. \E g : P(g)
    <3> HIDE DEF Together
    <3>1. QED
      BY <2>1, Zenon DEF Folds
  <2> HIDE DEF P
  <2>3. QED
    BY <2>2, Zenon
<1> HIDE DEF c
<1>3. \A t \in SUBSET (1 .. n) :
        c[t] = IF t = {} THEN base ELSE Together(c[t \ {Max(t)}], s[Max(t)])
  <2> HIDE DEF Together
  <2>1. QED
    BY <1>2
<1>4. h[0] = base
  <2>1. 1 .. 0 = {} /\ {} \in SUBSET (1 .. n)
    OBVIOUS
  <2>2. c[{}] = base
    BY <1>3, <2>1, Zenon
  <2>3. h[0] = c[1 .. 0]
    OBVIOUS
  <2>4. QED
    BY <2>1, <2>2, <2>3
<1>5. ASSUME NEW k \in 1 .. n
      PROVE  h[k] = Together(h[k - 1], s[k])
  <2>1. Max(1 .. k) = k
    <3>1. PICK m \in Nat : m + 1 = k
      BY k - 1 \in Nat
    <3>2. 1 .. m + 1 \in SUBSET (1 .. m + 1) /\ m + 1 \in 1 .. m + 1
      BY <3>1
    <3>3. QED
      BY <3>1, <3>2, MaxIs
  <2>2. 1 .. k \in SUBSET (1 .. n) /\ 1 .. k # {} /\ (1 .. k) \ {k} = 1 .. k - 1
    OBVIOUS
  <2>3. c[1 .. k] = Together(c[(1 .. k) \ {Max(1 .. k)}], s[Max(1 .. k)])
    <3> HIDE DEF Together
    <3>1. QED
      BY <1>3, <2>2, Zenon
  <2>4. h[k] = c[1 .. k] /\ h[k - 1] = c[1 .. k - 1]
    OBVIOUS
  <2>5. QED
    BY <2>1, <2>2, <2>3, <2>4
<1> HIDE DEF h
<1>6. h[n] = c[1 .. n]
  BY DEF h
<1>7. Run(h, base, s, n)
  BY <1>4, <1>5 DEF Run
<1>8. QED
  BY <1>1, <1>6, <1>7

-----------------------------------------------------------------------------
(* A window's counters, and the rows enrich makes of events.               *)
Fields == {"logons", "connects", "disconnects", "files", "bytes", "sensitive",
           "removable", "deletes"}
Counts == [Fields -> Nat]
FileRow == [kind : {"write", "delete"}, size : Nat, sensitive : BOOLEAN,
            removable : BOOLEAN]
Row == Activity \cup FileRow

AtMost(w, v) == \A f \in Fields : w[f] <= v[f]

(* What one row adds to each counter (_contribution,                       *)
(* vigil/features.py:62-79).                                               *)
LEMMA IncrementTyped ==
    ASSUME NEW e \in Row
    PROVE  /\ Increment(e) \in Counts
           /\ Increment(e).logons = One(e.kind \in {"logon"})
           /\ Increment(e).connects = One(e.kind \in {"connect"})
           /\ Increment(e).disconnects = One(e.kind \in {"disconnect"})
           /\ Increment(e).files = One(e.kind \in {"write", "delete"})
           /\ Increment(e).bytes = IF e.kind \in {"write", "delete"} THEN e.size ELSE 0
<1>1. DOMAIN EmptyWindow = Fields
  BY DEF EmptyWindow, Fields
<1>2. /\ One(e.kind = "logon") \in Nat /\  One(e.kind = "connect") \in Nat
      /\ One(e.kind = "disconnect") \in Nat /\ One(IsFile(e)) \in Nat
      /\ (IF IsFile(e) THEN e.size ELSE 0) \in Nat /\ One(IsFile(e) /\ e.sensitive) \in Nat
      /\ One(IsFile(e) /\ e.removable) \in Nat /\ One(e.kind = "delete") \in Nat
  BY DEF One, IsFile, Row, Activity, FileRow
<1>3. /\ \A f \in Fields : Increment(e)[f] \in Nat
      /\ Increment(e) = [f \in Fields |-> Increment(e)[f]]
  BY <1>1, <1>2 DEF Increment, Contribution, Extras, Fields
<1>4. Increment(e) \in Counts
  BY <1>3 DEF Counts
<1>5. QED
  BY <1>1, <1>4 DEF Increment, Contribution, Extras, Fields, One, IsFile

LEMMA TogetherTyped ==
    ASSUME NEW w \in Counts, NEW c \in Counts
    PROVE  /\ Together(w, c) \in Counts
           /\ AtMost(w, Together(w, c))
           /\ \A f \in Fields : Together(w, c)[f] = w[f] + c[f]
  BY DEF Counts, Together, AtMost

(* Counting a batch leads through windows that only grow.                  *)
LEMMA CountedTyped ==
    ASSUME window \in Counts, NEW n \in Nat, NEW s \in [1 .. n -> Counts]
    PROVE  \E h : /\ h \in [0 .. n -> Counts]
                  /\ h[0] = window
                  /\ Counted(s) = h[n]
                  /\ \A k \in 1 .. n : \A f \in Fields : h[k][f] = h[k - 1][f] + s[k][f]
                  /\ \A k \in 0 .. n : AtMost(window, h[k])
<1>1. PICK h : Run(h, window, s, n) /\ Counted(s) = h[n]
  <2>1. DOMAIN s = 1 .. n
    OBVIOUS
  <2>2. QED
    BY <2>1, FoldSteps, Zenon DEF Counted
<1> DEFINE S == {k \in Nat : k \in 0 .. n => h[k] \in Counts /\ AtMost(window, h[k])}
<1>2. 0 \in S
  BY <1>1 DEF AtMost, Counts, Run
<1>3. ASSUME NEW k \in Nat, k \in S
      PROVE  k + 1 \in S
  <2> SUFFICES ASSUME k + 1 \in 0 .. n
               PROVE  h[k + 1] \in Counts /\ AtMost(window, h[k + 1])
    OBVIOUS
  <2>1. k \in 0 .. n /\ k + 1 \in 1 .. n /\ (k + 1) - 1 = k
    OBVIOUS
  <2>2. h[k] \in Counts /\ AtMost(window, h[k])
    BY <1>3, <2>1
  <2>3. h[k + 1] = Together(h[k], s[k + 1]) /\ s[k + 1] \in Counts
    BY <1>1, <2>1 DEF Run
  <2>4. h[k + 1] \in Counts /\ AtMost(h[k], h[k + 1])
    BY <2>2, <2>3, TogetherTyped
  <2>5. QED
    BY <2>2, <2>4 DEF AtMost, Counts
<1> HIDE DEF S
<1>4. Nat \subseteq S
  BY <1>2, <1>3, Induction
<1>5. \A k \in 0 .. n : h[k] \in Counts /\ AtMost(window, h[k])
  BY <1>4 DEF S
<1>6. \A k \in 1 .. n : \A f \in Fields : h[k][f] = h[k - 1][f] + s[k][f]
  <2> SUFFICES ASSUME NEW k \in 1 .. n
               PROVE  \A f \in Fields : h[k][f] = h[k - 1][f] + s[k][f]
    OBVIOUS
  <2>1. k - 1 \in 0 .. n /\ h[k - 1] \in Counts /\ s[k] \in Counts
    BY <1>5
  <2>2. QED
    BY <1>1, <2>1, TogetherTyped DEF Run
<1> DEFINE g == [k \in 0 .. n |-> h[k]]
<1>7. g \in [0 .. n -> Counts] /\ g[0] = window /\ Counted(s) = g[n]
  BY <1>1, <1>5 DEF Run
<1>8. \A k \in 1 .. n : \A f \in Fields : g[k][f] = g[k - 1][f] + s[k][f]
  BY <1>6
<1>9. \A k \in 0 .. n : AtMost(window, g[k])
  BY <1>5
<1> HIDE DEF g
<1>10. QED
  BY <1>7, <1>8, <1>9

-----------------------------------------------------------------------------
Begun == [batches : Nat, policies : Nat, faults : Nat]

Typed == /\ window \in Counts
         /\ rows \in Seq(Row)
         /\ since \in 0 .. Len(rows)
         /\ policy \in Policy
         /\ stored = policy
         /\ begun \in Begun

(* What enrich stores (TriggerStage.enrich): a typed row, whatever the     *)
(* policy.                                                                 *)
LEMMA EnrichTyped ==
    ASSUME NEW e \in Event
    PROVE  Enrich(e) \in Row
<1>1. CASE e \in Activity
  <2>1. ~IsFile(e)
    BY <1>1 DEF Activity, IsFile
  <2>2. QED
    BY <1>1, <2>1 DEF Enrich, Row
<1>2. CASE e \in FileEvent
  <2>1. e.kind \in {"write", "delete"} /\ e.size \in Nat /\ e.removable \in BOOLEAN
    BY <1>2, JudgementAssumption DEF FileEvent
  <2>2. Enrich(e) \in FileRow
    BY <2>1 DEF Enrich, IsFile, FileRow
  <2>3. QED
    BY <2>2 DEF Row
<1>3. QED
  BY <1>1, <1>2 DEF Event

LEMMA Concatenated ==
    ASSUME NEW S, NEW s \in Seq(S), NEW t \in Seq(S)
    PROVE  /\ s \o t \in Seq(S) /\ Len(s \o t) = Len(s) + Len(t)
           /\ \A i \in 1 .. Len(s) : (s \o t)[i] = s[i]
           /\ \A i \in 1 .. Len(t) : (s \o t)[Len(s) + i] = t[i]
  OBVIOUS

(* A step that adds n rows and leads the window through h.                 *)
Adds(n, h) ==
    /\ n \in Nat \ {0}
    /\ rows' \in Seq(Row) /\ Len(rows') = Len(rows) + n
    /\ \A i \in 1 .. Len(rows) : rows'[i] = rows[i]
    /\ h \in [0 .. n -> Counts] /\ h[0] = window /\ h[n] = window'
    /\ \A k \in 1 .. n : \A f \in Fields :
           h[k][f] = h[k - 1][f] + Increment(rows'[Len(rows) + k])[f]
    /\ AtMost(window, window')

(* TriggerStage.process stores what it counts, in order.                   *)
LEMMA TriggerAdds ==
    ASSUME Typed, NEW batch \in Batch, Trigger(batch)
    PROVE  \E n, h : Adds(n, h)
<1>1. PICK n \in 1 .. MaxBatch : batch \in [1 .. n -> Event]
  BY DEF Batch
<1>2. n \in Nat \ {0}
  BY JudgementAssumption
<1> DEFINE enriched == [i \in DOMAIN batch |-> Enrich(batch[i])]
           s == [i \in DOMAIN batch |-> Increment(enriched[i])]
<1>3. enriched \in [1 .. n -> Row] /\ DOMAIN batch = 1 .. n
  BY <1>1, EnrichTyped
<1>4. rows' = rows \o enriched /\ window' = Counted(s)
  BY DEF Trigger
<1> HIDE DEF enriched
<1>5. enriched \in Seq(Row) /\ Len(enriched) = n
  BY <1>2, <1>3
<1>6. s \in [1 .. n -> Counts]
  BY <1>3, IncrementTyped
<1>7. s = [i \in 1 .. n |-> Increment(enriched[i])]
  BY <1>3
<1> HIDE DEF s
<1>8. PICK h : /\ h \in [0 .. n -> Counts]
               /\ h[0] = window
               /\ Counted(s) = h[n]
               /\ \A k \in 1 .. n : \A f \in Fields : h[k][f] = h[k - 1][f] + s[k][f]
               /\ \A k \in 0 .. n : AtMost(window, h[k])
  <2>1. n \in Nat /\ window \in Counts
    BY <1>2 DEF Typed
  <2>2. QED
    BY <1>6, <2>1, CountedTyped, Zenon
<1>9. /\ rows' \in Seq(Row) /\ Len(rows') = Len(rows) + n
      /\ \A i \in 1 .. Len(rows) : rows'[i] = rows[i]
      /\ \A i \in 1 .. n : rows'[Len(rows) + i] = enriched[i]
  <2>1. rows \in Seq(Row) /\ enriched \in Seq(Row) /\ rows' = rows \o enriched
    BY <1>4, <1>5 DEF Typed
  <2>2. /\ rows' \in Seq(Row) /\ Len(rows') = Len(rows) + Len(enriched)
        /\ \A i \in 1 .. Len(rows) : rows'[i] = rows[i]
        /\ \A i \in 1 .. Len(enriched) : rows'[Len(rows) + i] = enriched[i]
    BY <2>1, Concatenated
  <2>3. QED
    BY <1>5, <2>2
<1>10. \A k \in 1 .. n : \A f \in Fields :
           h[k][f] = h[k - 1][f] + Increment(rows'[Len(rows) + k])[f]
  BY <1>7, <1>8, <1>9
<1>11. AtMost(window, window') /\ h[n] = window'
  BY <1>2, <1>4, <1>8
<1>12. QED
  BY <1>2, <1>8, <1>9, <1>10, <1>11 DEF Adds

LEMMA TypedInit ==
    ASSUME Init
    PROVE  Typed
<1>1. EmptyWindow \in Counts
  BY DEF EmptyWindow, Counts, Fields
<1>2. DefaultPolicy \in Policy
  BY DEF DefaultPolicy, Policy, UsbPolicies, AfterHoursPolicies, Sensitivities, Actions
<1>3. QED
  BY <1>1, <1>2 DEF Init, Typed, Begun

LEMMA TypedNext ==
    ASSUME Typed, [Next]_vars
    PROVE  Typed'
<1>1. ASSUME NEW batch \in Batch, Trigger(batch)
      PROVE  window' \in Counts /\ rows' \in Seq(Row) /\ Len(rows) <= Len(rows')
  <2>1. PICK n, h : Adds(n, h)
    BY <1>1, TriggerAdds
  <2>2. QED
    BY <2>1 DEF Adds, Typed
<1>2. ASSUME NEW batch \in Batch, NEW raw, NEW recommended, ProcessBatch(batch, raw, recommended)
      PROVE  Typed'
  BY <1>1, <1>2 DEF ProcessBatch, Count, Typed, Begun
<1>3. ASSUME NEW batch \in Batch, RecordFails(batch)
      PROVE  Typed'
  <2>1. begun' \in Begun
    <3>1. \A b \in Begun : [b EXCEPT !.batches = @ + 1] \in Begun
      BY DEF Begun
    <3>2. \A b \in Begun : [b EXCEPT !.faults = @ + 1] \in Begun
      BY DEF Begun
    <3>3. begun \in Begun /\ begun' = [[begun EXCEPT !.batches = @ + 1] EXCEPT !.faults = @ + 1]
      BY <1>3 DEF RecordFails, Typed
    <3>4. QED
      BY <3>1, <3>2, <3>3
  <2>2. window' \in Counts /\ rows' \in Seq(Row) /\ Len(rows) <= Len(rows')
    BY <1>1, <1>3 DEF RecordFails
  <2>3. QED
    BY <1>3, <2>1, <2>2 DEF RecordFails, Typed
<1>4. ASSUME NEW p \in Policy, UpdatePolicy(p)
      PROVE  Typed'
  BY <1>4 DEF UpdatePolicy, Count, Typed, Begun
<1>5. CASE \E p \in Policies : UpdatePolicy(p)
  BY <1>4, <1>5, JudgementAssumption
<1>6. CASE ResetPolicy
  BY <1>4, <1>6
    DEF ResetPolicy, DefaultPolicy, Policy, UsbPolicies, AfterHoursPolicies, Sensitivities, Actions
<1>7. CASE Restart
  <2>1. begun' \in Begun
    BY <1>7 DEF Restart, Count, Typed, Begun
  <2>2. EmptyWindow \in Counts
    BY DEF EmptyWindow, Counts, Fields
  <2>3. QED
    BY <1>7, <2>1, <2>2 DEF Restart, Typed
<1>8. CASE UNCHANGED vars
  BY <1>8 DEF vars, Typed
<1>9. QED
  BY <1>2, <1>3, <1>5, <1>6, <1>7, <1>8 DEF Next

-----------------------------------------------------------------------------
(* The rows of some kinds, and the bytes, between two positions.           *)
OfIn(s, lo, hi, kinds) == {i \in lo + 1 .. hi : s[i].kind \in kinds}
BytesIn(s, lo, hi) ==
    UNION {{i} \X (1 .. s[i].size) : i \in OfIn(s, lo, hi, {"write", "delete"})}

Holds(w, s, lo, hi) ==
    /\ w.logons = Cardinality(OfIn(s, lo, hi, {"logon"}))
    /\ w.connects = Cardinality(OfIn(s, lo, hi, {"connect"}))
    /\ w.disconnects = Cardinality(OfIn(s, lo, hi, {"disconnect"}))
    /\ w.files = Cardinality(OfIn(s, lo, hi, {"write", "delete"}))
    /\ IsFiniteSet(BytesIn(s, lo, hi))
    /\ w.bytes = Cardinality(BytesIn(s, lo, hi))

LEMMA NoneYet ==
    ASSUME NEW s, NEW lo \in Nat
    PROVE  Holds(EmptyWindow, s, lo, lo)
<1>1. \A kinds : OfIn(s, lo, lo, kinds) = {}
  BY DEF OfIn
<1>2. BytesIn(s, lo, lo) = {}
  BY <1>1 DEF BytesIn
<1>3. QED
  BY <1>1, <1>2, FS_EmptySet DEF Holds, EmptyWindow

(* Rows stored earlier do not change.                                      *)
LEMMA SameRows ==
    ASSUME NEW s, NEW t, NEW lo \in Nat, NEW hi \in Nat, \A i \in 1 .. hi : s[i] = t[i]
    PROVE  /\ \A kinds : OfIn(s, lo, hi, kinds) = OfIn(t, lo, hi, kinds)
           /\ BytesIn(s, lo, hi) = BytesIn(t, lo, hi)
<1>1. \A i \in lo + 1 .. hi : i \in 1 .. hi /\ s[i] = t[i]
  OBVIOUS
<1>2. \A kinds : OfIn(s, lo, hi, kinds) = OfIn(t, lo, hi, kinds)
  BY <1>1 DEF OfIn
<1>3. \A i \in OfIn(t, lo, hi, {"write", "delete"}) : s[i] = t[i]
  BY <1>1 DEF OfIn
<1>4. BytesIn(s, lo, hi) = BytesIn(t, lo, hi)
  BY <1>2, <1>3 DEF BytesIn
<1>5. QED
  BY <1>2, <1>4

(* A row more is one more of its kind, and its size more bytes.            *)
LEMMA OneMore ==
    ASSUME NEW s, NEW lo \in Nat, NEW hi \in Nat, lo <= hi, NEW kinds
    PROVE  Cardinality(OfIn(s, lo, hi + 1, kinds)) =
               Cardinality(OfIn(s, lo, hi, kinds)) + One(s[hi + 1].kind \in kinds)
<1> DEFINE old == OfIn(s, lo, hi, kinds)
<1>1. IsFiniteSet(old) /\ Cardinality(old) \in Nat
  <2>1. IsFiniteSet(lo + 1 .. hi)
    BY FS_Interval
  <2>2. old \in SUBSET (lo + 1 .. hi)
    BY DEF OfIn
  <2>3. QED
    BY <2>1, <2>2, FS_Subset, FS_CardinalityType
<1>2. CASE s[hi + 1].kind \in kinds
  <2>1. OfIn(s, lo, hi + 1, kinds) = old \cup {hi + 1}
    BY <1>2 DEF OfIn
  <2>2. hi + 1 \notin old
    BY DEF OfIn
  <2>3. QED
    BY <1>1, <1>2, <2>1, <2>2, FS_AddElement DEF One
<1>3. CASE s[hi + 1].kind \notin kinds
  <2>1. OfIn(s, lo, hi + 1, kinds) = old
    BY <1>3 DEF OfIn
  <2>2. QED
    BY <1>1, <1>3, <2>1 DEF One
<1>4. QED
  BY <1>2, <1>3

LEMMA UpTo ==
    ASSUME NEW m \in Nat
    PROVE  IsFiniteSet(1 .. m) /\ Cardinality(1 .. m) = m
<1>1. IsFiniteSet(1 .. m) /\ Cardinality(1 .. m) = IF 1 > m THEN 0 ELSE m - 1 + 1
  BY FS_Interval
<1>2. QED
  BY <1>1

LEMMA BytesMore ==
    ASSUME NEW s, NEW lo \in Nat, NEW hi \in Nat, lo <= hi, s[hi + 1] \in Row,
           IsFiniteSet(BytesIn(s, lo, hi))
    PROVE  /\ IsFiniteSet(BytesIn(s, lo, hi + 1))
           /\ Cardinality(BytesIn(s, lo, hi + 1)) = Cardinality(BytesIn(s, lo, hi))
                  + (IF s[hi + 1].kind \in {"write", "delete"} THEN s[hi + 1].size ELSE 0)
<1> DEFINE old == BytesIn(s, lo, hi)
           k == hi + 1
<1>1. Cardinality(old) \in Nat
  BY FS_CardinalityType
<1>2. CASE s[k].kind \in {"write", "delete"}
  <2> DEFINE more == {k} \X (1 .. s[k].size)
  <2>1. s[k].size \in Nat
    BY <1>2 DEF Row, Activity, FileRow
  <2>2. IsFiniteSet(more) /\ Cardinality(more) = s[k].size
    <3>1. IsFiniteSet({k}) /\ Cardinality({k}) = 1
      BY FS_Singleton
    <3>2. IsFiniteSet(1 .. s[k].size) /\ Cardinality(1 .. s[k].size) = s[k].size
      BY <2>1, UpTo
    <3>3. IsFiniteSet(more) /\ Cardinality(more) = Cardinality({k}) * Cardinality(1 .. s[k].size)
      BY <3>1, <3>2, FS_Product
    <3>4. QED
      BY <2>1, <3>1, <3>2, <3>3
  <2>3. OfIn(s, lo, k, {"write", "delete"}) = OfIn(s, lo, hi, {"write", "delete"}) \cup {k}
    BY <1>2 DEF OfIn
  <2>4. BytesIn(s, lo, k) = old \cup more
    BY <2>3 DEF BytesIn
  <2>5. old \cap more = {}
    BY DEF BytesIn, OfIn
  <2>6. QED
    BY <1>1, <1>2, <2>1, <2>2, <2>4, <2>5, FS_Union, FS_EmptySet
<1>3. CASE s[k].kind \notin {"write", "delete"}
  <2>1. OfIn(s, lo, k, {"write", "delete"}) = OfIn(s, lo, hi, {"write", "delete"})
    BY <1>3 DEF OfIn
  <2>2. BytesIn(s, lo, k) = old
    BY <2>1 DEF BytesIn
  <2>3. QED
    BY <1>1, <1>3, <2>2
<1>4. QED
  BY <1>2, <1>3

(* The counters of a row more (Contribution against aggregate_frame).      *)
LEMMA HoldsMore ==
    ASSUME NEW s, NEW lo \in Nat, NEW hi \in Nat, lo <= hi, s[hi + 1] \in Row,
           NEW w \in Counts, NEW v \in Counts, Holds(w, s, lo, hi),
           \A f \in Fields : v[f] = w[f] + Increment(s[hi + 1])[f]
    PROVE  Holds(v, s, lo, hi + 1)
<1> DEFINE e == s[hi + 1]
<1>1. /\ v.logons = w.logons + One(e.kind \in {"logon"})
      /\ v.connects = w.connects + One(e.kind \in {"connect"})
      /\ v.disconnects = w.disconnects + One(e.kind \in {"disconnect"})
      /\ v.files = w.files + One(e.kind \in {"write", "delete"})
      /\ v.bytes = w.bytes + (IF e.kind \in {"write", "delete"} THEN e.size ELSE 0)
  BY IncrementTyped DEF Fields
<1>2. \A kinds : Cardinality(OfIn(s, lo, hi + 1, kinds)) =
               Cardinality(OfIn(s, lo, hi, kinds)) + One(e.kind \in kinds)
  BY OneMore
<1>3. /\ IsFiniteSet(BytesIn(s, lo, hi + 1))
      /\ Cardinality(BytesIn(s, lo, hi + 1)) = Cardinality(BytesIn(s, lo, hi))
                  + (IF e.kind \in {"write", "delete"} THEN e.size ELSE 0)
  BY BytesMore DEF Holds
<1> HIDE DEF e
<1>4. QED
  BY <1>1, <1>2, <1>3 DEF Holds

Aggregated == Holds(window, rows, since, Len(rows))

LEMMA TriggerAggregates ==
    ASSUME Typed, Aggregated, NEW batch \in Batch, Trigger(batch)
    PROVE  Holds(window', rows', since, Len(rows'))
<1>0. PICK n, h : Adds(n, h)
  BY TriggerAdds
<1>1. /\ n \in Nat \ {0}
      /\ rows' \in Seq(Row) /\ Len(rows') = Len(rows) + n
      /\ \A i \in 1 .. Len(rows) : rows'[i] = rows[i]
      /\ h \in [0 .. n -> Counts] /\ h[0] = window /\ h[n] = window'
      /\ \A k \in 1 .. n : \A f \in Fields :
             h[k][f] = h[k - 1][f] + Increment(rows'[Len(rows) + k])[f]
  BY <1>0 DEF Adds
<1> DEFINE s == rows'
           m == Len(rows)
<1>2. m \in Nat /\ since \in Nat /\ since <= m
  BY DEF Typed
<1> DEFINE S == {k \in Nat : k <= n => Holds(h[k], s, since, m + k)}
<1>3. 0 \in S
  <2>1. /\ \A kinds : OfIn(rows, since, m, kinds) = OfIn(s, since, m, kinds)
        /\ BytesIn(rows, since, m) = BytesIn(s, since, m)
    <3>1. \A i \in 1 .. m : rows[i] = s[i]
      BY <1>1
    <3> HIDE DEF m, s
    <3>2. QED
      BY <1>2, <3>1, SameRows
  <2>2. Holds(window, s, since, m)
    BY <2>1 DEF Aggregated, Holds
  <2>3. QED
    BY <1>1, <1>2, <2>2
<1>4. ASSUME NEW k \in Nat, k \in S
      PROVE  k + 1 \in S
  <2> SUFFICES ASSUME k + 1 <= n
               PROVE  Holds(h[k + 1], s, since, m + (k + 1))
    OBVIOUS
  <2>1. /\ k \in 0 .. n /\ k + 1 \in 0 .. n /\ k + 1 \in 1 .. n /\ (k + 1) - 1 = k
        /\ m + (k + 1) = (m + k) + 1 /\ m + k \in Nat /\ since <= m + k
    <3>1. n \in Nat
      BY <1>1
    <3> HIDE DEF m
    <3>2. QED
      BY <1>2, <3>1
  <2>2. h[k] \in Counts /\ h[k + 1] \in Counts
    BY <1>1, <2>1
  <2>3. Holds(h[k], s, since, m + k)
    BY <1>4, <2>1
  <2>4. s[(m + k) + 1] \in Row
    <3>1. \A i \in 1 .. Len(s) : s[i] \in Row
      BY <1>1
    <3>2. Len(s) = m + n
      BY <1>1
    <3>3. n \in Nat /\ k + 1 <= n
      BY <1>1
    <3> HIDE DEF m, s
    <3>4. (m + k) + 1 \in 1 .. m + n
      BY <1>2, <3>3
    <3>5. QED
      BY <3>1, <3>2, <3>4
  <2>5. \A f \in Fields : h[k + 1][f] = h[k][f] + Increment(s[(m + k) + 1])[f]
    BY <1>1, <2>1
  <2>6. Holds(h[k + 1], s, since, (m + k) + 1)
    BY <1>2, <2>1, <2>2, <2>3, <2>4, <2>5, HoldsMore
  <2>7. QED
    BY <2>1, <2>6
<1> HIDE DEF S
<1>5. n \in S
  BY <1>1, <1>3, <1>4, Induction
<1>6. Holds(h[n], s, since, m + n)
  BY <1>5 DEF S
<1>7. QED
  BY <1>1, <1>6

LEMMA AggregatedNext ==
    ASSUME Typed, Aggregated, [Next]_vars
    PROVE  Aggregated'
<1>1. ASSUME NEW batch \in Batch, Trigger(batch), UNCHANGED since
      PROVE  Aggregated'
  BY <1>1, TriggerAggregates DEF Aggregated
<1>2. CASE Restart
  BY <1>2, NoneYet DEF Restart, Aggregated, Typed
<1>3. ASSUME UNCHANGED <<window, rows, since>>
      PROVE  Aggregated'
  BY <1>3 DEF Aggregated
<1>4. QED
  BY <1>1, <1>2, <1>3
    DEF Next, vars, ProcessBatch, RecordFails, UpdatePolicy, ResetPolicy

(* "So training and inference can never disagree" (vigil/features.py:8):   *)
(* the window the model is shown is what aggregate_frame makes of the rows *)
(* stored since the last restart, for batches of any size, split anyhow,   *)
(* under any policies and failures (RollingFeatureStore.update,            *)
(* vigil/features.py:122-146).                                             *)
THEOREM WindowsAreAggregates == Spec => []WindowIsAggregate
<1>1. Init => Typed /\ Aggregated
  <2> SUFFICES ASSUME Init
               PROVE  Typed /\ Aggregated
    OBVIOUS
  <2>1. Len(rows) = 0 /\ since = 0 /\ window = EmptyWindow
    BY DEF Init
  <2>2. QED
    BY <2>1, TypedInit, NoneYet DEF Aggregated
<1>2. Typed /\ Aggregated /\ [Next]_vars => Typed' /\ Aggregated'
  BY TypedNext, AggregatedNext
<1>3. Aggregated => WindowIsAggregate
  <2>1. /\ \A kinds : Of(kinds) = OfIn(rows, since, Len(rows), kinds)
        /\ Bytes = BytesIn(rows, since, Len(rows))
    BY DEF Of, Bytes, Recent, OfIn, BytesIn
  <2>2. QED
    BY <2>1 DEF Aggregated, Holds, WindowIsAggregate, Aggregate
<1>4. QED
  BY <1>1, <1>2, <1>3, PTL DEF Spec

-----------------------------------------------------------------------------
(* Masking (verification.py:49-54) leaves everything but USB activity.     *)
LEMMA SeenTyped ==
    ASSUME NEW p, NEW w \in Counts
    PROVE  /\ Seen(p, w) \in Counts
           /\ UsbThreat(p) => Seen(p, w) = w
           /\ ~UsbThreat(p) => /\ Seen(p, w).connects = 0
                               /\ Seen(p, w).disconnects = 0
                               /\ \A f \in Fields \ {"connects", "disconnects", "removable"} :
                                      Seen(p, w)[f] = w[f]
           /\ Seen(p, w).files = w.files /\ Seen(p, w).bytes = w.bytes
  BY DEF Seen, MaskUsb, Counts, Fields

LEMMA SeenGrows ==
    ASSUME NEW p, NEW w \in Counts, NEW v \in Counts, AtMost(w, v)
    PROVE  AtMost(Seen(p, w), Seen(p, v))
<1>1. CASE UsbThreat(p)
  BY <1>1, SeenTyped
<1>2. CASE ~UsbThreat(p)
  <2>1. /\ Seen(p, w) = MaskUsb(w)
        /\ Seen(p, v) = MaskUsb(v)
    BY <1>2 DEF Seen
  <2>2. \A u \in Counts : \A f \in Fields : MaskUsb(u)[f] =
            IF f \in {"connects", "disconnects", "removable"} THEN 0 ELSE u[f]
    BY DEF MaskUsb, Counts, Fields
  <2>3. AtMost(MaskUsb(w), MaskUsb(v))
    BY <2>2 DEF AtMost
  <2>4. QED
    BY <2>1, <2>3
<1>3. QED
  BY <1>1, <1>2

(* fired_rules, one rule at a time.                                        *)
LEMMA Fired ==
    ASSUME NEW p, NEW w, NEW anomalous \in BOOLEAN
    PROVE  FiredRules(p, w, anomalous) =
             {r \in {"after_hours", "removable_device", "high_file_volume", "large_transfer",
                     "sensitive_path_access", "write_to_removable", "mass_delete", "ml_anomaly"} :
                 \/ r = "after_hours" /\ LateSeen(p)
                 \/ r = "removable_device" /\ Seen(p, w).connects > 0
                 \/ r = "high_file_volume" /\ Seen(p, w).files > BurstFileCount
                 \/ r = "large_transfer" /\ Seen(p, w).bytes > VolMedMax
                 \/ r = "sensitive_path_access" /\ Seen(p, w).sensitive > 0
                 \/ r = "write_to_removable" /\ Seen(p, w).removable > 0
                 \/ r = "mass_delete" /\ Seen(p, w).deletes > MassDelete
                 \/ r = "ml_anomaly" /\ anomalous}
<1> DEFINE fires == [after_hours |-> LateSeen(p),
                     removable_device |-> Seen(p, w).connects > 0,
                     high_file_volume |-> Seen(p, w).files > BurstFileCount,
                     large_transfer |-> Seen(p, w).bytes > VolMedMax,
                     sensitive_path_access |-> Seen(p, w).sensitive > 0,
                     write_to_removable |-> Seen(p, w).removable > 0,
                     mass_delete |-> Seen(p, w).deletes > MassDelete,
                     ml_anomaly |-> anomalous]
<1>1. FiredRules(p, w, anomalous) = {r \in DOMAIN fires : fires[r]}
  BY Zenon DEF FiredRules
<1>2. DOMAIN fires = {"after_hours", "removable_device", "high_file_volume", "large_transfer",
                      "sensitive_path_access", "write_to_removable", "mass_delete", "ml_anomaly"}
  OBVIOUS
<1>3. /\ fires["after_hours"] <=> LateSeen(p)
      /\ fires["removable_device"] <=> Seen(p, w).connects > 0
      /\ fires["high_file_volume"] <=> Seen(p, w).files > BurstFileCount
      /\ fires["large_transfer"] <=> Seen(p, w).bytes > VolMedMax
      /\ fires["sensitive_path_access"] <=> Seen(p, w).sensitive > 0
      /\ fires["write_to_removable"] <=> Seen(p, w).removable > 0
      /\ fires["mass_delete"] <=> Seen(p, w).deletes > MassDelete
      /\ fires["ml_anomaly"] <=> anomalous
  OBVIOUS
<1> HIDE DEF fires
<1>4. QED
  BY <1>1, <1>2, <1>3

(* More counted, no reason fewer, but for the model's opinion.             *)
LEMMA RulesGrow ==
    ASSUME NEW p, NEW w \in Counts, NEW v \in Counts, AtMost(w, v),
           NEW a \in BOOLEAN, NEW b \in BOOLEAN
    PROVE  FilterFiredRules(p, FiredRules(p, w, a)) \ {"ml_anomaly"}
             \subseteq FilterFiredRules(p, FiredRules(p, v, b))
<1> DEFINE x == Seen(p, w)
           y == Seen(p, v)
<1>1. x \in Counts /\ y \in Counts /\ AtMost(x, y)
  BY SeenTyped, SeenGrows
<1> HIDE DEF x, y
<1>2. /\ x.connects > 0 => y.connects > 0
      /\ x.files > BurstFileCount => y.files > BurstFileCount
      /\ x.bytes > VolMedMax => y.bytes > VolMedMax
      /\ x.sensitive > 0 => y.sensitive > 0
      /\ x.removable > 0 => y.removable > 0
      /\ x.deletes > MassDelete => y.deletes > MassDelete
  BY <1>1, JudgementAssumption, BucketAssumption DEF AtMost, Counts, Fields
<1>3. FiredRules(p, w, a) \ {"ml_anomaly"} \subseteq FiredRules(p, v, b)
  BY <1>2, Fired DEF x, y
<1>4. QED
  BY <1>3 DEF FilterFiredRules

(* volume_bucket grows with both its arguments (qlearning.py:126-143).     *)
LEMMA BucketGrows ==
    ASSUME NEW bytes \in Nat, NEW files \in Nat,
           NEW bytes1 \in Nat, NEW files1 \in Nat,
           bytes <= bytes1, files <= files1
    PROVE  VolumeBucket(bytes, files) <= VolumeBucket(bytes1, files1)
<1> DEFINE Bucket(n) == IF n <= 0 THEN 0
                        ELSE IF n <= VolLowMax THEN 1
                        ELSE IF n <= VolMedMax THEN 2
                        ELSE 3
<1>1. Bucket(bytes) \in 0 .. 3 /\ Bucket(bytes1) \in 0 .. 3 /\ Bucket(bytes) <= Bucket(bytes1)
  BY BucketAssumption
<1>2. \A m, n : VolumeBucket(m, n) =
        IF n > BurstFileCount /\ Bucket(m) < 3 THEN Bucket(m) + 1 ELSE Bucket(m)
  BY DEF VolumeBucket
<1> HIDE DEF Bucket
<1>3. QED
  BY <1>1, <1>2, BucketAssumption

-----------------------------------------------------------------------------
(* The judgement shown is the one of some earlier, smaller window.         *)
Grounded ==
    Judged => \E p \in Policy, w \in Counts, raw \in Int, recommended \in Actions :
                  /\ verdict = Judgement(p, w, raw, recommended)
                  /\ AtMost(w, window)

LEMMA FlaggedTyped ==
    ASSUME NEW p, NEW raw \in Int
    PROVE  Flagged(p, raw) \in BOOLEAN
<1>1. CASE p.sensitivity = "low"
  BY <1>1 DEF Flagged
<1>2. CASE p.sensitivity = "high"
  BY <1>2 DEF Flagged
<1>3. CASE p.sensitivity \notin {"low", "high"}
  <2>1. Flagged(p, raw) = (raw < Threshold)
    BY <1>3, Zenon DEF Flagged, ModelFlag
  <2>2. QED
    BY <2>1, JudgementAssumption
<1>4. QED
  BY <1>1, <1>2, <1>3

LEMMA HourStays ==
    ASSUME [Next]_vars
    PROVE  hour' = hour
  BY DEF Next, vars, ProcessBatch, RecordFails, UpdatePolicy, ResetPolicy, Restart

(* A judgement depends on no other variable than the hour, which never     *)
(* changes.                                                                *)
LEMMA JudgementStays ==
    ASSUME hour' = hour, NEW CONSTANT p, NEW CONSTANT w, NEW CONSTANT raw, NEW CONSTANT recommended
    PROVE  Judgement(p, w, raw, recommended)' = Judgement(p, w, raw, recommended)
<1>1. LateSeen(p)' = LateSeen(p)
  BY DEF LateSeen, AfterHours
<1>2. Discretize(p, w, Flagged(p, raw))' = Discretize(p, w, Flagged(p, raw))
  BY <1>1, Zenon DEF Discretize
<1>3. FiredRules(p, w, Flagged(p, raw))' = FiredRules(p, w, Flagged(p, raw))
  BY <1>1, Zenon DEF FiredRules
<1>4. QED
  BY <1>2, <1>3, Zenon DEF Judgement

LEMMA GroundedNext ==
    ASSUME Typed, Grounded, [Next]_vars
    PROVE  Grounded'
<1>1. hour' = hour
  BY HourStays
<1>2. window' \in Counts
  BY TypedNext DEF Typed
<1>3. ASSUME NEW batch \in Batch, NEW raw \in Scores, NEW recommended \in Actions,
             ProcessBatch(batch, raw, recommended)
      PROVE  Grounded'
  <2>1. PICK p \in Policy, w \in Counts : p = policy /\ w = window'
    BY <1>2 DEF Typed
  <2>2. raw \in Int /\ verdict' = Judgement(p, w, raw, recommended)
    BY <1>3, <2>1, JudgementAssumption DEF ProcessBatch
  <2>3. verdict' = Judgement(p, w, raw, recommended)'
    BY <1>1, <2>2, JudgementStays
  <2>4. AtMost(w, window')
    BY <2>1 DEF AtMost, Counts
  <2>5. QED
    BY <2>2, <2>3, <2>4 DEF Grounded
<1>4. ASSUME verdict' = verdict, AtMost(window, window')
      PROVE  Grounded'
  <2> SUFFICES ASSUME Judged
               PROVE  \E p \in Policy, w \in Counts, raw \in Int, recommended \in Actions :
                          /\ verdict' = Judgement(p, w, raw, recommended)'
                          /\ AtMost(w, window')
    BY <1>4, Zenon DEF Grounded, Judged
  <2>1. PICK p \in Policy, w \in Counts, raw \in Int, recommended \in Actions :
                  /\ verdict = Judgement(p, w, raw, recommended)
                  /\ AtMost(w, window)
    BY DEF Grounded
  <2>2. verdict' = Judgement(p, w, raw, recommended)'
    BY <1>1, <1>4, <2>1, JudgementStays
  <2>3. AtMost(w, window')
    BY <1>2, <1>4, <2>1 DEF AtMost, Counts, Typed
  <2>4. QED
    BY <2>2, <2>3
<1>5. ASSUME NEW batch \in Batch, RecordFails(batch)
      PROVE  Grounded'
  <2>1. PICK n, h : Adds(n, h)
    BY <1>5, TriggerAdds DEF RecordFails
  <2>2. QED
    BY <1>4, <1>5, <2>1 DEF RecordFails, Adds
<1>6. CASE Restart
  BY <1>6 DEF Restart, Grounded, Judged, NoVerdict
<1>7. ASSUME UNCHANGED <<window, verdict>>
      PROVE  Grounded'
  <2>1. AtMost(window, window')
    BY <1>7 DEF AtMost, Typed, Counts
  <2>2. QED
    BY <1>4, <1>7, <2>1
<1>8. QED
  BY <1>3, <1>5, <1>6, <1>7 DEF Next, vars, UpdatePolicy, ResetPolicy

LEMMA GroundedHolds ==
    Spec => [](Typed /\ Grounded)
<1>1. Init => Typed /\ Grounded
  BY TypedInit DEF Init, Grounded, Judged
<1>2. Typed /\ Grounded /\ [Next]_vars => Typed' /\ Grounded'
  BY TypedNext, GroundedNext
<1>3. QED
  BY <1>1, <1>2, PTL DEF Spec

-----------------------------------------------------------------------------
LEMMA Discretized ==
    ASSUME NEW p, NEW w, NEW anomalous
    PROVE  /\ Discretize(p, w, anomalous).usb
                <=> Seen(p, w).connects > 0 \/ Seen(p, w).disconnects > 0
           /\ Discretize(p, w, anomalous).ah <=> LateSeen(p)
           /\ Discretize(p, w, anomalous).vol = VolumeBucket(w.bytes, w.files)
<1>1. Discretize(p, w, anomalous).usb
        <=> Seen(p, w).connects > 0 \/ Seen(p, w).disconnects > 0
  BY DEF Discretize
<1>2. Discretize(p, w, anomalous).ah <=> LateSeen(p)
  BY DEF Discretize
<1>3. Discretize(p, w, anomalous).vol = VolumeBucket(w.bytes, w.files)
  BY DEF Discretize
<1>4. QED
  BY <1>1, <1>2, <1>3

LEMMA JudgementMasks ==
    ASSUME NEW p \in Policy, NEW w \in Counts, NEW raw \in Int, NEW recommended \in Actions
    PROVE  LET j == Judgement(p, w, raw, recommended)
           IN /\ j.policy = p
              /\ ~UsbThreat(p) =>
                     /\ ~j.state.usb
                     /\ j.rules \cap {"removable_device", "write_to_removable"} = {}
              /\ p.afterHours # "alert" => ~j.state.ah /\ "after_hours" \notin j.rules
<1> DEFINE j == Judgement(p, w, raw, recommended)
           a == Flagged(p, raw)
<1>1. /\ j.policy = p
      /\ j.state = Discretize(p, w, a)
      /\ j.rules = FilterFiredRules(p, FiredRules(p, w, a))
  BY DEF Judgement
<1> HIDE DEF j, a
<1>2. ASSUME ~UsbThreat(p)
      PROVE  ~j.state.usb /\ j.rules \cap {"removable_device", "write_to_removable"} = {}
  <2>1. Seen(p, w).connects = 0 /\ Seen(p, w).disconnects = 0
    BY <1>2, SeenTyped
  <2>2. ~Discretize(p, w, a).usb
    BY <2>1, Discretized
  <2>3. QED
    BY <1>1, <1>2, <2>2 DEF FilterFiredRules
<1>3. ASSUME p.afterHours # "alert"
      PROVE  ~j.state.ah /\ "after_hours" \notin j.rules
  BY <1>1, <1>3, Discretized DEF LateSeen, FilterFiredRules
<1>4. QED
  BY <1>1, <1>2, <1>3 DEF j

(* What the policy declares harmless is neither in the state that feedback *)
(* will teach nor among the reasons (verification.py:41-56,                *)
(* policy/engine.py:209-235), for every policy, model and window.          *)
THEOREM MaskedStaysSilent == Spec => []MaskedIsSilent
<1>1. ASSUME Typed, Grounded
      PROVE  MaskedIsSilent
  <2> SUFFICES ASSUME Judged
               PROVE  MaskedIsSilent
    BY DEF MaskedIsSilent
  <2>1. PICK p \in Policy, w \in Counts, raw \in Int, recommended \in Actions :
            verdict = Judgement(p, w, raw, recommended)
    BY <1>1 DEF Grounded
  <2>2. QED
    BY <2>1, JudgementMasks DEF MaskedIsSilent
<1>2. QED
  BY <1>1, GroundedHolds, PTL

-----------------------------------------------------------------------------
LEMMA JudgementGrows ==
    ASSUME NEW p \in Policy,
           NEW w \in Counts, NEW raw \in Int, NEW recommended \in Actions,
           NEW w1 \in Counts, NEW raw1 \in Int, NEW recommended1 \in Actions,
           AtMost(w, w1)
    PROVE  LET j == Judgement(p, w, raw, recommended)
               k == Judgement(p, w1, raw1, recommended1)
           IN /\ j.rules \ {"ml_anomaly"} \subseteq k.rules
              /\ j.state.vol <= k.state.vol
              /\ j.state.usb => k.state.usb
<1> DEFINE j == Judgement(p, w, raw, recommended)
           k == Judgement(p, w1, raw1, recommended1)
<1>1. /\ j.state = Discretize(p, w, Flagged(p, raw))
      /\ j.rules = FilterFiredRules(p, FiredRules(p, w, Flagged(p, raw)))
      /\ k.state = Discretize(p, w1, Flagged(p, raw1))
      /\ k.rules = FilterFiredRules(p, FiredRules(p, w1, Flagged(p, raw1)))
  BY DEF Judgement
<1> HIDE DEF j, k
<1>2. j.rules \ {"ml_anomaly"} \subseteq k.rules
  BY <1>1, FlaggedTyped, RulesGrow
<1>3. j.state.vol <= k.state.vol
  <2>1. /\ w.bytes \in Nat /\ w.files \in Nat /\ w1.bytes \in Nat /\ w1.files \in Nat
        /\ w.bytes <= w1.bytes /\ w.files <= w1.files
    BY DEF Counts, Fields, AtMost
  <2>2. VolumeBucket(w.bytes, w.files) <= VolumeBucket(w1.bytes, w1.files)
    BY <2>1, BucketGrows
  <2>3. QED
    BY <1>1, <2>2, Discretized
<1>4. j.state.usb => k.state.usb
  <2>1. AtMost(Seen(p, w), Seen(p, w1)) /\ Seen(p, w) \in Counts /\ Seen(p, w1) \in Counts
    BY SeenGrows, SeenTyped
  <2>2. Discretize(p, w, Flagged(p, raw)).usb => Discretize(p, w1, Flagged(p, raw1)).usb
    BY <2>1, Discretized DEF AtMost, Counts, Fields
  <2>3. QED
    BY <1>1, <2>2
<1>5. QED
  BY <1>2, <1>3, <1>4 DEF j, k

(* While the policy stays, a window's reasons, volume bucket and USB bit   *)
(* never go away (qlearning.py fired_rules and volume_bucket), whatever    *)
(* batches come and fail.                                                  *)
THEOREM ReasonsOnlyAccumulate == Spec => ReasonsAccumulate
<1> DEFINE Kept == Judged /\ Judged' /\ verdict.policy = verdict'.policy =>
                     /\ verdict.rules \ {"ml_anomaly"} \subseteq verdict'.rules
                     /\ verdict.state.vol <= verdict'.state.vol
                     /\ verdict.state.usb => verdict'.state.usb
<1>1. Typed /\ Grounded /\ [Next]_vars => [Kept]_vars
  <2> SUFFICES ASSUME Typed, Grounded, Next, Judged, Judged', verdict.policy = verdict'.policy
               PROVE  /\ verdict.rules \ {"ml_anomaly"} \subseteq verdict'.rules
                      /\ verdict.state.vol <= verdict'.state.vol
                      /\ verdict.state.usb => verdict'.state.usb
    OBVIOUS
  <2>1. PICK p \in Policy, w \in Counts, raw \in Int, recommended \in Actions :
            verdict = Judgement(p, w, raw, recommended) /\ AtMost(w, window)
    BY DEF Grounded
  <2>2. CASE verdict' = verdict
    <3>1. AtMost(w, w)
      BY DEF AtMost, Counts
    <3>2. QED
      BY <2>1, <2>2, <3>1, JudgementGrows
  <2>3. ASSUME NEW batch \in Batch, NEW raw1 \in Scores, NEW recommended1 \in Actions,
               ProcessBatch(batch, raw1, recommended1)
        PROVE  /\ verdict.rules \ {"ml_anomaly"} \subseteq verdict'.rules
               /\ verdict.state.vol <= verdict'.state.vol
               /\ verdict.state.usb => verdict'.state.usb
    <3>1. PICK n, h : Adds(n, h)
      BY <2>3, TriggerAdds DEF ProcessBatch
    <3>2. PICK v \in Counts : v = window'
      BY <3>1 DEF Adds
    <3>3. AtMost(w, v)
      BY <2>1, <3>1, <3>2 DEF Adds, AtMost, Counts, Typed
    <3>4. verdict' = Judgement(policy, v, raw1, recommended1) /\ raw1 \in Int /\ policy \in Policy
      BY <2>3, <3>2, JudgementAssumption DEF ProcessBatch, Typed
    <3>5. policy = p
      BY <2>1, <3>4 DEF Judgement
    <3>6. QED
      BY <2>1, <3>3, <3>4, <3>5, JudgementGrows
  <2>4. CASE Restart
    BY <2>4 DEF Restart, Judged
  <2>5. QED
    BY <2>2, <2>3, <2>4 DEF Next, RecordFails, UpdatePolicy, ResetPolicy
<1>2. QED
  BY <1>1, GroundedHolds, PTL DEF Spec, ReasonsAccumulate

-----------------------------------------------------------------------------
LEMMA EnforcedRank ==
    ASSUME NEW p \in Policy, NEW recommended \in Actions, NEW usb \in BOOLEAN
    PROVE  /\ p.cap \in Actions => Rank(EnforceAction(p, recommended, usb)) <= Rank(p.cap)
           /\ p.usb = "blocked" /\ usb => Rank(EnforceAction(p, recommended, usb)) = Rank(p.cap)
<1>1. \A x \in Actions \cup {"OTHER"} : Rank(x) \in 0 .. 2
  BY DEF Rank, Actions
<1>2. /\ p.cap \in Actions \cup {"OTHER"}
      /\ Rank("BLOCK") = 2
      /\ recommended \in Actions /\ "BLOCK" \in Actions
  BY DEF Policy, Rank, Actions
<1>3. QED
  BY <1>1, <1>2 DEF EnforceAction

(* No judgement goes beyond the cap of the policy on record, no directive  *)
(* is sent without its auto_containment and a BLOCK on record, and blocked *)
(* USB activity gets what the cap allows (policy/engine.py:250-264,        *)
(* pipeline/response.py:167-194).                                          *)
THEOREM NeverBeyondPolicy == Spec => WithinPolicy
<1> DEFINE Within == rows' # rows /\ begun'.faults = begun.faults =>
          /\ stored.cap \in Actions => Rank(verdict'.action) <= Rank(stored.cap)
          /\ verdict'.directive =>
                stored.auto /\ verdict'.action = "BLOCK" /\ verdict'.recorded
          /\ stored.usb = "blocked" /\ window'.connects + window'.disconnects > 0 =>
                Rank(verdict'.action) = Rank(stored.cap)
<1>1. Typed /\ Grounded /\ [Next]_vars => [Within]_vars
  <2> SUFFICES ASSUME Typed, Next, rows' # rows, begun'.faults = begun.faults
               PROVE  /\ stored.cap \in Actions => Rank(verdict'.action) <= Rank(stored.cap)
                      /\ verdict'.directive =>
                            stored.auto /\ verdict'.action = "BLOCK" /\ verdict'.recorded
                      /\ stored.usb = "blocked" /\ window'.connects + window'.disconnects > 0 =>
                            Rank(verdict'.action) = Rank(stored.cap)
    OBVIOUS
  <2>1. PICK batch \in Batch, raw \in Scores, recommended \in Actions :
            ProcessBatch(batch, raw, recommended)
    <3>1. ASSUME NEW batch \in Batch, RecordFails(batch)
          PROVE  FALSE
      <4>1. begun \in Begun /\ begun'.faults = begun.faults + 1
        BY <3>1 DEF RecordFails, Typed, Begun
      <4>2. begun.faults \in Nat
        BY <4>1 DEF Begun
      <4>3. QED
        BY <4>1, <4>2
    <3>2. QED
      BY <3>1 DEF Next, UpdatePolicy, ResetPolicy, Restart
  <2>2. PICK v \in Counts : v = window'
    BY <2>1, TypedNext DEF Typed
  <2>3. PICK p \in Policy : p = policy /\ p = stored
    BY DEF Typed
  <2> DEFINE usb == v.connects > 0 \/ v.disconnects > 0
             action == EnforceAction(p, recommended, usb)
  <2>4. /\ verdict'.action = action
        /\ verdict'.directive = Directed(p, action)
        /\ verdict'.recorded = ShouldRecord(Flagged(p, raw), action)
    BY <2>1, <2>2, <2>3 DEF ProcessBatch, Judgement
  <2>5. v.connects \in Nat /\ v.disconnects \in Nat
    BY DEF Counts, Fields
  <2> HIDE DEF action
  <2>6. /\ p.cap \in Actions => Rank(action) <= Rank(p.cap)
        /\ p.usb = "blocked" /\ usb => Rank(action) = Rank(p.cap)
    BY EnforcedRank DEF action
  <2>7. verdict'.directive => p.auto /\ action = "BLOCK" /\ verdict'.recorded
    BY <2>4 DEF Directed, ShouldRecord
  <2>8. QED
    BY <2>2, <2>3, <2>4, <2>5, <2>6, <2>7
<1>2. QED
  BY <1>1, GroundedHolds, PTL DEF Spec, WithinPolicy

-----------------------------------------------------------------------------
(* Scale in the unit of the prior's four decimals, so that no proof        *)
(* multiplies out the large numbers.                                       *)
Grain == 10000

LEMMA Units ==
    /\ Grain \in Nat \ {0}
    /\ Scale = 10000 * Grain
    /\ Scale \div 10000 = Grain
    /\ Scale \div 2 = 5000 * Grain
    /\ (3 * Scale) \div 10 = 3000 * Grain
  BY SMTT(20) DEF Scale, Grain

(* update's move (qlearning.py:365-370) stays between the old value and    *)
(* the reward, and keeps a gap of ten units between two values whose       *)
(* rewards are ordered.                                                    *)
LEMMA TowardBetween ==
    ASSUME NEW low \in Int, NEW high \in Int,
           NEW old \in low .. high, NEW reward \in low .. high
    PROVE  TowardReward(old, reward) \in low .. high
  BY LearningAssumption DEF TowardReward

LEMMA TowardUp ==
    ASSUME NEW old \in Int, NEW reward \in Int, old <= reward
    PROVE  TowardReward(old, reward) \in old .. reward
  BY LearningAssumption DEF TowardReward

LEMMA TowardDown ==
    ASSUME NEW old \in Int, NEW reward \in Int, reward <= old
    PROVE  TowardReward(old, reward) \in reward .. old
  BY LearningAssumption DEF TowardReward

LEMMA TowardGap ==
    ASSUME NEW old \in Int, NEW reward \in Int, NEW old1 \in Int, NEW reward1 \in Int,
           old <= old1, reward + 10 <= reward1
    PROVE  TowardReward(old, reward) < TowardReward(old1, reward1)
<1>1. (10 - AlphaTenths) * old <= (10 - AlphaTenths) * old1
  BY LearningAssumption
<1>2. AlphaTenths * reward + 10 <= AlphaTenths * reward1
  BY LearningAssumption
<1>3. /\ (10 - AlphaTenths) * old \in Int /\ (10 - AlphaTenths) * old1 \in Int
      /\ AlphaTenths * reward \in Int /\ AlphaTenths * reward1 \in Int
  BY LearningAssumption
<1>4. \A x, y, u, v \in Int : x <= y /\ u + 10 <= v => (x + u) \div 10 < (y + v) \div 10
  OBVIOUS
<1>5. QED
  BY <1>1, <1>2, <1>3, <1>4 DEF TowardReward

States == [ah : {0, 1}, usb : {0, 1}, vol : 0 .. 3, anom : {0, 1}]

(* discretize yields one of the 32 states (qlearning.py:146-173), whatever *)
(* the thresholds.                                                         *)
LEMMA StateTyped ==
    ASSUME features \in Windows
    PROVE  State \in States
  BY DEF State, VolumeBucket, Windows, States

(* greedy_action and its ties (qlearning.py:319-323).                      *)
LEMMA Greedy ==
    ASSUME NEW q \in [Actions -> Int]
    PROVE  /\ GreedyAction(q) \in Actions
           /\ \A b \in Actions : q[b] < q[GreedyAction(q)]
                  \/ (q[b] = q[GreedyAction(q)] /\ Rank(GreedyAction(q)) <= Rank(b))
<1>1. \E a \in Actions : \A b \in Actions :
        q[b] < q[a] \/ (q[b] = q[a] /\ Rank(a) <= Rank(b))
  BY DEF Actions, Rank
<1>2. QED
  BY <1>1 DEF GreedyAction

LEMMA GreedyCases ==
    ASSUME NEW q \in [Actions -> Int]
    PROVE  /\ GreedyAction(q) \in Actions
           /\ GreedyAction(q) = "DISMISS"
                <=> q["DISMISS"] >= q["ALERT"] /\ q["DISMISS"] >= q["BLOCK"]
           /\ GreedyAction(q) = "ALERT"
                <=> q["ALERT"] > q["DISMISS"] /\ q["ALERT"] >= q["BLOCK"]
           /\ GreedyAction(q) = "BLOCK"
                <=> q["BLOCK"] > q["DISMISS"] /\ q["BLOCK"] > q["ALERT"]
<1>1. PICK a \in Actions : a = GreedyAction(q) /\ \A b \in Actions :
        q[b] < q[a] \/ (q[b] = q[a] /\ Rank(a) <= Rank(b))
  BY Greedy
<1>2. QED
  BY <1>1 DEF Actions, Rank

(* The prior's three values at a risk, in units of the fourth decimal.     *)
DismissWorth(r) == Ramp(AlertAt - r, AlertAt)
AlertWorth(r) == Lesser(Ramp(r - AlertAt, AlertAt), Ramp(BlockAt - r, MaxRisk - BlockAt))
BlockWorth(r) == Ramp(r - BlockAt, MaxRisk - BlockAt)

(* The prior's three ramps: which of them is highest at a risk.            *)
LEMMA Worths ==
    ASSUME NEW r \in 0 .. 150
    PROVE  /\ DismissWorth(r) \in Int /\ AlertWorth(r) \in Int /\ BlockWorth(r) \in Int
           /\ -6000 <= DismissWorth(r) /\ DismissWorth(r) <= 6000
           /\ -6000 <= AlertWorth(r) /\ AlertWorth(r) <= 5000
           /\ -6000 <= BlockWorth(r) /\ BlockWorth(r) <= 6000
           /\ r <= 50 => DismissWorth(r) >= AlertWorth(r) /\ DismissWorth(r) >= BlockWorth(r)
           /\ r > 50 /\ r <= 108 =>
                  AlertWorth(r) > DismissWorth(r) /\ AlertWorth(r) >= BlockWorth(r)
           /\ r > 108 => BlockWorth(r) > DismissWorth(r) /\ BlockWorth(r) > AlertWorth(r)
<1> DEFINE d == Ramp(50 - r, 50)
           up == Ramp(r - 50, 50)
           down == Ramp(108 - r, 42)
           b == Ramp(r - 108, 42)
<1>0. /\ DismissWorth(r) = d
      /\ AlertWorth(r) = Lesser(up, down)
      /\ BlockWorth(r) = b
  BY DEF DismissWorth, AlertWorth, BlockWorth, AlertAt, BlockAt, MaxRisk
<1>1. Nearest(6000 * (50 - r), 50) = 120 * (50 - r) /\ Nearest(6000 * (r - 50), 50) = 120 * (r - 50)
  BY DEF Nearest
<1>4. /\ d \in Int /\ -6000 <= d /\ d <= 6000
      /\ r < 50 => d > 0
      /\ r = 50 => d = 0
      /\ r > 50 => d < 0
  BY <1>1 DEF Ramp, Clamp
<1>5. /\ up \in Int /\ -6000 <= up /\ up <= 6000
      /\ r < 50 => up < 0
      /\ r = 50 => up = 0
      /\ r > 50 => up > 0
      /\ r <= 90 => up <= 4800
  BY <1>1 DEF Ramp, Clamp
<1> DEFINE m == Nearest(6000 * (108 - r), 42)
           n == Nearest(6000 * (r - 108), 42)
<1>6. /\ m \in Int /\ 84 * m <= 12000 * (108 - r) + 42 /\ 12000 * (108 - r) + 42 < 84 * m + 84
  BY DEF Nearest
<1>7. /\ n \in Int /\ 84 * n <= 12000 * (r - 108) + 42 /\ 12000 * (r - 108) + 42 < 84 * n + 84
  BY DEF Nearest
<1>8. down = Clamp(m, 6000) /\ b = Clamp(n, 6000)
  BY DEF Ramp
<1> HIDE DEF m, n, d, up, down, b
<1>9. /\ down \in Int /\ -6000 <= down /\ down <= 6000
      /\ r <= 108 => down >= 0
      /\ r > 108 => down < 0
      /\ r > 90 => down <= 2500
  BY <1>6, <1>8 DEF Clamp
<1>10. /\ b \in Int /\ -6000 <= b /\ b <= 6000
       /\ r < 108 => b < 0
       /\ r = 108 => b = 0
       /\ r > 108 => b > 0
  BY <1>7, <1>8 DEF Clamp
<1>11. \A a : a = Lesser(up, down) =>
       /\ a \in Int /\ -6000 <= a /\ a <= 5000
       /\ r <= 50 => d >= a /\ d >= b
       /\ r > 50 /\ r <= 108 => a > d /\ a >= b
       /\ r > 108 => b > d /\ b > a
  BY <1>4, <1>5, <1>9, <1>10 DEF Lesser
<1>12. QED
  BY <1>0, <1>4, <1>10, <1>11

Valued(unit, d, l, b) ==
    [a \in Actions |-> unit * (CASE a = "DISMISS" -> d [] a = "ALERT" -> l [] a = "BLOCK" -> b)]

LEMMA PriorValues ==
    ASSUME NEW s \in States
    PROVE  /\ StateRisk(s) \in 0 .. 150
           /\ PriorQ(s) = Valued(Grain, DismissWorth(StateRisk(s)),
                                 AlertWorth(StateRisk(s)), BlockWorth(StateRisk(s)))
<1>1. StateRisk(s) \in 0 .. 150
  BY DEF StateRisk, States
<1>2. PriorQ(s) = Valued(Scale \div 10000,
                    Ramp(AlertAt - StateRisk(s), AlertAt),
                    Lesser(Ramp(StateRisk(s) - AlertAt, AlertAt),
                           Ramp(BlockAt - StateRisk(s), MaxRisk - BlockAt)),
                    Ramp(StateRisk(s) - BlockAt, MaxRisk - BlockAt))
  BY DEF PriorQ, Valued
<1>3. PriorQ(s) = Valued(Scale \div 10000, DismissWorth(StateRisk(s)),
                         AlertWorth(StateRisk(s)), BlockWorth(StateRisk(s)))
  BY <1>2 DEF DismissWorth, AlertWorth, BlockWorth
<1>4. QED
  BY <1>1, <1>3, Units

(* The prior's preference is decided by the risk alone, at 50 and 108;     *)
(* alert is never worth more than one half.                                *)
LEMMA Prior ==
    ASSUME NEW s \in States
    PROVE  /\ PriorQ(s) \in [Actions -> -6000 * Grain .. 6000 * Grain]
           /\ PriorQ(s)["ALERT"] <= 5000 * Grain
           /\ StateRisk(s) <= 50 => GreedyAction(PriorQ(s)) = "DISMISS"
           /\ StateRisk(s) > 50 /\ StateRisk(s) <= 108 => GreedyAction(PriorQ(s)) = "ALERT"
           /\ StateRisk(s) > 108 => GreedyAction(PriorQ(s)) = "BLOCK"
<1>1. PICK r \in 0 .. 150 : r = StateRisk(s)
  BY PriorValues
<1>2. PICK d \in Int, a \in Int, b \in Int :
         d = DismissWorth(r) /\ a = AlertWorth(r) /\ b = BlockWorth(r)
  <2>1. DismissWorth(r) \in Int /\ AlertWorth(r) \in Int /\ BlockWorth(r) \in Int
    BY Worths
  <2>2. QED
    BY <2>1
<1>3. /\ -6000 <= d /\ d <= 6000 /\ -6000 <= a /\ a <= 5000 /\ -6000 <= b /\ b <= 6000
      /\ r <= 50 => d >= a /\ d >= b
      /\ r > 50 /\ r <= 108 => a > d /\ a >= b
      /\ r > 108 => b > d /\ b > a
  BY <1>2, Worths
<1>4. /\ PriorQ(s)["DISMISS"] = Grain * DismissWorth(StateRisk(s))
      /\ PriorQ(s)["ALERT"] = Grain * AlertWorth(StateRisk(s))
      /\ PriorQ(s)["BLOCK"] = Grain * BlockWorth(StateRisk(s))
      /\ PriorQ(s) = [x \in Actions |-> PriorQ(s)[x]]
  BY PriorValues DEF Valued, Actions
<1>5. PICK q : q = PriorQ(s)
  OBVIOUS
<1>6. /\ q["DISMISS"] = Grain * d /\ q["ALERT"] = Grain * a /\ q["BLOCK"] = Grain * b
      /\ q \in [Actions -> Int]
  BY <1>1, <1>2, <1>4, <1>5, Units DEF Actions
<1>7. /\ d >= a <=> q["DISMISS"] >= q["ALERT"]
      /\ d >= b <=> q["DISMISS"] >= q["BLOCK"]
      /\ a >= b <=> q["ALERT"] >= q["BLOCK"]
  BY <1>6, Units
<1>8. /\ \A x \in Actions : -6000 * Grain <= q[x] /\ q[x] <= 6000 * Grain
      /\ q["ALERT"] <= 5000 * Grain
  BY <1>3, <1>6, Units DEF Actions
<1>9. /\ r <= 50 => GreedyAction(q) = "DISMISS"
      /\ r > 50 /\ r <= 108 => GreedyAction(q) = "ALERT"
      /\ r > 108 => GreedyAction(q) = "BLOCK"
  BY <1>3, <1>6, <1>7, GreedyCases DEF Actions
<1>10. q \in [Actions -> -6000 * Grain .. 6000 * Grain]
  BY <1>6, <1>8, Units
<1>11. QED
  BY <1>1, <1>5, <1>8, <1>9, <1>10

-----------------------------------------------------------------------------
(* A row in range whose alert value has not passed the reward one half     *)
(* that an alert earns at most.                                            *)
Half == Scale \div 2
Modest(r) == r \in Rows /\ r.q["ALERT"] <= Half

LEMMA RewardTyped ==
    ASSUME NEW v \in Verdicts, NEW a \in Actions
    PROVE  /\ Rewards(v, a) \in -Scale .. Scale
           /\ Rewards(v, "ALERT") <= Half
  BY Units DEF Verdicts, Actions, Rewards, Half

LEMMA SeededModest ==
    ASSUME NEW s \in States
    PROVE  Modest(Seeded(s))
<1>1. \A a \in Actions : PriorQ(s)[a] \in -Scale .. Scale
  BY Prior, Units
<1>2. PriorQ(s) \in [Actions -> -Scale .. Scale] /\ PriorQ(s)["ALERT"] <= Half
  BY <1>1, Prior, Units DEF Half
<1>3. QED
  BY <1>2 DEF Modest, Seeded, Rows

LEMMA LearnedModest ==
    ASSUME NEW r, Modest(r), NEW v \in Verdicts, NEW a \in Actions
    PROVE  Modest(Learned(r, a, Rewards(v, a)))
<1> DEFINE reward == Rewards(v, a)
           moved == TowardReward(r.q[a], reward)
<1>1. r \in Rows /\ r.q \in [Actions -> -Scale .. Scale] /\ r.n \in [Actions -> Nat]
  BY DEF Modest, Rows
<1>2. reward \in -Scale .. Scale
  BY RewardTyped
<1>3. Scale \in Nat /\ Half \in Int
  BY Units DEF Half
<1> HIDE DEF reward
<1>4. moved \in -Scale .. Scale
  <2>1. r.q[a] \in -Scale .. Scale /\ -Scale \in Int /\ Scale \in Int
    BY <1>1, <1>3
  <2>2. QED
    BY <1>2, <2>1, TowardBetween, Zenon
<1>5. a = "ALERT" => moved <= Half
  <2> SUFFICES ASSUME a = "ALERT"
               PROVE  moved <= Half
    OBVIOUS
  <2>1. r.q[a] \in -Scale .. Half
    BY <1>1, <1>3 DEF Modest
  <2>2. reward \in -Scale .. Half
    BY <1>2, <1>3, RewardTyped DEF reward
  <2>3. -Scale \in Int /\ Half \in Int
    BY <1>3
  <2>4. moved \in -Scale .. Half
    BY <2>1, <2>2, <2>3, TowardBetween, Zenon
  <2>5. QED
    BY <1>3, <2>4
<1>6. Learned(r, a, reward) = [q |-> [r.q EXCEPT ![a] = moved], n |-> [r.n EXCEPT ![a] = @ + 1]]
  BY DEF Learned
<1> HIDE DEF moved
<1>7. /\ [r.q EXCEPT ![a] = moved] \in [Actions -> -Scale .. Scale]
      /\ [r.n EXCEPT ![a] = @ + 1] \in [Actions -> Nat]
      /\ [r.q EXCEPT ![a] = moved]["ALERT"] <= Half
  BY <1>1, <1>4, <1>5 DEF Modest, Actions
<1>8. QED
  BY <1>6, <1>7 DEF Modest, Rows, reward

-----------------------------------------------------------------------------
Working == IF work = NoWork THEN 0 ELSE 1

Work == [step : {"taken", "read", "endorsed"}, verdict : Verdicts, action : Actions,
         copy : Rows, before : Actions, resets : 0 .. MaxResets]

(* Types, and what is true of the row copied by an update in progress.     *)
Taught ==
    /\ features \in Windows
    /\ LearnTypeOK
    /\ confirms + rejects + Working <= given
    /\ Modest(row)
    /\ work # NoWork =>
           /\ Modest(work.copy)
           /\ work.verdict \in asked
           /\ work.resets <= resets

LEMMA WorkTyped ==
    ASSUME Taught
    PROVE  /\ work = NoWork \/ work \in Work
           /\ NoWork \notin Work
           /\ NoWork.step = "none"
  BY DEF Taught, LearnTypeOK, Work, NoWork

(* decide offers actions (qlearning.py:325-347), and the policy makes      *)
(* actions of them (engine.py:250-264).                                    *)
LEMMA OfferedTyped ==
    ASSUME NEW q \in [Actions -> Int]
    PROVE  Offered(q) \subseteq Actions
  BY GreedyCases DEF Offered, Candidates

LEMMA EnforcedTyped ==
    ASSUME NEW a \in Actions
    PROVE  Enforced(a) \subseteq Actions
  BY DEF Enforced, Enforcing, EnforceAction, Actions

LEMMA TaughtInit ==
    ASSUME LearnInit
    PROVE  Taught
<1>1. Modest(row)
  BY StateTyped, SeededModest DEF LearnInit
<1>2. QED
  BY <1>1, LearningAssumption DEF LearnInit, Taught, LearnTypeOK, Working, Modest

LEMMA TaughtNext ==
    ASSUME Taught, [LearnNext]_learnVars
    PROVE  Taught'
<1> USE LearningAssumption
<1>1. ASSUME NEW a \in Offered(row.q), Decide(a)
      PROVE  Taught'
  <2>1. row.q \in [Actions -> Int]
    BY Units DEF Taught, Modest, Rows
  <2>2. Enforced(a) \subseteq Actions
    BY <2>1, OfferedTyped, EnforcedTyped
  <2>3. recorded' \subseteq Actions
    BY <1>1, <2>2 DEF Decide, Taught, LearnTypeOK
  <2>4. QED
    BY <1>1, <2>3 DEF Taught, LearnTypeOK, Decide, Working, Work
<1>2. ASSUME NEW a \in recorded, NEW v \in Verdicts, BeginFeedback(a, v)
      PROVE  Taught'
  <2>1. row \in Rows /\ row.q \in [Actions -> Int] /\ Modest(row)
    BY Units DEF Taught, Modest, Rows
  <2>2. GreedyAction(row.q) \in Actions
    BY <2>1, GreedyCases
  <2>3. work' \in Work /\ work' # NoWork
    BY <1>2, <2>1, <2>2, WorkTyped DEF BeginFeedback, Taught, LearnTypeOK, Work, NoWork
  <2>4. QED
    BY <1>2, <2>1, <2>3 DEF BeginFeedback, Taught, LearnTypeOK, Working, Work
<1>3. ASSUME RewardTaken
      PROVE  Taught'
  <2>1. work \in Work /\ work # NoWork
    BY <1>3, WorkTyped DEF RewardTaken
  <2>2. Modest(row')
    BY <1>3, <2>1, LearnedModest DEF RewardTaken, Taught, Work
  <2>3. row' \in Rows
    BY <2>2 DEF Modest
  <2>4. CASE Endorsed(work.verdict, work.action) # work.action
    BY <1>3, <2>1, <2>2, <2>3, <2>4, WorkTyped
      DEF RewardTaken, Taught, LearnTypeOK, Working, Work, NoWork
  <2>5. CASE Endorsed(work.verdict, work.action) = work.action
    BY <1>3, <2>1, <2>2, <2>3, <2>5
      DEF RewardTaken, Taught, LearnTypeOK, Working, Work, Applied
  <2>6. QED
    BY <2>4, <2>5
<1>4. ASSUME ReadForEndorsed
      PROVE  Taught'
  <2>1. work \in Work /\ work # NoWork
    BY <1>4, WorkTyped DEF ReadForEndorsed
  <2>2. QED
    BY <1>4, <2>1, WorkTyped
      DEF ReadForEndorsed, Taught, LearnTypeOK, Working, Work, NoWork
<1>5. ASSUME RewardEndorsed
      PROVE  Taught'
  <2>1. work \in Work /\ work # NoWork
    BY <1>5, WorkTyped DEF RewardEndorsed
  <2>2. Endorsed(work.verdict, work.action) \in Actions
    BY DEF Endorsed, Actions
  <2>3. Modest(row')
    BY <1>5, <2>1, <2>2, LearnedModest DEF RewardEndorsed, Taught, Work
  <2>4. row' \in Rows
    BY <2>3 DEF Modest
  <2>5. QED
    BY <1>5, <2>1, <2>3, <2>4
      DEF RewardEndorsed, Taught, LearnTypeOK, Working, Work, Applied
<1>6. ASSUME Reset
      PROVE  Taught'
  <2>1. Modest(row')
    BY <1>6, StateTyped, SeededModest DEF Reset, Taught
  <2>2. QED
    BY <1>6, <2>1, WorkTyped DEF Reset, Taught, LearnTypeOK, Working, Work, Modest
<1>7. ASSUME Crash
      PROVE  Taught'
  BY <1>7 DEF Crash, Taught, LearnTypeOK, Working
<1>8. CASE UNCHANGED learnVars
  BY <1>8 DEF learnVars, Taught, LearnTypeOK, Working, Modest
<1>9. QED
  BY <1>1, <1>2, <1>3, <1>4, <1>5, <1>6, <1>7, <1>8 DEF LearnNext

-----------------------------------------------------------------------------
(* "Rewards saturate at +/-1" (qlearning.py:104): no sequence of verdicts, *)
(* resets and crashes takes a Q-value out of the rewards' range, for any   *)
(* learning rate.                                                          *)
THEOREM ValuesSaturate == LearnSpec => []LearnTypeOK
<1>1. LearnInit => Taught
  BY TaughtInit
<1>2. Taught /\ [LearnNext]_learnVars => Taught'
  BY TaughtNext
<1>3. Taught => LearnTypeOK
  BY DEF Taught
<1>4. QED
  BY <1>1, <1>2, <1>3, PTL DEF LearnSpec

-----------------------------------------------------------------------------
(* A row no verdict has touched is the prior's.                            *)
Cold == Trained \/ row = Seeded(State)

LEMMA LearnedTrained ==
    ASSUME NEW r \in Rows, NEW a \in Actions, NEW reward
    PROVE  \E b \in Actions : Learned(r, a, reward).n[b] > 0
<1>1. Learned(r, a, reward).n[a] = r.n[a] + 1 /\ r.n[a] \in Nat
  BY DEF Learned, Rows
<1>2. QED
  BY <1>1

LEMMA ColdNext ==
    ASSUME Taught, Cold, [LearnNext]_learnVars
    PROVE  Cold'
<1>1. ASSUME UNCHANGED <<features, row>>
      PROVE  Cold'
  BY <1>1 DEF Cold, Trained, State
<1>2. ASSUME RewardTaken
      PROVE  Cold'
  <2>1. work \in Work
    BY <1>2, WorkTyped DEF RewardTaken
  <2>2. work.copy \in Rows /\ work.action \in Actions
    BY <2>1 DEF Work
  <2>3. QED
    BY <1>2, <2>2, LearnedTrained DEF RewardTaken, Cold, Trained
<1>3. ASSUME RewardEndorsed
      PROVE  Cold'
  <2>1. work \in Work
    BY <1>3, WorkTyped DEF RewardEndorsed
  <2>2. work.copy \in Rows /\ Endorsed(work.verdict, work.action) \in Actions
    BY <2>1 DEF Work, Endorsed, Actions
  <2>3. QED
    BY <1>3, <2>2, LearnedTrained DEF RewardEndorsed, Cold, Trained
<1>4. ASSUME Reset
      PROVE  Cold'
  BY <1>4 DEF Reset, Cold, State
<1>5. QED
  BY <1>1, <1>2, <1>3, <1>4
    DEF LearnNext, learnVars, Decide, BeginFeedback, ReadForEndorsed, Crash

(* A window without bytes and without a burst is in the lowest bucket      *)
(* (qlearning.py:126-143).                                                 *)
LEMMA BucketOfNothing ==
    ASSUME NEW bytes \in Nat, NEW files \in Nat,
           bytes = 0, files <= BurstFileCount
    PROVE  VolumeBucket(bytes, files) = 0
  BY BucketAssumption DEF VolumeBucket

LEMMA Calibrated ==
    ASSUME features \in Windows, row = Seeded(State)
    PROVE  /\ Signals <= 1 => Preferred = "DISMISS"
           /\ Signals >= 2 => Preferred # "DISMISS"
           /\ Preferred = "BLOCK" =>
                  /\ Signals >= 3
                  /\ features.bytes > 0 \/ features.files > BurstFileCount
<1> DEFINE s == State
<1>1. s \in States
  BY StateTyped
<1>2. Preferred = GreedyAction(PriorQ(s))
  BY DEF Preferred, Seeded
<1>3. s.vol >= 1 => features.bytes > 0 \/ features.files > BurstFileCount
  <2>1. s.vol = VolumeBucket(features.bytes, features.files)
    BY DEF State
  <2>2. features.bytes \in Nat /\ features.files \in Nat
    BY LearningAssumption DEF Windows
  <2>3. features.bytes = 0 /\ features.files <= BurstFileCount => s.vol = 0
    BY <2>1, <2>2, BucketOfNothing
  <2>4. QED
    BY <2>2, <2>3, BucketAssumption
<1> HIDE DEF s
<1>4. StateRisk(s) \in 0 .. 150
  BY <1>1, PriorValues
<1>5. /\ Preferred = "DISMISS" <=> StateRisk(s) <= 50
      /\ Preferred = "BLOCK" <=> StateRisk(s) > 108
  BY <1>1, <1>2, <1>4, Prior
<1>6. Signals = s.ah + s.usb + s.anom + (IF s.vol >= 2 THEN 1 ELSE 0)
  BY DEF Signals, s
<1>7. /\ Signals <= 1 <=> StateRisk(s) <= 50
      /\ StateRisk(s) > 108 => Signals >= 3 /\ s.vol >= 1
  BY <1>1, <1>6 DEF StateRisk, States
<1>8. Signals \in Int
  BY <1>1, <1>6 DEF States
<1>9. QED
  BY <1>3, <1>5, <1>7, <1>8 DEF s

(* The calibration argued at qlearning.py:110-121, for windows of any size *)
(* and all thresholds of the volume buckets: before any verdict no single  *)
(* signal is worth an alert, two always are, and BLOCK needs three and     *)
(* bytes that moved - or a burst of files without any, which the argument  *)
(* overlooks.                                                              *)
THEOREM ColdStartIsCalibrated == LearnSpec => []ColdStart
<1>1. LearnInit => Taught /\ Cold
  BY TaughtInit DEF LearnInit, Cold
<1>2. Taught /\ Cold /\ [LearnNext]_learnVars => Taught' /\ Cold'
  BY TaughtNext, ColdNext
<1>3. Taught /\ Cold => ColdStart
  BY Calibrated DEF Taught, Cold, ColdStart
<1>4. QED
  BY <1>1, <1>2, <1>3, PTL DEF LearnSpec

-----------------------------------------------------------------------------
(* What the endorsed action's update of q will leave.                      *)
Endorsing(q) == [q EXCEPT !["BLOCK"] = TowardReward(@, Scale)]

NoLess(q, before) == Rank(GreedyAction(q)) >= Rank(before)

Confirming ==
    work # NoWork /\ work.verdict = "block" /\ work.resets = resets =>
        /\ work.step = "taken" =>
               work.copy = row /\ work.before = GreedyAction(row.q)
        /\ work.step \in {"read", "endorsed"} => NoLess(Endorsing(row.q), work.before)
        /\ work.step = "endorsed" => work.copy = row

LEMMA RankTyped ==
    \A a \in Actions : Rank(a) \in 0 .. 2
  BY DEF Actions, Rank

(* The endorsed action's update alone never makes a row less disruptive,   *)
LEMMA ConfirmedBlock ==
    ASSUME NEW r, Modest(r)
    PROVE  NoLess(Endorsing(r.q), GreedyAction(r.q))
<1>1. r.q \in [Actions -> Int] /\ r.q["BLOCK"] <= Scale /\ r.q["BLOCK"] \in Int
  BY Units DEF Modest, Rows, Actions
<1> DEFINE moved == TowardReward(r.q["BLOCK"], Scale)
           after == Endorsing(r.q)
<1>2. Scale \in Int
  BY Units
<1>3. moved \in Int /\ moved >= r.q["BLOCK"]
  <2>1. r.q["BLOCK"] \in r.q["BLOCK"] .. Scale /\ Scale \in r.q["BLOCK"] .. Scale
    BY <1>1, <1>2
  <2>2. moved \in r.q["BLOCK"] .. Scale
    BY <1>1, <1>2, <2>1, TowardBetween, Zenon
  <2>3. QED
    BY <1>1, <1>2, <2>2
<1> HIDE DEF moved
<1>4. /\ after \in [Actions -> Int] /\ after["BLOCK"] = moved
      /\ after["ALERT"] = r.q["ALERT"] /\ after["DISMISS"] = r.q["DISMISS"]
  BY <1>1, <1>3 DEF Endorsing, moved, Actions
<1> HIDE DEF after
<1>5. r.q["ALERT"] \in Int /\ r.q["DISMISS"] \in Int
  BY <1>1 DEF Actions
<1>6. NoLess(after, GreedyAction(r.q))
  BY <1>1, <1>3, <1>4, <1>5, GreedyCases DEF NoLess, Actions, Rank
<1>7. QED
  BY <1>6 DEF after

(* nor do both updates of a confirmed threat together, although the first  *)
(* one of them may.                                                        *)
LEMMA ConfirmedLess ==
    ASSUME NEW r, Modest(r), NEW a \in {"DISMISS", "ALERT"}
    PROVE  NoLess(Endorsing(Learned(r, a, Rewards("block", a)).q), GreedyAction(r.q))
<1> DEFINE d == r.q["DISMISS"]
           l == r.q["ALERT"]
           b == r.q["BLOCK"]
           final == Endorsing(Learned(r, a, Rewards("block", a)).q)
<1>1. /\ r.q \in [Actions -> Int]
      /\ d \in Int /\ l \in Int /\ b \in Int
      /\ -Scale <= d /\ l <= Half /\ b <= Scale
  BY Units DEF Modest, Rows, Actions, Half
<1>2. Scale \in Nat /\ Scale >= 10000 /\ 2 * Half = Scale /\ Half \in Nat
  BY Units DEF Half
<1> HIDE DEF d, l, b
<1>3. /\ TowardReward(b, Scale) \in Int
      /\ TowardReward(d, -Scale) \in Int /\ TowardReward(d, -Scale) <= d
      /\ TowardReward(l, Half) \in Int /\ TowardReward(l, Half) >= l
      /\ b <= TowardReward(b, Scale)
      /\ b >= l => TowardReward(b, Scale) > TowardReward(l, Half)
  BY <1>1, <1>2, TowardUp, TowardDown, TowardGap
<1> USE DEF d, l, b
<1>4. CASE a = "DISMISS"
  <2>1. /\ final \in [Actions -> Int] /\ final["BLOCK"] = TowardReward(b, Scale)
        /\ final["ALERT"] = l /\ final["DISMISS"] = TowardReward(d, -Scale)
    BY <1>1, <1>3, <1>4 DEF Endorsing, Learned, Rewards, Actions
  <2> HIDE DEF d, l, b, final
  <2>2. NoLess(final, GreedyAction(r.q))
    BY <1>1, <1>3, <2>1, GreedyCases DEF NoLess, Actions, Rank, d, l, b
  <2>3. QED
    BY <2>2 DEF final
<1>5. CASE a = "ALERT"
  <2>1. /\ final \in [Actions -> Int] /\ final["BLOCK"] = TowardReward(b, Scale)
        /\ final["ALERT"] = TowardReward(l, Half) /\ final["DISMISS"] = d
    BY <1>1, <1>3, <1>5 DEF Endorsing, Learned, Rewards, Actions, Half
  <2> HIDE DEF d, l, b, final
  <2>2. NoLess(final, GreedyAction(r.q))
    BY <1>1, <1>3, <2>1, GreedyCases DEF NoLess, Actions, Rank, d, l, b
  <2>3. QED
    BY <2>2 DEF final
<1>6. QED
  BY <1>4, <1>5

LEMMA ConfirmingNext ==
    ASSUME Taught, Confirming, [LearnNext]_learnVars
    PROVE  Confirming'
<1>1. ASSUME UNCHANGED <<row, work, resets>>
      PROVE  Confirming'
  BY <1>1 DEF Confirming, NoLess
<1>2. ASSUME NEW a \in recorded, NEW v \in Verdicts, BeginFeedback(a, v)
      PROVE  Confirming'
  BY <1>2 DEF BeginFeedback, Confirming
<1>3. ASSUME RewardTaken
      PROVE  Confirming'
  <2>1. work \in Work /\ work # NoWork /\ Modest(work.copy)
    BY <1>3, WorkTyped DEF RewardTaken, Taught
  <2>2. CASE Endorsed(work.verdict, work.action) = work.action
    BY <1>3, <2>2 DEF RewardTaken, Confirming
  <2>3. CASE Endorsed(work.verdict, work.action) # work.action
    <3> SUFFICES ASSUME work.verdict = "block", work.resets = resets
                 PROVE  NoLess(Endorsing(row'.q), work.before)
      BY <1>3, <2>1, <2>3 DEF RewardTaken, Confirming, Work
    <3>1. work.action \in {"DISMISS", "ALERT"}
      BY <2>1, <2>3 DEF Endorsed, Work, Actions
    <3>2. work.before = GreedyAction(work.copy.q)
      BY <1>3, <2>1 DEF RewardTaken, Confirming
    <3>3. row' = Learned(work.copy, work.action, Rewards("block", work.action))
      BY <1>3 DEF RewardTaken
    <3>4. QED
      BY <2>1, <3>1, <3>2, <3>3, ConfirmedLess
  <2>4. QED
    BY <2>2, <2>3
<1>4. ASSUME ReadForEndorsed
      PROVE  Confirming'
  <2>1. work \in Work /\ work # NoWork
    BY <1>4, WorkTyped DEF ReadForEndorsed
  <2>2. QED
    BY <1>4, <2>1 DEF ReadForEndorsed, Confirming, Work, NoLess
<1>5. ASSUME work' = NoWork
      PROVE  Confirming'
  BY <1>5 DEF Confirming
<1>6. ASSUME Reset
      PROVE  Confirming'
  <2>1. work # NoWork => work.resets \in Int /\ resets \in Int /\ work.resets <= resets
    BY WorkTyped DEF Taught, LearnTypeOK, Work
  <2>2. QED
    BY <1>6, <2>1 DEF Reset, Confirming
<1>7. QED
  BY <1>1, <1>2, <1>3, <1>4, <1>5, <1>6
    DEF LearnNext, learnVars, Decide, RewardEndorsed, Crash

(* Confirming a threat never leaves the policy less disruptive than it     *)
(* found it (qlearning.py:396-398), for any learning rate and any row      *)
(* verdicts can lead to, unless a reset came in between.                   *)
THEOREM ConfirmationNeverRelaxes == LearnSpec => ConfirmNeverRelaxes
<1>1. LearnInit => Taught /\ Confirming
  BY TaughtInit DEF LearnInit, Confirming
<1>2. Taught /\ Confirming /\ [LearnNext]_learnVars => Taught' /\ Confirming'
  BY TaughtNext, ConfirmingNext
<1>3. Taught /\ Confirming /\ [LearnNext]_learnVars =>
        [confirms' > confirms /\ work.resets = resets
           => Rank(GreedyAction(row'.q)) >= Rank(work.before)]_learnVars
  <2> SUFFICES ASSUME Taught, Confirming, LearnNext, confirms' > confirms, work.resets = resets
               PROVE  NoLess(row'.q, work.before)
    BY DEF NoLess
  <2>1. confirms \in Nat /\ confirms + 0 = confirms
    BY DEF Taught, LearnTypeOK
  <2>2. ASSUME RewardTaken
        PROVE  NoLess(row'.q, work.before)
    <3>1. work \in Work /\ work # NoWork /\ Modest(work.copy)
      BY <2>2, WorkTyped DEF RewardTaken, Taught
    <3>2. work.verdict = "block" /\ work.action = "BLOCK"
      BY <2>1, <2>2, <3>1 DEF RewardTaken, Applied, Endorsed, Work, Verdicts
    <3>3. work.before = GreedyAction(work.copy.q)
      BY <2>2, <3>1, <3>2 DEF RewardTaken, Confirming
    <3>4. row'.q = Endorsing(work.copy.q)
      BY <2>2, <3>2 DEF RewardTaken, Learned, Rewards, Endorsing
    <3>5. QED
      BY <3>1, <3>3, <3>4, ConfirmedBlock
  <2>3. ASSUME RewardEndorsed
        PROVE  NoLess(row'.q, work.before)
    <3>1. work \in Work /\ work # NoWork
      BY <2>3, WorkTyped DEF RewardEndorsed
    <3>2. work.verdict = "block"
      BY <2>1, <2>3, <3>1 DEF RewardEndorsed, Applied, Work, Verdicts
    <3>3. row'.q = Endorsing(row.q)
      BY <2>3, <3>1, <3>2
        DEF RewardEndorsed, Confirming, Learned, Rewards, Endorsed, Endorsing
    <3>4. QED
      BY <2>3, <3>1, <3>2, <3>3 DEF RewardEndorsed, Confirming
  <2>4. QED
    BY <2>1, <2>2, <2>3
      DEF LearnNext, Decide, BeginFeedback, ReadForEndorsed, Reset, Crash
<1>4. QED
  BY <1>1, <1>2, <1>3, PTL DEF LearnSpec, ConfirmNeverRelaxes

-----------------------------------------------------------------------------
(* What the update of the action a rejection endorses will leave.          *)
Dismissing(q) == [q EXCEPT !["DISMISS"] = TowardReward(@, Scale)]

NoMore(q, before) == Rank(GreedyAction(q)) <= Rank(before)

AlertRejected(action, before) == action = "ALERT" /\ before = "ALERT"

Rejecting ==
    work # NoWork /\ work.verdict = "dismiss" /\ work.resets = resets =>
        /\ work.step = "taken" =>
               work.copy = row /\ work.before = GreedyAction(row.q)
        /\ work.step \in {"read", "endorsed"} =>
               AlertRejected(work.action, work.before)
                   \/ NoMore(Dismissing(row.q), work.before)
        /\ work.step = "endorsed" => work.copy = row

(* The endorsed action's update alone never makes a row more disruptive,   *)
LEMMA RejectedDismiss ==
    ASSUME NEW r, Modest(r)
    PROVE  NoMore(Dismissing(r.q), GreedyAction(r.q))
<1> DEFINE d == r.q["DISMISS"]
           l == r.q["ALERT"]
           b == r.q["BLOCK"]
           after == Dismissing(r.q)
<1>1. r.q \in [Actions -> Int] /\ d \in Int /\ l \in Int /\ b \in Int /\ d <= Scale
  BY Units DEF Modest, Rows, Actions
<1>2. Scale \in Int
  BY Units
<1> HIDE DEF d, l, b
<1>3. TowardReward(d, Scale) \in Int /\ TowardReward(d, Scale) >= d
  BY <1>1, <1>2, TowardUp
<1> USE DEF d, l, b
<1>4. /\ after \in [Actions -> Int] /\ after["DISMISS"] = TowardReward(d, Scale)
      /\ after["ALERT"] = l /\ after["BLOCK"] = b
  BY <1>1, <1>3 DEF Dismissing, Actions
<1> HIDE DEF d, l, b, after
<1>5. NoMore(after, GreedyAction(r.q))
  BY <1>1, <1>3, <1>4, GreedyCases DEF NoMore, Actions, Rank, d, l, b
<1>6. QED
  BY <1>5 DEF after

(* nor do both updates of a rejected threat together, unless it was an     *)
(* alert and alerts were preferred: then nothing lowers BLOCK.             *)
LEMMA RejectedMore ==
    ASSUME NEW r, Modest(r), NEW a \in {"ALERT", "BLOCK"},
           ~AlertRejected(a, GreedyAction(r.q))
    PROVE  NoMore(Dismissing(Learned(r, a, Rewards("dismiss", a)).q), GreedyAction(r.q))
<1> DEFINE d == r.q["DISMISS"]
           l == r.q["ALERT"]
           b == r.q["BLOCK"]
           third == (3 * Scale) \div 10
           final == Dismissing(Learned(r, a, Rewards("dismiss", a)).q)
<1>1. /\ r.q \in [Actions -> Int]
      /\ d \in Int /\ l \in Int /\ b \in Int
      /\ d <= Scale /\ -Scale <= b
  BY Units DEF Modest, Rows, Actions
<1>2. Scale \in Nat /\ Scale >= 10000 /\ third \in Nat /\ -third + 10 <= Scale
  BY Units
<1> HIDE DEF d, l, b, third
<1>3. /\ TowardReward(d, Scale) \in Int /\ TowardReward(d, Scale) >= d
      /\ TowardReward(b, -Scale) \in Int /\ TowardReward(b, -Scale) <= b
      /\ l <= d => TowardReward(l, -third) < TowardReward(d, Scale)
  BY <1>1, <1>2, TowardUp, TowardDown, TowardGap
<1>4. TowardReward(l, -third) \in Int
  BY <1>1, <1>2, LearningAssumption DEF TowardReward
<1> USE DEF d, l, b, third
<1>5. CASE a = "BLOCK"
  <2>1. /\ final \in [Actions -> Int] /\ final["DISMISS"] = TowardReward(d, Scale)
        /\ final["ALERT"] = l /\ final["BLOCK"] = TowardReward(b, -Scale)
    BY <1>1, <1>3, <1>5 DEF Dismissing, Learned, Rewards, Actions
  <2> HIDE DEF d, l, b, final, third
  <2>2. NoMore(final, GreedyAction(r.q))
    BY <1>1, <1>3, <2>1, GreedyCases DEF NoMore, Actions, Rank, d, l, b
  <2>3. QED
    BY <2>2 DEF final
<1>6. CASE a = "ALERT"
  <2>1. /\ final \in [Actions -> Int] /\ final["DISMISS"] = TowardReward(d, Scale)
        /\ final["ALERT"] = TowardReward(l, -third) /\ final["BLOCK"] = b
    BY <1>1, <1>3, <1>4, <1>6 DEF Dismissing, Learned, Rewards, Actions
  <2> HIDE DEF d, l, b, final, third
  <2>2. NoMore(final, GreedyAction(r.q))
    BY <1>1, <1>3, <1>4, <1>6, <2>1, GreedyCases
      DEF NoMore, AlertRejected, Actions, Rank, d, l, b
  <2>3. QED
    BY <2>2 DEF final
<1>7. QED
  BY <1>5, <1>6

LEMMA RejectingNext ==
    ASSUME Taught, Rejecting, [LearnNext]_learnVars
    PROVE  Rejecting'
<1>1. ASSUME UNCHANGED <<row, work, resets>>
      PROVE  Rejecting'
  BY <1>1 DEF Rejecting, NoMore
<1>2. ASSUME NEW a \in recorded, NEW v \in Verdicts, BeginFeedback(a, v)
      PROVE  Rejecting'
  BY <1>2 DEF BeginFeedback, Rejecting
<1>3. ASSUME RewardTaken
      PROVE  Rejecting'
  <2>1. work \in Work /\ work # NoWork /\ Modest(work.copy)
    BY <1>3, WorkTyped DEF RewardTaken, Taught
  <2>2. CASE Endorsed(work.verdict, work.action) = work.action
    BY <1>3, <2>2 DEF RewardTaken, Rejecting
  <2>3. CASE Endorsed(work.verdict, work.action) # work.action
    <3> SUFFICES ASSUME work.verdict = "dismiss", work.resets = resets,
                        ~AlertRejected(work.action, work.before)
                 PROVE  NoMore(Dismissing(row'.q), work.before)
      BY <1>3, <2>1, <2>3 DEF RewardTaken, Rejecting, Work
    <3>1. work.action \in {"ALERT", "BLOCK"}
      BY <2>1, <2>3 DEF Endorsed, Work, Actions
    <3>2. work.before = GreedyAction(work.copy.q)
      BY <1>3, <2>1 DEF RewardTaken, Rejecting
    <3>3. row' = Learned(work.copy, work.action, Rewards("dismiss", work.action))
      BY <1>3 DEF RewardTaken
    <3>4. QED
      BY <2>1, <3>1, <3>2, <3>3, RejectedMore
  <2>4. QED
    BY <2>2, <2>3
<1>4. ASSUME ReadForEndorsed
      PROVE  Rejecting'
  <2>1. work \in Work /\ work # NoWork
    BY <1>4, WorkTyped DEF ReadForEndorsed
  <2>2. QED
    BY <1>4, <2>1 DEF ReadForEndorsed, Rejecting, Work, NoMore
<1>5. ASSUME work' = NoWork
      PROVE  Rejecting'
  BY <1>5 DEF Rejecting
<1>6. ASSUME Reset
      PROVE  Rejecting'
  <2>1. work # NoWork => work.resets \in Int /\ resets \in Int /\ work.resets <= resets
    BY WorkTyped DEF Taught, LearnTypeOK, Work
  <2>2. QED
    BY <1>6, <2>1 DEF Reset, Rejecting
<1>7. QED
  BY <1>1, <1>2, <1>3, <1>4, <1>5, <1>6
    DEF LearnNext, learnVars, Decide, RewardEndorsed, Crash

(* A rejection escalates the policy only where an alert was rejected and   *)
(* alerts were preferred (qlearning.py:399-401), for any learning rate, any*)
(* row verdicts can lead to and any action recorded, the USB rule's        *)
(* included, unless a reset came in between.                               *)
THEOREM RejectionRarelyEscalates == LearnSpec => OnlyRejectedAlertsEscalate
<1>1. LearnInit => Taught /\ Rejecting
  BY TaughtInit DEF LearnInit, Rejecting
<1>2. Taught /\ Rejecting /\ [LearnNext]_learnVars => Taught' /\ Rejecting'
  BY TaughtNext, RejectingNext
<1>3. Taught /\ Rejecting /\ [LearnNext]_learnVars =>
        [rejects' > rejects /\ work.resets = resets
           /\ ~(work.action = "ALERT" /\ work.before = "ALERT")
           => Rank(GreedyAction(row'.q)) <= Rank(work.before)]_learnVars
  <2> SUFFICES ASSUME Taught, Rejecting, LearnNext, rejects' > rejects, work.resets = resets,
                      ~AlertRejected(work.action, work.before)
               PROVE  NoMore(row'.q, work.before)
    BY DEF NoMore, AlertRejected
  <2>1. rejects \in Nat /\ rejects + 0 = rejects
    BY DEF Taught, LearnTypeOK
  <2>2. ASSUME RewardTaken
        PROVE  NoMore(row'.q, work.before)
    <3>1. work \in Work /\ work # NoWork /\ Modest(work.copy)
      BY <2>2, WorkTyped DEF RewardTaken, Taught
    <3>2. work.verdict = "dismiss" /\ work.action = "DISMISS"
      BY <2>1, <2>2, <3>1 DEF RewardTaken, Applied, Endorsed, Work, Verdicts
    <3>3. work.before = GreedyAction(work.copy.q)
      BY <2>2, <3>1, <3>2 DEF RewardTaken, Rejecting
    <3>4. row'.q = Dismissing(work.copy.q)
      BY <2>2, <3>2 DEF RewardTaken, Learned, Rewards, Dismissing
    <3>5. QED
      BY <3>1, <3>3, <3>4, RejectedDismiss
  <2>3. ASSUME RewardEndorsed
        PROVE  NoMore(row'.q, work.before)
    <3>1. work \in Work /\ work # NoWork
      BY <2>3, WorkTyped DEF RewardEndorsed
    <3>2. work.verdict = "dismiss"
      BY <2>1, <2>3, <3>1 DEF RewardEndorsed, Applied, Work, Verdicts
    <3>3. row'.q = Dismissing(row.q)
      BY <2>3, <3>1, <3>2
        DEF RewardEndorsed, Rejecting, Learned, Rewards, Endorsed, Dismissing
    <3>4. QED
      BY <2>3, <3>1, <3>2, <3>3 DEF RewardEndorsed, Rejecting
  <2>4. QED
    BY <2>1, <2>2, <2>3
      DEF LearnNext, Decide, BeginFeedback, ReadForEndorsed, Reset, Crash
<1>4. QED
  BY <1>1, <1>2, <1>3, PTL DEF LearnSpec, OnlyRejectedAlertsEscalate

-----------------------------------------------------------------------------
(* After n verdicts of one kind the endorsed value is at least the n-th    *)
(* floor (in units of the fourth decimal) and the others at most 6000.     *)
Floors == <<-6000, -1200, 2160, 4512, 6158>>
Floor(n) == Floors[Lesser(n, Enough) + 1]

Leaning(q, a, n) == /\ q[a] >= Grain * Floor(n)
                    /\ \A b \in Actions \ {a} : q[b] <= 6000 * Grain

Wanted(v) == IF v = "block" THEN "BLOCK" ELSE "DISMISS"
Tally(v) == IF v = "block" THEN confirms ELSE rejects

Converging ==
    \A v \in Verdicts : asked \subseteq {v} =>
        /\ Leaning(row.q, Wanted(v), Tally(v))
        /\ work # NoWork => Leaning(work.copy.q, Wanted(v), Tally(v))

LEMMA FloorValues ==
    /\ Floor(0) = -6000
    /\ \A n \in Nat : n >= 4 => Floor(n) = 6158
    /\ \A n \in Nat : /\ Floor(n) \in Int
                      /\ -6000 <= Floor(n)
                      /\ Floor(n) <= Floor(n + 1)
                      /\ n < 4 => 10 * Floor(n + 1) <= 7 * Floor(n) + 30000
<1>1. /\ Floor(0) = -6000 /\ Floor(1) = -1200 /\ Floor(2) = 2160 /\ Floor(3) = 4512
      /\ \A n \in Nat : n >= 4 => Floor(n) = 6158
  BY DEF Floor, Floors, Lesser, Enough
<1>2. \A n \in Nat : n = 0 \/ n = 1 \/ n = 2 \/ n = 3 \/ (n >= 4 /\ n + 1 >= 4)
  OBVIOUS
<1>3. Floor(4) = 6158
  BY <1>1
<1>4. QED
  BY <1>1, <1>2, <1>3

LEMMA SeededLeaning ==
    ASSUME NEW s \in States, NEW a \in Actions
    PROVE  Leaning(Seeded(s).q, a, 0)
  BY Prior, Units, FloorValues DEF Leaning, Seeded

(* An update of another action keeps the floor,                            *)
LEMMA OtherLeaning ==
    ASSUME NEW v \in Verdicts, NEW r \in Rows, NEW n \in Nat,
           NEW a \in Actions \ {Wanted(v)}, Leaning(r.q, Wanted(v), n)
    PROVE  Leaning(Learned(r, a, Rewards(v, a)).q, Wanted(v), n)
<1>1. r.q \in [Actions -> Int] /\ r.q[a] \in Int
  BY Units DEF Rows
<1>2. r.q[a] <= 6000 * Grain
  BY DEF Leaning
<1>3. Rewards(v, a) \in Int /\ Rewards(v, a) <= 6000 * Grain
  BY Units DEF Rewards, Wanted, Verdicts, Actions
<1> DEFINE reward == Rewards(v, a)
           moved == TowardReward(r.q[a], reward)
<1>4. moved \in Int /\ moved <= 6000 * Grain
  <2> HIDE DEF reward
  <2>1. r.q[a] <= reward => moved \in r.q[a] .. reward
    BY <1>1, <1>3, TowardUp DEF reward
  <2>2. reward <= r.q[a] => moved \in reward .. r.q[a]
    BY <1>1, <1>3, TowardDown DEF reward
  <2> HIDE DEF moved
  <2>3. QED
    BY <1>1, <1>2, <1>3, <2>1, <2>2, Units DEF reward
<1>5. Learned(r, a, reward).q = [r.q EXCEPT ![a] = moved]
  BY DEF Learned
<1> HIDE DEF moved, reward
<1>6. \A b \in Actions : [r.q EXCEPT ![a] = moved][b] = IF b = a THEN moved ELSE r.q[b]
  BY <1>1
<1>7. Wanted(v) \in Actions
  BY DEF Wanted, Actions
<1>8. Leaning([r.q EXCEPT ![a] = moved], Wanted(v), n)
  BY <1>4, <1>6, <1>7 DEF Leaning
<1>9. QED
  BY <1>5, <1>8 DEF reward

(* and one of the endorsed action reaches the next: from the floor f, a    *)
(* rate of 0.3 leads at least to 0.7 f + 0.3.                              *)
LEMMA WantedLeaning ==
    ASSUME AlphaTenths >= 3, NEW v \in Verdicts, NEW r \in Rows, NEW n \in Nat,
           Leaning(r.q, Wanted(v), n)
    PROVE  Leaning(Learned(r, Wanted(v), Rewards(v, Wanted(v))).q, Wanted(v), n + 1)
<1> DEFINE a == Wanted(v)
           moved == TowardReward(r.q[a], Scale)
<1>1. a \in Actions /\ Rewards(v, a) = Scale
  BY DEF Wanted, Rewards, Actions, Verdicts
<1> HIDE DEF a
<1>2. r.q \in [Actions -> Int] /\ r.q[a] \in Int /\ r.q[a] <= Scale
  BY <1>1, Units DEF Rows
<1>3. r.q[a] >= Grain * Floor(n)
  BY DEF Leaning, a
<1>4. moved \in Int /\ moved >= Grain * Floor(n + 1)
  <2>1. Floor(n) \in Int /\ Floor(n + 1) \in Int
    BY FloorValues
  <2>2. CASE n >= 4
    <3>1. Floor(n + 1) = Floor(n)
      BY <2>2, FloorValues
    <3>2. Scale \in Int
      BY Units
    <3>3. moved \in r.q[a] .. Scale
      BY <1>2, <3>2, TowardUp, Zenon
    <3>4. QED
      BY <1>2, <1>3, <2>1, <3>1, <3>3, Units
  <2>3. CASE n < 4
    <3>1. 10 * Floor(n + 1) <= 7 * Floor(n) + 30000
      BY <2>3, FloorValues
    <3>2. Grain * (10 * Floor(n + 1)) <= Grain * (7 * Floor(n) + 30000)
      BY <2>1, <3>1, Units
    <3>3. 10 * (Grain * Floor(n + 1)) <= 7 * r.q[a] + 3 * Scale
      BY <1>2, <1>3, <2>1, <3>2, Units
    <3>4. 7 * r.q[a] + 3 * Scale <= (10 - AlphaTenths) * r.q[a] + AlphaTenths * Scale
      BY <1>2, Units, LearningAssumption
    <3>5. \A x, y, m \in Int : 10 * x <= m => x <= m \div 10
      OBVIOUS
    <3>6. QED
      BY <1>2, <2>1, <3>3, <3>4, <3>5, Units, LearningAssumption DEF TowardReward
  <2>4. QED
    BY <2>2, <2>3
<1>5. Learned(r, a, Scale).q = [r.q EXCEPT ![a] = moved]
  BY DEF Learned
<1> HIDE DEF moved
<1>6. Leaning([r.q EXCEPT ![a] = moved], a, n + 1)
  BY <1>1, <1>2, <1>4 DEF Leaning, a
<1>7. QED
  BY <1>1, <1>5, <1>6 DEF a

LEMMA LeaningWeaker ==
    ASSUME NEW q \in [Actions -> Int], NEW a \in Actions, NEW n \in Nat, Leaning(q, a, n)
    PROVE  Leaning(q, a, 0)
<1>1. -6000 <= Floor(n) /\ Floor(n) \in Int /\ Floor(0) = -6000
  BY FloorValues
<1>2. Grain * Floor(0) <= Grain * Floor(n)
  BY <1>1, Units
<1>3. QED
  BY <1>1, <1>2, Units DEF Leaning

LEMMA ConvergingNext ==
    ASSUME AlphaTenths >= 3, Taught, Converging, [LearnNext]_learnVars
    PROVE  Converging'
<1>1. ASSUME UNCHANGED <<row, work, confirms, rejects, asked>>
      PROVE  Converging'
  BY <1>1 DEF Converging, Tally, Leaning
<1>2. ASSUME NEW a \in recorded, NEW v \in Verdicts, BeginFeedback(a, v)
      PROVE  Converging'
  BY <1>2 DEF BeginFeedback, Converging, Tally, Leaning
<1>3. /\ confirms \in Nat /\ rejects \in Nat
      /\ \A v \in Verdicts : Tally(v) \in Nat /\ Wanted(v) \in Actions
  BY DEF Taught, LearnTypeOK, Tally, Wanted, Actions
<1>4. ASSUME RewardTaken
      PROVE  Converging'
  <2> SUFFICES ASSUME NEW v \in Verdicts, asked' \subseteq {v}
               PROVE  /\ Leaning(row'.q, Wanted(v), Tally(v)')
                      /\ work' # NoWork => Leaning(work'.copy.q, Wanted(v), Tally(v)')
    BY DEF Converging
  <2>1. /\ work \in Work /\ work # NoWork /\ work.copy \in Rows /\ work.action \in Actions
        /\ asked' = asked /\ work.verdict = v
    BY <1>4, WorkTyped DEF RewardTaken, Taught, Work
  <2>2. Leaning(work.copy.q, Wanted(v), Tally(v))
    BY <2>1 DEF Converging
  <2>3. CASE Endorsed(v, work.action) = work.action
    <3>1. work.action = Wanted(v)
      BY <2>3 DEF Endorsed, Wanted
    <3>2. Tally(v)' = Tally(v) + 1
      BY <1>3, <1>4, <2>1, <2>3 DEF RewardTaken, Applied, Tally, Verdicts
    <3>3. row' = Learned(work.copy, Wanted(v), Rewards(v, Wanted(v))) /\ work' = NoWork
      BY <1>4, <2>1, <2>3, <3>1 DEF RewardTaken
    <3>4. QED
      BY <1>3, <2>1, <2>2, <3>2, <3>3, WantedLeaning
  <2>4. CASE Endorsed(v, work.action) # work.action
    <3>1. work.action \in Actions \ {Wanted(v)}
      BY <2>1, <2>4 DEF Endorsed, Wanted
    <3>2. Tally(v)' = Tally(v) /\ work'.copy = work.copy
      BY <1>4, <2>1, <2>4 DEF RewardTaken, Tally, Work
    <3>3. row' = Learned(work.copy, work.action, Rewards(v, work.action))
      BY <1>4, <2>1 DEF RewardTaken
    <3>4. QED
      BY <1>3, <2>1, <2>2, <3>1, <3>2, <3>3, OtherLeaning
  <2>5. QED
    BY <2>3, <2>4
<1>5. ASSUME ReadForEndorsed
      PROVE  Converging'
  <2>1. work \in Work /\ work # NoWork
    BY <1>5, WorkTyped DEF ReadForEndorsed
  <2>2. QED
    BY <1>5, <2>1 DEF ReadForEndorsed, Converging, Tally, Leaning, Work
<1>6. ASSUME RewardEndorsed
      PROVE  Converging'
  <2> SUFFICES ASSUME NEW v \in Verdicts, asked' \subseteq {v}
               PROVE  Leaning(row'.q, Wanted(v), Tally(v)')
    BY <1>6 DEF Converging, RewardEndorsed
  <2>1. /\ work \in Work /\ work # NoWork /\ work.copy \in Rows
        /\ asked' = asked /\ work.verdict = v
    BY <1>6, WorkTyped DEF RewardEndorsed, Taught, Work
  <2>2. Leaning(work.copy.q, Wanted(v), Tally(v))
    BY <2>1 DEF Converging
  <2>3. Tally(v)' = Tally(v) + 1
    BY <1>3, <1>6, <2>1 DEF RewardEndorsed, Applied, Tally, Verdicts
  <2>4. row' = Learned(work.copy, Wanted(v), Rewards(v, Wanted(v)))
    BY <1>6, <2>1 DEF RewardEndorsed, Endorsed, Wanted
  <2>5. QED
    BY <1>3, <2>1, <2>2, <2>3, <2>4, WantedLeaning
<1>7. ASSUME Reset
      PROVE  Converging'
  <2> SUFFICES ASSUME NEW v \in Verdicts, asked' \subseteq {v}
               PROVE  /\ Leaning(row'.q, Wanted(v), Tally(v)')
                      /\ work' # NoWork => Leaning(work'.copy.q, Wanted(v), Tally(v)')
    BY DEF Converging
  <2>1. Tally(v)' = 0 /\ asked' = asked /\ work' = work /\ row' = Seeded(State)
    BY <1>7 DEF Reset, Tally
  <2>2. Leaning(row'.q, Wanted(v), 0)
    BY <1>3, <2>1, StateTyped, SeededLeaning DEF Taught
  <2>3. work # NoWork => work.copy.q \in [Actions -> Int]
    BY WorkTyped, Units DEF Work, Rows
  <2>4. work # NoWork => Leaning(work.copy.q, Wanted(v), 0)
    BY <1>3, <2>1, <2>3, LeaningWeaker DEF Converging
  <2>5. QED
    BY <2>1, <2>2, <2>4
<1>8. ASSUME Crash
      PROVE  Converging'
  BY <1>8 DEF Crash, Converging, Tally, Leaning
<1>9. QED
  BY <1>1, <1>2, <1>4, <1>5, <1>6, <1>7, <1>8 DEF LearnNext, learnVars, Decide

(* Four verdicts of one kind decide the policy (qlearning.py:388-394),     *)
(* from every prior, however the actions recorded alternate, and wherever  *)
(* resets and crashes fall, if the learning rate is at least the default   *)
(* 0.3; with a rate of 0.2 four are too few.                               *)
THEOREM VerdictsConverge ==
    ASSUME AlphaTenths >= 3
    PROVE  LearnSpec => []Convergence
<1>1. ASSUME LearnInit
      PROVE  Taught /\ Converging
  <2>1. \A v \in Verdicts : Wanted(v) \in Actions /\ Tally(v) = 0
    BY <1>1 DEF LearnInit, Wanted, Actions, Tally
  <2>2. QED
    BY <1>1, <2>1, TaughtInit, StateTyped, SeededLeaning DEF LearnInit, Converging
<1>2. Taught /\ Converging /\ [LearnNext]_learnVars => Taught' /\ Converging'
  BY TaughtNext, ConvergingNext
<1>3. ASSUME Taught, Converging
      PROVE  Convergence
  <2>1. row.q \in [Actions -> Int] /\ confirms \in Nat /\ rejects \in Nat
    BY <1>3, Units DEF Taught, LearnTypeOK, Rows
  <2>2. ASSUME NEW v \in Verdicts, asked = {v}, Tally(v) >= Enough
        PROVE  Preferred = Wanted(v)
    <3>1. Leaning(row.q, Wanted(v), Tally(v)) /\ Floor(Tally(v)) = 6158
      BY <1>3, <2>1, <2>2, FloorValues DEF Converging, Enough, Tally
    <3>2. /\ Wanted(v) \in Actions
          /\ \A b \in Actions \ {Wanted(v)} : row.q[b] < row.q[Wanted(v)]
      BY <2>1, <3>1, Units DEF Leaning, Wanted, Actions
    <3>3. QED
      BY <2>1, <3>2, GreedyCases DEF Preferred, Actions
  <2>3. QED
    BY <2>2 DEF Convergence, Verdicts, Wanted, Tally
<1>4. QED
  BY <1>1, <1>2, <1>3, PTL DEF LearnSpec
=============================================================================
