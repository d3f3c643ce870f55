------------------------- MODULE EventBufferProofs -------------------------
(***************************************************************************)
(* The properties of EventBuffer, proved for every cap, batch size and     *)
(* number of events.                                                       *)
(*                                                                         *)
(* The argument: order is not inductive on the concatenation delivered \o  *)
(* inFlight \o items alone, since an accepted event must be newer than all *)
(* of it.  Stamped adds that every event is at most accepted.  Order is    *)
(* then carried by its six parts: each sequence increases and lies below   *)
(* the sequences after it.                                                 *)
(***************************************************************************)
EXTENDS EventBuffer, FiniteSetTheorems, SequenceTheorems, TLAPS

Below(s, t) == \A i \in DOMAIN s, j \in DOMAIN t : s[i] < t[j]
UpTo(s, n) == \A i \in DOMAIN s : s[i] <= n

(* t is a contiguous part of s that starts after s's first k elements.     *)
WindowAt(t, s, k) == /\ k + Len(t) <= Len(s)
                     /\ \A i \in 1 .. Len(t) : t[i] = s[k + i]

Ordered == /\ Increasing(delivered)
           /\ Increasing(inFlight)
           /\ Increasing(items)
           /\ Below(delivered, inFlight)
           /\ Below(delivered, items)
           /\ Below(inFlight, items)

Stamped == /\ UpTo(delivered, accepted)
           /\ UpTo(inFlight, accepted)
           /\ UpTo(items, accepted)

IInv == BufferTypeOK /\ Bounded /\ Conservation /\ Ordered /\ Stamped

-----------------------------------------------------------------------------
(* A concatenation increases exactly when its parts do and the first lies  *)
(* below the second.                                                       *)
LEMMA ConcatIncreasing ==
    ASSUME NEW s \in Seq(Nat), NEW t \in Seq(Nat)
    PROVE  Increasing(s \o t) <=> Increasing(s) /\ Increasing(t) /\ Below(s, t)
<1> DEFINE u == s \o t
<1>1. /\ u \in Seq(Nat)
      /\ Len(u) = Len(s) + Len(t)
      /\ Len(s) \in Nat /\ Len(t) \in Nat
      /\ \A i \in 1 .. Len(s) : u[i] = s[i]
      /\ \A j \in 1 .. Len(t) : u[Len(s) + j] = t[j]
  OBVIOUS
<1>2. /\ DOMAIN s = 1 .. Len(s)
      /\ DOMAIN t = 1 .. Len(t)
      /\ DOMAIN u = 1 .. (Len(s) + Len(t))
  BY <1>1
<1> HIDE DEF u
<1>3. ASSUME Increasing(u)
      PROVE  Increasing(s) /\ Increasing(t) /\ Below(s, t)
  <2>1. Increasing(s)
    <3> SUFFICES ASSUME NEW i \in 1 .. Len(s), NEW j \in 1 .. Len(s), i < j
                 PROVE  s[i] < s[j]
      BY <1>2 DEF Increasing
    <3>1. i \in DOMAIN u /\ j \in DOMAIN u
      BY <1>1, <1>2
    <3>2. u[i] < u[j]
      BY <1>3, <3>1 DEF Increasing
    <3>3. QED
      BY <1>1, <3>2
  <2>2. Increasing(t)
    <3> SUFFICES ASSUME NEW i \in 1 .. Len(t), NEW j \in 1 .. Len(t), i < j
                 PROVE  t[i] < t[j]
      BY <1>2 DEF Increasing
    <3>a. Len(s) \in Nat /\ Len(t) \in Nat /\ DOMAIN u = 1 .. (Len(s) + Len(t))
      BY <1>1, <1>2
    <3>1. /\ Len(s) + i \in DOMAIN u
          /\ Len(s) + j \in DOMAIN u
          /\ Len(s) + i < Len(s) + j
      BY <3>a
    <3>2. u[Len(s) + i] < u[Len(s) + j]
      BY <1>3, <3>1 DEF Increasing
    <3>3. QED
      BY <1>1, <3>2
  <2>3. Below(s, t)
    <3> SUFFICES ASSUME NEW i \in 1 .. Len(s), NEW j \in 1 .. Len(t)
                 PROVE  s[i] < t[j]
      BY <1>2 DEF Below
    <3>a. Len(s) \in Nat /\ Len(t) \in Nat /\ DOMAIN u = 1 .. (Len(s) + Len(t))
      BY <1>1, <1>2
    <3>1. i \in DOMAIN u /\ Len(s) + j \in DOMAIN u /\ i < Len(s) + j
      BY <3>a
    <3>2. u[i] < u[Len(s) + j]
      BY <1>3, <3>1 DEF Increasing
    <3>3. QED
      BY <1>1, <3>2
  <2>4. QED
    BY <2>1, <2>2, <2>3
<1>4. ASSUME Increasing(s), Increasing(t), Below(s, t)
      PROVE  Increasing(u)
  <2> SUFFICES ASSUME NEW i \in 1 .. (Len(s) + Len(t)),
                      NEW j \in 1 .. (Len(s) + Len(t)), i < j
               PROVE  u[i] < u[j]
    BY <1>2 DEF Increasing
  <2>1. CASE j <= Len(s)
    <3>1. i \in DOMAIN s /\ j \in DOMAIN s
      BY <1>1, <1>2, <2>1
    <3>2. s[i] < s[j]
      BY <1>4, <3>1 DEF Increasing
    <3>3. QED
      BY <1>1, <1>2, <3>1, <3>2
  <2>2. CASE i > Len(s)
    <3> DEFINE a == i - Len(s)
               b == j - Len(s)
    <3>1. /\ a \in 1 .. Len(t) /\ b \in 1 .. Len(t) /\ a < b
          /\ i = Len(s) + a /\ j = Len(s) + b
      BY <1>1, <2>2
    <3>2. t[a] < t[b]
      BY <1>2, <1>4, <3>1 DEF Increasing
    <3>3. u[i] = t[a] /\ u[j] = t[b]
      BY <1>1, <3>1
    <3>4. QED
      BY <3>2, <3>3
  <2>3. CASE i <= Len(s) /\ j > Len(s)
    <3> DEFINE b == j - Len(s)
    <3>1. i \in 1 .. Len(s) /\ b \in 1 .. Len(t) /\ j = Len(s) + b
      BY <1>1, <2>3
    <3>2. s[i] < t[b]
      BY <1>2, <1>4, <3>1 DEF Below
    <3>3. u[i] = s[i] /\ u[j] = t[b]
      BY <1>1, <3>1
    <3>4. QED
      BY <3>2, <3>3
  <2>4. QED
    BY <1>1, <2>1, <2>2, <2>3
<1>5. QED
  BY <1>3, <1>4 DEF u

(* Ordered is InOrder, taken apart.                                        *)
LEMMA OrderedIsInOrder ==
    ASSUME BufferTypeOK
    PROVE  Ordered <=> InOrder
<1> DEFINE front == delivered \o inFlight
<1>1. delivered \in Seq(Nat) /\ inFlight \in Seq(Nat) /\ items \in Seq(Nat)
  BY DEF BufferTypeOK
<1>2. front \in Seq(Nat)
  BY <1>1
<1>3. InOrder <=> Increasing(front) /\ Increasing(items) /\ Below(front, items)
  BY <1>1, <1>2, ConcatIncreasing DEF InOrder
<1>4. Increasing(front) <=> /\ Increasing(delivered)
                            /\ Increasing(inFlight)
                            /\ Below(delivered, inFlight)
  BY <1>1, ConcatIncreasing
<1>5. /\ DOMAIN delivered = 1 .. Len(delivered)
      /\ DOMAIN inFlight = 1 .. Len(inFlight)
      /\ DOMAIN front = 1 .. (Len(delivered) + Len(inFlight))
      /\ Len(delivered) \in Nat /\ Len(inFlight) \in Nat
      /\ \A i \in 1 .. Len(delivered) : front[i] = delivered[i]
      /\ \A j \in 1 .. Len(inFlight) : front[Len(delivered) + j] = inFlight[j]
  BY <1>1, <1>2
<1> HIDE DEF front
<1>6. ASSUME Below(front, items)
      PROVE  Below(delivered, items) /\ Below(inFlight, items)
  <2>1. Below(delivered, items)
    <3> SUFFICES ASSUME NEW i \in 1 .. Len(delivered), NEW j \in DOMAIN items
                 PROVE  delivered[i] < items[j]
      BY <1>5 DEF Below
    <3>1. i \in DOMAIN front
      BY <1>5
    <3>2. front[i] < items[j]
      BY <1>6, <3>1 DEF Below
    <3>3. QED
      BY <1>5, <3>2
  <2>2. Below(inFlight, items)
    <3> SUFFICES ASSUME NEW i \in 1 .. Len(inFlight), NEW j \in DOMAIN items
                 PROVE  inFlight[i] < items[j]
      BY <1>5 DEF Below
    <3>1. Len(delivered) + i \in DOMAIN front
      BY <1>5
    <3>2. front[Len(delivered) + i] < items[j]
      BY <1>6, <3>1 DEF Below
    <3>3. QED
      BY <1>5, <3>2
  <2>3. QED
    BY <2>1, <2>2
<1>7. ASSUME Below(delivered, items), Below(inFlight, items)
      PROVE  Below(front, items)
  <2> SUFFICES ASSUME NEW i \in 1 .. (Len(delivered) + Len(inFlight)),
                      NEW j \in DOMAIN items
               PROVE  front[i] < items[j]
    BY <1>5 DEF Below
  <2>1. CASE i <= Len(delivered)
    BY <1>5, <1>7, <2>1 DEF Below
  <2>2. CASE i > Len(delivered)
    <3> DEFINE a == i - Len(delivered)
    <3>1. a \in 1 .. Len(inFlight) /\ i = Len(delivered) + a
      BY <1>5, <2>2
    <3>2. inFlight[a] < items[j]
      BY <1>5, <1>7, <3>1 DEF Below
    <3>3. front[i] = inFlight[a]
      BY <1>5, <3>1
    <3>4. QED
      BY <3>2, <3>3
  <2>3. QED
    BY <1>5, <2>1, <2>2
<1>8. QED
  BY <1>3, <1>4, <1>6, <1>7 DEF Ordered

-----------------------------------------------------------------------------
(* What a window keeps of its sequence.                                    *)
LEMMA WindowKeeps ==
    ASSUME NEW s \in Seq(Nat), NEW t \in Seq(Nat), NEW k \in Nat, WindowAt(t, s, k)
    PROVE  /\ Increasing(s) => Increasing(t)
           /\ \A n \in Nat : UpTo(s, n) => UpTo(t, n)
           /\ \A r \in Seq(Nat) : Below(r, s) => Below(r, t)
           /\ \A r \in Seq(Nat) : Below(s, r) => Below(t, r)
<1>1. /\ DOMAIN s = 1 .. Len(s) /\ DOMAIN t = 1 .. Len(t)
      /\ Len(s) \in Nat /\ Len(t) \in Nat
  OBVIOUS
<1>2. \A i \in DOMAIN t : k + i \in DOMAIN s /\ t[i] = s[k + i]
  BY <1>1 DEF WindowAt
<1>3. Increasing(s) => Increasing(t)
  <2> SUFFICES ASSUME Increasing(s),
                      NEW i \in DOMAIN t, NEW j \in DOMAIN t, i < j
               PROVE  t[i] < t[j]
    BY DEF Increasing
  <2>1. k + i < k + j
    BY <1>1
  <2>2. s[k + i] < s[k + j]
    BY <1>2, <2>1 DEF Increasing
  <2>3. QED
    BY <1>2, <2>2
<1>4. \A n \in Nat : UpTo(s, n) => UpTo(t, n)
  BY <1>2 DEF UpTo
<1>5. \A r \in Seq(Nat) : Below(r, s) => Below(r, t)
  BY <1>2 DEF Below
<1>6. \A r \in Seq(Nat) : Below(s, r) => Below(t, r)
  BY <1>2 DEF Below
<1>7. QED
  BY <1>3, <1>4, <1>5, <1>6

LEMMA SubSeqWindow ==
    ASSUME NEW s \in Seq(Nat), NEW a \in Nat, NEW b \in Nat, a <= b, b <= Len(s)
    PROVE  /\ SubSeq(s, a + 1, b) \in Seq(Nat)
           /\ Len(SubSeq(s, a + 1, b)) = b - a
           /\ WindowAt(SubSeq(s, a + 1, b), s, a)
<1>1. Len(s) \in Nat
  OBVIOUS
<1>2. \A i \in (a + 1) .. b : s[i] \in Nat
  BY <1>1
<1>3. /\ SubSeq(s, a + 1, b) \in Seq(Nat)
      /\ Len(SubSeq(s, a + 1, b)) = b - a
      /\ \A i \in 1 .. (b - a) : SubSeq(s, a + 1, b)[i] = s[a + i]
  BY <1>1, <1>2, SubSeqProperties
<1>4. QED
  BY <1>1, <1>3 DEF WindowAt

(* Trimming keeps the end of the sequence, at most MaxSize of it, and the  *)
(* overflow counts what went.                                              *)
LEMMA TrimKeepsNewest ==
    ASSUME NEW s \in Seq(Nat)
    PROVE  /\ Trim(s) \in Seq(Nat)
           /\ Overflow(s) \in Nat
           /\ Len(Trim(s)) <= MaxSize
           /\ Len(s) = Overflow(s) + Len(Trim(s))
           /\ WindowAt(Trim(s), s, Overflow(s))
<1>1. Len(s) \in Nat /\ MaxSize \in Nat
  BY BufferAssumption
<1>2. CASE Len(s) <= MaxSize
  <2>1. Trim(s) = s /\ Overflow(s) = 0
    BY <1>1, <1>2 DEF Trim, Overflow
  <2>2. QED
    BY <1>1, <1>2, <2>1 DEF WindowAt
<1>3. CASE Len(s) > MaxSize
  <2> DEFINE a == Len(s) - MaxSize
  <2>1. a \in Nat /\ a <= Len(s)
    BY <1>1, <1>3
  <2>2. Trim(s) = SubSeq(s, a + 1, Len(s))
    BY <1>1, <1>3 DEF Trim, NewestOf
  <2>3. /\ Trim(s) \in Seq(Nat)
        /\ Len(Trim(s)) = MaxSize
        /\ WindowAt(Trim(s), s, a)
    BY <1>1, <2>1, <2>2, SubSeqWindow
  <2>4. Overflow(s) = a
    BY <1>1, <2>3 DEF Overflow
  <2>5. QED
    BY <1>1, <2>1, <2>3, <2>4
<1>4. QED
  BY <1>1, <1>2, <1>3

-----------------------------------------------------------------------------
LEMMA InitIInv == BufferInit => IInv
BY BufferAssumption
   DEF BufferInit, IInv, BufferTypeOK, Bounded, Conservation, Ordered, Stamped,
       Increasing, Below, UpTo

(* Extend: the new events are newer than every event that exists, so the   *)
(* line stays ordered, and trimming keeps a window of it.                  *)
LEMMA ExtendIInv ==
    ASSUME IInv, NEW n \in 1 .. MaxEvents, Extend(n)
    PROVE  IInv'
<1> DEFINE new == [i \in 1 .. n |-> accepted + i]
           full == items \o new
<1>1. /\ items \in Seq(Nat) /\ inFlight \in Seq(Nat) /\ delivered \in Seq(Nat)
      /\ accepted \in Nat /\ dropped \in Nat
      /\ n \in Nat
  BY BufferAssumption DEF IInv, BufferTypeOK
<1>2. /\ new \in Seq(Nat) /\ Len(new) = n
      /\ \A i \in 1 .. n : new[i] = accepted + i
  BY <1>1
<1>3. /\ items' = Trim(full)
      /\ dropped' = dropped + Overflow(full)
      /\ accepted' = accepted + n
      /\ inFlight' = inFlight /\ delivered' = delivered
  BY DEF Extend, Hold
<1>4. /\ full \in Seq(Nat)
      /\ Len(full) = Len(items) + n
      /\ Len(items) \in Nat
      /\ \A i \in 1 .. Len(items) : full[i] = items[i]
      /\ \A i \in 1 .. n : full[Len(items) + i] = accepted + i
  BY <1>1, <1>2
<1> HIDE DEF new
<1>5. Increasing(new)
  BY <1>1, <1>2 DEF Increasing
<1>6. /\ Below(items, new)
      /\ Below(inFlight, new)
      /\ Below(delivered, new)
  BY <1>1, <1>2 DEF IInv, Stamped, UpTo, Below
<1>7. Increasing(full)
  BY <1>1, <1>2, <1>5, <1>6, ConcatIncreasing DEF IInv, Ordered
<1> HIDE DEF full
<1>8. \A k \in DOMAIN full :
         \/ k \in DOMAIN items /\ full[k] = items[k]
         \/ \E i \in 1 .. n : full[k] = accepted + i
  <2> SUFFICES ASSUME NEW k \in 1 .. (Len(items) + n)
               PROVE  \/ k \in 1 .. Len(items) /\ full[k] = items[k]
                      \/ \E i \in 1 .. n : full[k] = accepted + i
    <3>1. DOMAIN full = 1 .. (Len(items) + n) /\ DOMAIN items = 1 .. Len(items)
      BY <1>1, <1>4
    <3>2. QED
      BY <3>1
  <2>1. CASE k <= Len(items)
    BY <1>4, <2>1
  <2>2. CASE k > Len(items)
    <3>1. k - Len(items) \in 1 .. n /\ k = Len(items) + (k - Len(items))
      BY <1>1, <1>4, <2>2
    <3>2. QED
      BY <1>4, <3>1
  <2>3. QED
    BY <1>4, <2>1, <2>2
<1>9. UpTo(full, accepted + n)
  <2> SUFFICES ASSUME NEW k \in DOMAIN full
               PROVE  full[k] <= accepted + n
    BY DEF UpTo
  <2>1. CASE k \in DOMAIN items /\ full[k] = items[k]
    BY <1>1, <2>1 DEF IInv, Stamped, UpTo
  <2>2. CASE \E i \in 1 .. n : full[k] = accepted + i
    BY <1>1, <2>2
  <2>3. QED
    BY <1>8, <2>1, <2>2
<1>10. ASSUME NEW r \in Seq(Nat), Below(r, items), UpTo(r, accepted)
       PROVE  Below(r, full)
  <2> SUFFICES ASSUME NEW m \in DOMAIN r, NEW k \in DOMAIN full
               PROVE  r[m] < full[k]
    BY DEF Below
  <2>1. r[m] \in Nat /\ r[m] <= accepted
    BY <1>10 DEF UpTo
  <2>2. CASE k \in DOMAIN items /\ full[k] = items[k]
    BY <1>10, <2>2 DEF Below
  <2>3. CASE \E i \in 1 .. n : full[k] = accepted + i
    BY <1>1, <2>1, <2>3
  <2>4. QED
    BY <1>8, <2>2, <2>3
<1>11. Below(delivered, full) /\ Below(inFlight, full)
  BY <1>1, <1>10 DEF IInv, Ordered, Stamped
<1>12. /\ Trim(full) \in Seq(Nat)
       /\ Overflow(full) \in Nat
       /\ Len(Trim(full)) <= MaxSize
       /\ Len(full) = Overflow(full) + Len(Trim(full))
       /\ WindowAt(Trim(full), full, Overflow(full))
  BY <1>4, TrimKeepsNewest
<1>13. /\ Increasing(items')
       /\ UpTo(items', accepted + n)
       /\ Below(delivered, items') /\ Below(inFlight, items')
  BY <1>1, <1>3, <1>4, <1>7, <1>9, <1>11, <1>12, WindowKeeps
<1>14. BufferTypeOK'
  BY <1>1, <1>3, <1>12 DEF BufferTypeOK
<1>15. Bounded'
  BY <1>3, <1>12 DEF Bounded
<1>16. Conservation'
  <2>1. accepted = Len(delivered) + Len(inFlight) + Len(items) + dropped
    BY DEF IInv, Conservation
  <2>2. Len(delivered) \in Nat /\ Len(inFlight) \in Nat /\ Len(Trim(full)) \in Nat
    BY <1>1, <1>12
  <2>3. Len(items) + n = Overflow(full) + Len(Trim(full))
    BY <1>4, <1>12
  <2>4. /\ Overflow(full) \in Nat /\ Len(items) \in Nat
        /\ dropped \in Nat /\ accepted \in Nat /\ n \in Nat
    BY <1>1, <1>4, <1>12
  <2>5. accepted + n = Len(delivered) + Len(inFlight) + Len(Trim(full))
                          + (dropped + Overflow(full))
    BY <2>1, <2>2, <2>3, <2>4
  <2>6. QED
    BY <1>3, <2>5 DEF Conservation
<1>17. Ordered'
  BY <1>3, <1>13 DEF IInv, Ordered, Increasing, Below
<1>18. Stamped'
  BY <1>1, <1>3, <1>13 DEF IInv, Stamped, UpTo
<1>19. QED
  BY <1>14, <1>15, <1>16, <1>17, <1>18 DEF IInv

(* Drain: the batch and what stays are two windows of the queue.           *)
LEMMA DrainIInv ==
    ASSUME IInv, Drain
    PROVE  IInv'
<1> DEFINE n == MinOf(MaxBatch, Len(items))
<1>1. /\ items \in Seq(Nat) /\ delivered \in Seq(Nat)
      /\ accepted \in Nat /\ dropped \in Nat
      /\ Len(items) \in Nat /\ MaxBatch \in Nat
  BY BufferAssumption DEF IInv, BufferTypeOK
<1>2. n \in Nat /\ n <= Len(items)
  BY <1>1 DEF MinOf
<1>3. /\ inFlight = <<>>
      /\ inFlight' = SubSeq(items, 0 + 1, n)
      /\ items' = SubSeq(items, n + 1, Len(items))
      /\ accepted' = accepted /\ dropped' = dropped /\ delivered' = delivered
  BY DEF Drain
<1> HIDE DEF n
<1>4. /\ inFlight' \in Seq(Nat)
      /\ Len(inFlight') = n
      /\ WindowAt(inFlight', items, 0)
  <2>1. SubSeq(items, 0 + 1, n) \in Seq(Nat) /\ Len(SubSeq(items, 0 + 1, n)) = n - 0
          /\ WindowAt(SubSeq(items, 0 + 1, n), items, 0)
    BY <1>1, <1>2, SubSeqWindow
  <2>2. QED
    BY <1>2, <1>3, <2>1
<1>5. /\ items' \in Seq(Nat)
      /\ Len(items') = Len(items) - n
      /\ WindowAt(items', items, n)
  <2>1. /\ SubSeq(items, n + 1, Len(items)) \in Seq(Nat)
        /\ Len(SubSeq(items, n + 1, Len(items))) = Len(items) - n
        /\ WindowAt(SubSeq(items, n + 1, Len(items)), items, n)
    BY <1>1, <1>2, SubSeqWindow
  <2>2. QED
    BY <1>3, <2>1
<1>6. BufferTypeOK'
  BY <1>1, <1>3, <1>4, <1>5 DEF BufferTypeOK
<1>7. Bounded'
  BY <1>1, <1>2, <1>5, BufferAssumption DEF IInv, Bounded
<1>8. Conservation'
  <2>1. accepted = Len(delivered) + 0 + Len(items) + dropped
    BY <1>3 DEF IInv, Conservation
  <2>2. accepted = Len(delivered) + n + (Len(items) - n) + dropped
    BY <1>1, <1>2, <2>1
  <2>3. QED
    BY <1>3, <1>4, <1>5, <2>2 DEF Conservation
<1>9. /\ Increasing(inFlight') /\ Increasing(items')
      /\ Below(delivered, inFlight') /\ Below(delivered, items')
      /\ UpTo(inFlight', accepted) /\ UpTo(items', accepted)
  BY <1>1, <1>2, <1>4, <1>5, WindowKeeps DEF IInv, Ordered, Stamped
<1>10. Below(inFlight', items')
  <2> SUFFICES ASSUME NEW i \in 1 .. n, NEW j \in 1 .. (Len(items) - n)
               PROVE  inFlight'[i] < items'[j]
    BY <1>2, <1>4, <1>5 DEF Below
  <2>1. inFlight'[i] = items[i] /\ items'[j] = items[n + j]
    BY <1>2, <1>4, <1>5 DEF WindowAt
  <2>2. i \in DOMAIN items /\ n + j \in DOMAIN items /\ i < n + j
    BY <1>1, <1>2
  <2>3. items[i] < items[n + j]
    BY <2>2 DEF IInv, Ordered, Increasing
  <2>4. QED
    BY <2>1, <2>3
<1>11. Ordered'
  BY <1>3, <1>9, <1>10 DEF IInv, Ordered, Increasing, Below
<1>12. Stamped'
  BY <1>3, <1>9 DEF IInv, Stamped, UpTo
<1>13. QED
  BY <1>6, <1>7, <1>8, <1>11, <1>12 DEF IInv

(* Requeue: the batch and the queue together increase, and trimming keeps a*)
(* window of them, so what comes back is in order behind what was settled. *)
LEMMA RequeueIInv ==
    ASSUME IInv, Requeue
    PROVE  IInv'
<1> DEFINE full == inFlight \o items
<1>1. /\ items \in Seq(Nat) /\ inFlight \in Seq(Nat) /\ delivered \in Seq(Nat)
      /\ accepted \in Nat /\ dropped \in Nat
      /\ Len(items) \in Nat /\ Len(inFlight) \in Nat /\ Len(delivered) \in Nat
  BY DEF IInv, BufferTypeOK
<1>2. /\ items' = Trim(full)
      /\ dropped' = dropped + Overflow(full)
      /\ inFlight' = <<>>
      /\ accepted' = accepted /\ delivered' = delivered
  BY DEF Requeue, Hold, PutBack
<1>3. /\ full \in Seq(Nat)
      /\ Len(full) = Len(inFlight) + Len(items)
      /\ DOMAIN full = 1 .. (Len(inFlight) + Len(items))
      /\ \A i \in 1 .. Len(inFlight) : full[i] = inFlight[i]
      /\ \A i \in 1 .. Len(items) : full[Len(inFlight) + i] = items[i]
  BY <1>1
<1>4. Increasing(full)
  BY <1>1, ConcatIncreasing DEF IInv, Ordered
<1>5. \A k \in DOMAIN full :
         \/ k \in DOMAIN inFlight /\ full[k] = inFlight[k]
         \/ \E i \in DOMAIN items : full[k] = items[i]
  <2> SUFFICES ASSUME NEW k \in 1 .. (Len(inFlight) + Len(items))
               PROVE  \/ k \in 1 .. Len(inFlight) /\ full[k] = inFlight[k]
                      \/ \E i \in 1 .. Len(items) : full[k] = items[i]
    <3>1. DOMAIN inFlight = 1 .. Len(inFlight) /\ DOMAIN items = 1 .. Len(items)
      BY <1>1
    <3>2. QED
      BY <1>3, <3>1
  <2>1. CASE k <= Len(inFlight)
    BY <1>1, <1>3, <2>1
  <2>2. CASE k > Len(inFlight)
    <3>1. /\ k - Len(inFlight) \in 1 .. Len(items)
          /\ k = Len(inFlight) + (k - Len(inFlight))
      BY <1>1, <2>2
    <3>2. QED
      BY <1>3, <3>1
  <2>3. QED
    BY <1>1, <2>1, <2>2
<1> HIDE DEF full
<1>6. UpTo(full, accepted)
  BY <1>5 DEF IInv, Stamped, UpTo
<1>7. Below(delivered, full)
  BY <1>5 DEF IInv, Ordered, Below
<1>8. /\ Trim(full) \in Seq(Nat)
      /\ Overflow(full) \in Nat
      /\ Len(Trim(full)) <= MaxSize
      /\ Len(full) = Overflow(full) + Len(Trim(full))
      /\ WindowAt(Trim(full), full, Overflow(full))
  BY <1>3, TrimKeepsNewest
<1>9. /\ Increasing(items')
      /\ UpTo(items', accepted)
      /\ Below(delivered, items')
  BY <1>1, <1>2, <1>3, <1>4, <1>6, <1>7, <1>8, WindowKeeps
<1>10. BufferTypeOK'
  BY <1>1, <1>2, <1>8 DEF BufferTypeOK
<1>11. Bounded'
  BY <1>2, <1>8 DEF Bounded
<1>12. Conservation'
  <2>1. accepted = Len(delivered) + Len(inFlight) + Len(items) + dropped
    BY DEF IInv, Conservation
  <2>2. Len(inFlight) + Len(items) = Overflow(full) + Len(Trim(full))
    BY <1>3, <1>8
  <2>3. /\ Overflow(full) \in Nat /\ Len(items) \in Nat /\ Len(inFlight) \in Nat
        /\ Len(delivered) \in Nat /\ Len(Trim(full)) \in Nat /\ dropped \in Nat
    BY <1>1, <1>8
  <2>4. accepted = Len(delivered) + 0 + Len(Trim(full)) + (dropped + Overflow(full))
    BY <2>1, <2>2, <2>3
  <2>5. Len(<<>>) = 0
    OBVIOUS
  <2>6. QED
    BY <1>2, <2>4, <2>5 DEF Conservation
<1>13. Ordered'
  BY <1>2, <1>9 DEF IInv, Ordered, Increasing, Below
<1>14. Stamped'
  BY <1>2, <1>9 DEF IInv, Stamped, UpTo
<1>15. QED
  BY <1>10, <1>11, <1>12, <1>13, <1>14 DEF IInv

(* Settle: the batch moves behind the settled ones, in front of the queue. *)
LEMMA SettleIInv ==
    ASSUME IInv, Settle
    PROVE  IInv'
<1> DEFINE full == delivered \o inFlight
<1>1. /\ items \in Seq(Nat) /\ inFlight \in Seq(Nat) /\ delivered \in Seq(Nat)
      /\ accepted \in Nat /\ dropped \in Nat
      /\ Len(items) \in Nat /\ Len(inFlight) \in Nat /\ Len(delivered) \in Nat
  BY DEF IInv, BufferTypeOK
<1>2. /\ delivered' = full /\ inFlight' = <<>>
      /\ items' = items /\ accepted' = accepted /\ dropped' = dropped
  BY DEF Settle
<1>3. /\ full \in Seq(Nat)
      /\ Len(full) = Len(delivered) + Len(inFlight)
  BY <1>1
<1>4. BufferTypeOK'
  BY <1>1, <1>2, <1>3 DEF BufferTypeOK
<1>5. Ordered' /\ Stamped'
  <2>1. /\ Increasing(full)
        /\ \A k \in DOMAIN full :
              \/ k \in DOMAIN delivered /\ full[k] = delivered[k]
              \/ \E i \in DOMAIN inFlight : full[k] = inFlight[i]
    <3>1. Increasing(full)
      BY <1>1, ConcatIncreasing DEF IInv, Ordered
    <3>2. /\ DOMAIN full = 1 .. (Len(delivered) + Len(inFlight))
          /\ DOMAIN delivered = 1 .. Len(delivered)
          /\ DOMAIN inFlight = 1 .. Len(inFlight)
          /\ \A i \in 1 .. Len(delivered) : full[i] = delivered[i]
          /\ \A i \in 1 .. Len(inFlight) : full[Len(delivered) + i] = inFlight[i]
      BY <1>1
    <3> HIDE DEF full
    <3>3. ASSUME NEW k \in 1 .. (Len(delivered) + Len(inFlight))
          PROVE  \/ k \in 1 .. Len(delivered) /\ full[k] = delivered[k]
                 \/ \E i \in 1 .. Len(inFlight) : full[k] = inFlight[i]
      <4>1. CASE k <= Len(delivered)
        BY <1>1, <3>2, <4>1
      <4>2. CASE k > Len(delivered)
        <5>1. /\ k - Len(delivered) \in 1 .. Len(inFlight)
              /\ k = Len(delivered) + (k - Len(delivered))
          BY <1>1, <4>2
        <5>2. QED
          BY <3>2, <5>1
      <4>3. QED
        BY <1>1, <4>1, <4>2
    <3>4. QED
      BY <3>1, <3>2, <3>3
  <2> HIDE DEF full
  <2>2. Below(full, items)
    BY <2>1 DEF IInv, Ordered, Below
  <2>3. UpTo(full, accepted)
    BY <2>1 DEF IInv, Stamped, UpTo
  <2>4. QED
    BY <1>2, <2>1, <2>2, <2>3 DEF IInv, Ordered, Stamped, Increasing, Below, UpTo
<1>6. Bounded'
  BY <1>2 DEF IInv, Bounded
<1>7. Conservation'
  <2>1. accepted = Len(delivered) + Len(inFlight) + Len(items) + dropped
    BY DEF IInv, Conservation
  <2>2. Len(<<>>) = 0
    OBVIOUS
  <2>3. accepted = Len(full) + 0 + Len(items) + dropped
    BY <1>1, <1>3, <2>1
  <2>4. QED
    BY <1>2, <2>2, <2>3 DEF Conservation
<1>8. QED
  BY <1>4, <1>5, <1>6, <1>7 DEF IInv

LEMMA StutterIInv ==
    ASSUME IInv, UNCHANGED bufferVars
    PROVE  IInv'
BY DEF bufferVars, IInv, BufferTypeOK, Bounded, Conservation, Ordered, Stamped,
       Increasing, Below, UpTo

-----------------------------------------------------------------------------
(* The inductive invariant of the buffer, whatever the interleaving of the *)
(* collectors (buffer.py:37-47) with the flush loop (main.py:127-142).     *)
THEOREM Inductive == BufferSpec => []IInv
<1>1. BufferInit => IInv
  BY InitIInv
<1>2. IInv /\ [BufferNext]_bufferVars => IInv'
  <2> SUFFICES ASSUME IInv, [BufferNext]_bufferVars
               PROVE  IInv'
    OBVIOUS
  <2>1. CASE \E n \in 1 .. MaxEvents : Extend(n)
    BY <2>1, ExtendIInv
  <2>2. CASE Drain
    BY <2>2, DrainIInv
  <2>3. CASE Requeue
    BY <2>3, RequeueIInv
  <2>4. CASE Settle
    BY <2>4, SettleIInv
  <2>5. CASE UNCHANGED bufferVars
    BY <2>5, StutterIInv
  <2>6. QED
    BY <2>1, <2>2, <2>3, <2>4, <2>5 DEF BufferNext
<1>3. QED
  BY <1>1, <1>2, PTL DEF BufferSpec

(* The variables keep their types.                                         *)
THEOREM TypeCorrect == BufferSpec => []BufferTypeOK
<1>1. IInv => BufferTypeOK
  BY DEF IInv
<1>2. QED
  BY <1>1, Inductive, PTL

(* The cap of buffer.py:6-10 holds, also across a requeue.                 *)
THEOREM BufferBounded == BufferSpec => []Bounded
<1>1. IInv => Bounded
  BY DEF IInv
<1>2. QED
  BY <1>1, Inductive, PTL

(* The counters of buffer.py:89-96 account for every event.                *)
THEOREM BufferConserves == BufferSpec => []Conservation
<1>1. IInv => Conservation
  BY DEF IInv
<1>2. QED
  BY <1>1, Inductive, PTL

(* Order survives every mix of overflow and failed send (buffer.py:11-13). *)
THEOREM BufferInOrder == BufferSpec => []InOrder
<1>1. IInv => InOrder
  BY OrderedIsInOrder DEF IInv
<1>2. QED
  BY <1>1, Inductive, PTL

-----------------------------------------------------------------------------
(* Of an increasing sequence, trimming loses elements below all it keeps.  *)
LEMMA TrimLosesOldest ==
    ASSUME NEW s \in Seq(Nat), Increasing(s),
           NEW e \in Elems(s) \ Elems(Trim(s)), NEW kept \in Elems(Trim(s))
    PROVE  e < kept
<1>1. /\ Len(s) \in Nat /\ DOMAIN s = 1 .. Len(s)
      /\ Trim(s) \in Seq(Nat) /\ Overflow(s) \in Nat
      /\ Len(s) = Overflow(s) + Len(Trim(s))
      /\ WindowAt(Trim(s), s, Overflow(s))
  BY TrimKeepsNewest
<1>2. /\ Len(Trim(s)) \in Nat /\ DOMAIN Trim(s) = 1 .. Len(Trim(s))
      /\ \A i \in 1 .. Len(Trim(s)) : Trim(s)[i] = s[Overflow(s) + i]
  BY <1>1 DEF WindowAt
<1>3. PICK i \in 1 .. Len(s) : e = s[i]
  BY <1>1 DEF Elems
<1>4. PICK j \in 1 .. Len(Trim(s)) : kept = Trim(s)[j]
  BY <1>2 DEF Elems
<1>5. i <= Overflow(s)
  <2> SUFFICES ASSUME i > Overflow(s)
               PROVE  FALSE
    BY <1>1
  <2> DEFINE k == i - Overflow(s)
  <2>1. k \in 1 .. Len(Trim(s)) /\ i = Overflow(s) + k
    BY <1>1, <1>2
  <2>2. e = Trim(s)[k]
    BY <1>2, <1>3, <2>1
  <2>3. QED
    BY <1>2, <2>1, <2>2 DEF Elems
<1>6. i \in DOMAIN s /\ Overflow(s) + j \in DOMAIN s /\ i < Overflow(s) + j
  BY <1>1, <1>2, <1>5
<1>7. s[i] < s[Overflow(s) + j]
  BY <1>6 DEF Increasing
<1>8. QED
  BY <1>2, <1>3, <1>4, <1>7

(* The elements of a concatenation are those of its parts.                 *)
LEMMA ConcatElems ==
    ASSUME NEW s \in Seq(Nat), NEW t \in Seq(Nat)
    PROVE  Elems(s \o t) = Elems(s) \cup Elems(t)
<1>1. /\ Len(s) \in Nat /\ Len(t) \in Nat
      /\ DOMAIN s = 1 .. Len(s) /\ DOMAIN t = 1 .. Len(t)
      /\ DOMAIN (s \o t) = 1 .. (Len(s) + Len(t))
      /\ \A i \in 1 .. Len(s) : (s \o t)[i] = s[i]
      /\ \A i \in 1 .. Len(t) : (s \o t)[Len(s) + i] = t[i]
  OBVIOUS
<1>2. ASSUME NEW i \in 1 .. Len(s)
      PROVE  s[i] \in Elems(s \o t)
  BY <1>1 DEF Elems
<1>3. ASSUME NEW i \in 1 .. Len(t)
      PROVE  t[i] \in Elems(s \o t)
  <2>1. Len(s) + i \in DOMAIN (s \o t)
    BY <1>1
  <2>2. QED
    BY <1>1, <2>1 DEF Elems
<1>4. ASSUME NEW i \in 1 .. (Len(s) + Len(t))
      PROVE  (s \o t)[i] \in Elems(s) \cup Elems(t)
  <2>1. CASE i <= Len(s)
    BY <1>1, <2>1 DEF Elems
  <2>2. CASE i > Len(s)
    <3>1. i - Len(s) \in 1 .. Len(t) /\ i = Len(s) + (i - Len(s))
      BY <1>1, <2>2
    <3>2. (s \o t)[i] = t[i - Len(s)]
      BY <1>1, <3>1
    <3>3. QED
      BY <1>1, <3>1, <3>2 DEF Elems
  <2>3. QED
    BY <1>1, <2>1, <2>2
<1>5. QED
  BY <1>1, <1>2, <1>3, <1>4 DEF Elems

(* Every loss is a loss of the oldest (buffer.py:6-7): the queue with the  *)
(* events put in front of it or behind it increases, so the trimmed prefix *)
(* is older than the rest.                                                 *)
THEOREM BufferLosesOnlyOldest == BufferSpec => LosesOnlyOldest
<1>1. IInv /\ [BufferNext]_bufferVars => [LossIsOldest]_bufferVars
  <2> SUFFICES ASSUME IInv, IInv', BufferNext,
                      NEW e \in (Elems(items) \cup Elems(inFlight))
                         \ (Elems(items') \cup Elems(inFlight') \cup Elems(delivered')),
                      NEW kept \in Elems(items')
               PROVE  e < kept
    <3>1. IInv /\ BufferNext => IInv'
      BY ExtendIInv, DrainIInv, RequeueIInv, SettleIInv DEF BufferNext
    <3>2. QED
      BY <3>1 DEF LossIsOldest
  <2>1. /\ items \in Seq(Nat) /\ inFlight \in Seq(Nat) /\ delivered \in Seq(Nat)
        /\ accepted \in Nat
    BY DEF IInv, BufferTypeOK
  <2>2. ASSUME NEW n \in 1 .. MaxEvents, Extend(n)
        PROVE  e < kept
    <3> DEFINE new == [i \in 1 .. n |-> accepted + i]
    <3>1. new \in Seq(Nat) /\ Increasing(new) /\ Below(items, new)
      <4>1. new \in Seq(Nat) /\ DOMAIN new = 1 .. n
        BY <2>1
      <4>2. Increasing(new)
        BY <2>1 DEF Increasing
      <4>3. Below(items, new)
        BY <2>1 DEF IInv, Stamped, UpTo, Below
      <4>4. QED
        BY <4>1, <4>2, <4>3
    <3>2. items' = Trim(items \o new) /\ inFlight' = inFlight
      BY <2>2 DEF Extend, Hold
    <3> HIDE DEF new
    <3>3. items \o new \in Seq(Nat) /\ Increasing(items \o new)
      BY <2>1, <3>1, ConcatIncreasing DEF IInv, Ordered
    <3>4. e \in Elems(items \o new)
      BY <2>1, <3>1, <3>2, ConcatElems
    <3>5. QED
      BY <3>2, <3>3, <3>4, TrimLosesOldest
  <2>3. CASE Drain
    <3> DEFINE n == MinOf(MaxBatch, Len(items))
    <3>1. /\ inFlight = <<>>
          /\ inFlight' = SubSeq(items, 1, n)
          /\ items' = SubSeq(items, n + 1, Len(items))
          /\ Len(items) \in Nat /\ DOMAIN items = 1 .. Len(items)
          /\ n \in Nat /\ n <= Len(items)
      BY <2>1, <2>3, BufferAssumption DEF Drain, MinOf
    <3> HIDE DEF n
    <3>2. PICK i \in 1 .. Len(items) : e = items[i]
      BY <3>1 DEF Elems
    <3>3. CASE i <= n
      <4>1. i \in DOMAIN inFlight' /\ inFlight'[i] = items[i]
        BY <2>1, <3>1, <3>3
      <4>2. QED
        BY <3>2, <4>1 DEF Elems
    <3>4. CASE i > n
      <4>1. i - n \in DOMAIN items' /\ items'[i - n] = items[i]
        BY <2>1, <3>1, <3>4
      <4>2. QED
        BY <3>2, <4>1 DEF Elems
    <3>5. QED
      BY <3>1, <3>3, <3>4
  <2>4. CASE Requeue
    <3>1. items' = Trim(inFlight \o items)
      BY <2>4 DEF Requeue, Hold, PutBack
    <3>2. inFlight \o items \in Seq(Nat) /\ Increasing(inFlight \o items)
      BY <2>1, ConcatIncreasing DEF IInv, Ordered
    <3>3. e \in Elems(inFlight \o items)
      BY <2>1, ConcatElems
    <3>4. QED
      BY <3>1, <3>2, <3>3, TrimLosesOldest
  <2>5. CASE Settle
    <3>1. items' = items /\ delivered' = delivered \o inFlight
      BY <2>5 DEF Settle
    <3>2. e \in Elems(inFlight)
      BY <3>1
    <3>3. QED
      BY <2>1, <3>1, <3>2, ConcatElems
  <2>6. QED
    BY <2>2, <2>3, <2>4, <2>5 DEF BufferNext
<1>2. QED
  BY <1>1, Inductive, PTL DEF BufferSpec, LosesOnlyOldest

-----------------------------------------------------------------------------
(* The drop counter counts events, not only operations: what is accepted   *)
(* and nowhere to be found any more is exactly as many events as dropped.  *)
Held == Elems(delivered) \cup Elems(inFlight) \cup Elems(items)
Numbered == 0 \notin Held
DropsAreLosses == Cardinality((1 .. accepted) \ Held) = dropped

LEMMA WindowElems ==
    ASSUME NEW s \in Seq(Nat), NEW t \in Seq(Nat), NEW k \in Nat, WindowAt(t, s, k)
    PROVE  Elems(t) \subseteq Elems(s)
<1>1. /\ DOMAIN s = 1 .. Len(s) /\ DOMAIN t = 1 .. Len(t)
      /\ Len(s) \in Nat /\ Len(t) \in Nat
  OBVIOUS
<1>2. \A i \in DOMAIN t : k + i \in DOMAIN s /\ t[i] = s[k + i]
  BY <1>1 DEF WindowAt
<1>3. QED
  BY <1>2 DEF Elems

(* An increasing sequence has as many elements as places.                  *)
LEMMA IncreasingCounts ==
    ASSUME NEW s \in Seq(Nat), Increasing(s)
    PROVE  IsFiniteSet(Elems(s)) /\ Cardinality(Elems(s)) = Len(s)
<1>1. Len(s) \in Nat /\ DOMAIN s = 1 .. Len(s)
  OBVIOUS
<1>2. \A i \in 1 .. Len(s) : s[i] \in Nat
  OBVIOUS
<1>3. s \in [1 .. Len(s) -> Elems(s)]
  BY <1>1 DEF Elems
<1>4. ASSUME NEW i \in 1 .. Len(s), NEW j \in 1 .. Len(s), s[i] = s[j]
      PROVE  i = j
  <2>1. ~(i < j) /\ ~(j < i)
    BY <1>1, <1>2, <1>4 DEF Increasing
  <2>2. QED
    BY <1>1, <2>1
<1>5. \A e \in Elems(s) : \E i \in 1 .. Len(s) : s[i] = e
  BY <1>1 DEF Elems
<1>6. s \in Bijection(1 .. Len(s), Elems(s))
  <2>1. s \in Injection(1 .. Len(s), Elems(s))
    <3>1. \A i, j \in 1 .. Len(s) : s[i] = s[j] => i = j
      BY <1>4
    <3>2. QED
      BY <1>1, <1>3, <3>1 DEF Injection, IsInjective
  <2>2. s \in Surjection(1 .. Len(s), Elems(s))
    BY <1>3, <1>5 DEF Surjection
  <2>3. QED
    BY <2>1, <2>2 DEF Bijection
<1>7. IsFiniteSet(1 .. Len(s)) /\ Cardinality(1 .. Len(s)) = Len(s)
  <2>1. /\ IsFiniteSet(1 .. Len(s))
        /\ Cardinality(1 .. Len(s)) = IF 1 > Len(s) THEN 0 ELSE Len(s) - 1 + 1
    BY <1>1, FS_Interval
  <2>2. QED
    BY <1>1, <2>1
<1>8. QED
  BY <1>6, <1>7, FS_Bijection DEF ExistsBijection

(* No event is number 0: new ones are numbered on from accepted, and the   *)
(* other operations only move events.                                      *)
LEMMA NumberedStep == IInv /\ Numbered /\ [BufferNext]_bufferVars => Numbered'
<1> SUFFICES ASSUME IInv, Numbered, [BufferNext]_bufferVars
             PROVE  Numbered'
  OBVIOUS
<1>t. /\ items \in Seq(Nat) /\ inFlight \in Seq(Nat) /\ delivered \in Seq(Nat)
      /\ accepted \in Nat /\ Len(items) \in Nat
  BY DEF IInv, BufferTypeOK
<1>m. \A s \in Seq(Nat) : Elems(Trim(s)) \subseteq Elems(s)
  BY TrimKeepsNewest, WindowElems
<1>1. ASSUME NEW n \in 1 .. MaxEvents, Extend(n)
      PROVE  Numbered'
  <2> DEFINE new == [i \in 1 .. n |-> accepted + i]
  <2>1. new \in Seq(Nat) /\ 0 \notin Elems(new)
    BY <1>t DEF Elems
  <2>2. items' = Trim(items \o new) /\ UNCHANGED <<inFlight, delivered>>
    BY <1>1 DEF Extend, Hold
  <2> HIDE DEF new
  <2>3. items \o new \in Seq(Nat) /\ Elems(items \o new) = Elems(items) \cup Elems(new)
    BY <1>t, <2>1, ConcatElems
  <2>4. 0 \notin Elems(items \o new)
    BY <2>1, <2>3 DEF Numbered, Held
  <2>5. 0 \notin Elems(items')
    BY <1>m, <2>2, <2>3, <2>4
  <2>6. QED
    BY <2>2, <2>5 DEF Numbered, Held
<1>2. CASE Drain
  <2> DEFINE n == MinOf(MaxBatch, Len(items))
  <2>1. n \in Nat /\ n <= Len(items)
    BY <1>t, BufferAssumption DEF MinOf
  <2>2. /\ inFlight' = SubSeq(items, 1, n) /\ items' = SubSeq(items, n + 1, Len(items))
        /\ delivered' = delivered
    BY <1>2 DEF Drain
  <2> HIDE DEF n
  <2>3. Elems(items') \subseteq Elems(items)
    <3>1. /\ SubSeq(items, n + 1, Len(items)) \in Seq(Nat)
          /\ WindowAt(SubSeq(items, n + 1, Len(items)), items, n)
      BY <1>t, <2>1, SubSeqWindow
    <3>2. QED
      BY <1>t, <2>1, <2>2, <3>1, WindowElems
  <2>4. Elems(inFlight') \subseteq Elems(items)
    <3>1. 0 \in Nat /\ 0 <= n /\ 0 + 1 = 1
      BY <2>1
    <3>2. SubSeq(items, 1, n) \in Seq(Nat) /\ WindowAt(SubSeq(items, 1, n), items, 0)
      BY <1>t, <2>1, <3>1, SubSeqWindow
    <3>3. QED
      BY <1>t, <2>2, <3>1, <3>2, WindowElems
  <2>5. QED
    BY <2>2, <2>3, <2>4 DEF Numbered, Held
<1>3. CASE Requeue
  <2>1. items' = Trim(inFlight \o items) /\ inFlight' = <<>> /\ delivered' = delivered
    BY <1>3 DEF Requeue, Hold, PutBack
  <2>2. /\ inFlight \o items \in Seq(Nat)
        /\ Elems(inFlight \o items) = Elems(inFlight) \cup Elems(items)
    BY <1>t, ConcatElems
  <2>3. Elems(items') \subseteq Elems(inFlight) \cup Elems(items)
    BY <1>m, <2>1, <2>2
  <2>4. Elems(<<>>) = {}
    BY DEF Elems
  <2>5. QED
    BY <2>1, <2>3, <2>4 DEF Numbered, Held
<1>4. CASE Settle
  <2>1. delivered' = delivered \o inFlight /\ inFlight' = <<>> /\ items' = items
    BY <1>4 DEF Settle
  <2>2. Elems(delivered') = Elems(delivered) \cup Elems(inFlight)
    BY <1>t, <2>1, ConcatElems
  <2>3. Elems(<<>>) = {}
    BY DEF Elems
  <2>4. QED
    BY <2>1, <2>2, <2>3 DEF Numbered, Held
<1>5. CASE UNCHANGED bufferVars
  BY <1>5 DEF bufferVars, Numbered, Held
<1>6. QED
  BY <1>1, <1>2, <1>3, <1>4, <1>5 DEF BufferNext

(* The gap the drop counter shows is the gap there is (buffer.py:9-10).    *)
THEOREM BufferCountsLosses == BufferSpec => []DropsAreLosses
<1>1. BufferInit => Numbered
  BY DEF BufferInit, Numbered, Held, Elems
<1>2. IInv /\ Numbered => DropsAreLosses
  <2> SUFFICES ASSUME IInv, Numbered
               PROVE  Cardinality((1 .. accepted) \ Held) = dropped
    BY DEF DropsAreLosses
  <2> DEFINE line == delivered \o inFlight \o items
  <2>1. /\ items \in Seq(Nat) /\ inFlight \in Seq(Nat) /\ delivered \in Seq(Nat)
        /\ accepted \in Nat /\ dropped \in Nat
        /\ delivered \o inFlight \in Seq(Nat)
    BY DEF IInv, BufferTypeOK
  <2>2. line \in Seq(Nat) /\ Len(line) = accepted - dropped
    <3>1. Len(line) = Len(delivered) + Len(inFlight) + Len(items)
      BY <2>1
    <3>2. /\ Len(delivered) \in Nat /\ Len(inFlight) \in Nat /\ Len(items) \in Nat
          /\ accepted = Len(delivered) + Len(inFlight) + Len(items) + dropped
      BY <2>1 DEF IInv, Conservation
    <3>3. QED
      BY <2>1, <3>1, <3>2
  <2>3. Held = Elems(line)
    BY <2>1, ConcatElems DEF Held
  <2>4. Increasing(line)
    BY OrderedIsInOrder DEF IInv, InOrder
  <2>5. IsFiniteSet(Held) /\ Cardinality(Held) = accepted - dropped
    BY <2>2, <2>3, <2>4, IncreasingCounts
  <2>6. Held \subseteq 1 .. accepted
    BY <2>1 DEF Held, Elems, Numbered, IInv, Stamped, UpTo
  <2>7. IsFiniteSet(1 .. accepted) /\ Cardinality(1 .. accepted) = accepted
    BY <2>1, FS_Interval
  <2> DEFINE lost == (1 .. accepted) \ Held
  <2>8. IsFiniteSet(lost) /\ Cardinality(lost) \in Nat
    BY <2>7, FS_Subset, FS_CardinalityType
  <2>9. 1 .. accepted = Held \cup lost /\ Held \cap lost = {}
    BY <2>6
  <2> HIDE DEF lost, line
  <2>10. Cardinality(Held \cup lost) = Cardinality(Held) + Cardinality(lost) - Cardinality({})
    BY <2>5, <2>8, <2>9, FS_Union
  <2>11. accepted = (accepted - dropped) + Cardinality(lost) - 0
    BY <2>5, <2>7, <2>9, <2>10, FS_EmptySet
  <2>12. QED
    BY <2>1, <2>8, <2>11 DEF lost
<1>3. QED
  BY <1>1, <1>2, NumberedStep, Inductive, PTL DEF BufferSpec

=============================================================================
