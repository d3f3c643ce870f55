---------------------------- MODULE EventBuffer ----------------------------
(***************************************************************************)
(* The bounded, thread-safe queue between the agent's collector threads    *)
(* and its flush loop (agent/buffer.py), together with the one batch the   *)
(* flush loop may hold outside it (EndpointAgent.flush_once).              *)
(*                                                                         *)
(* Every method body runs under the buffer's RLock, so each is one action. *)
(* Collectors may run between the loop's drain and its requeue, because    *)
(* the lock is not held while a batch is on the wire.                      *)
(*                                                                         *)
(* An event is named by the order in which the buffer accepted it.         *)
(***************************************************************************)
EXTENDS Naturals, Sequences

CONSTANTS MaxSize,    \* max_size: the cap, at least 1 whatever the config says
          MaxBatch,   \* cfg.max_batch, validated to be at least 1
          MaxEvents   \* bound: events the collectors produce

ASSUME BufferAssumption == /\ MaxSize \in Nat \ {0}
                           /\ MaxBatch \in Nat \ {0}
                           /\ MaxEvents \in Nat

VARIABLES items,      \* _items, oldest first
          accepted,   \* the accepted counter
          dropped,    \* the dropped counter
          inFlight,   \* the batch flush_once drained and has not settled
          delivered   \* history: events of the batches settled by success

bufferVars == <<items, accepted, dropped, inFlight, delivered>>

Elems(s) == {s[i] : i \in DOMAIN s}
Increasing(s) == \A i, j \in DOMAIN s : i < j => s[i] < s[j]
MinOf(a, b) == IF a < b THEN a ELSE b
NewestOf(s, n) == SubSeq(s, Len(s) - n + 1, Len(s))

-----------------------------------------------------------------------------
(* Altered forms of the helpers below, to see the properties fail.         *)

TrimNewestFirst(s) == SubSeq(s, 1, MinOf(Len(s), MaxSize))
TrimOffByOne(s) == IF Len(s) <= MaxSize + 1 THEN s ELSE NewestOf(s, MaxSize)
OverflowUncounted(s) == 0
OverflowNegated(s) == Len(TrimNewestFirst(s)) - Len(s)
PutBackAtEnd(batch) == items \o batch

-----------------------------------------------------------------------------
(* _trim: popleft until the cap holds; the overflow is added to dropped.   *)
Trim(s) == IF Len(s) <= MaxSize THEN s ELSE NewestOf(s, MaxSize)

Overflow(s) == Len(s) - Len(Trim(s))

(* What requeue's extendleft(reversed(events)) leaves before it trims.     *)
PutBack(batch) == batch \o items

Hold(s) == /\ items' = Trim(s)
           /\ dropped' = dropped + Overflow(s)

BufferInit ==
    /\ items = <<>>
    /\ accepted = 0
    /\ dropped = 0
    /\ inFlight = <<>>
    /\ delivered = <<>>

(* extend(events) with n new events; add(event) is the case n = 1.         *)
Extend(n) ==
    /\ accepted + n <= MaxEvents
    /\ accepted' = accepted + n
    /\ Hold(items \o [i \in 1 .. n |-> accepted + i])
    /\ UNCHANGED <<inFlight, delivered>>

(* drain(max_batch), called by flush_once; an empty result sends nothing.  *)
Drain ==
    /\ inFlight = <<>>
    /\ items # <<>>
    /\ LET n == MinOf(MaxBatch, Len(items))
       IN /\ inFlight' = SubSeq(items, 1, n)
          /\ items' = SubSeq(items, n + 1, Len(items))
    /\ UNCHANGED <<accepted, dropped, delivered>>

(* flush_once's except branch: the batch goes back to the front.           *)
Requeue ==
    /\ inFlight # <<>>
    /\ Hold(PutBack(inFlight))
    /\ inFlight' = <<>>
    /\ UNCHANGED <<accepted, delivered>>

(* flush_once after transport.send returned: the batch is forgotten.       *)
Settle ==
    /\ inFlight # <<>>
    /\ delivered' = delivered \o inFlight
    /\ inFlight' = <<>>
    /\ UNCHANGED <<items, accepted, dropped>>

BufferNext == \/ \E n \in 1 .. MaxEvents : Extend(n)
              \/ Drain
              \/ Requeue
              \/ Settle

BufferSpec == BufferInit /\ [][BufferNext]_bufferVars

-----------------------------------------------------------------------------
BufferTypeOK ==
    /\ items \in Seq(Nat)
    /\ accepted \in Nat
    /\ dropped \in Nat
    /\ inFlight \in Seq(Nat)
    /\ delivered \in Seq(Nat)

(* Bounded (buffer.py:6-10): the cap holds after every operation, also when*)
(* a failed batch comes back to a buffer the collectors refilled meanwhile.*)
Bounded == Len(items) <= MaxSize

(* "The drop count is reported so the gap is visible rather than silent"   *)
(* (buffer.py:9-10): the counters account for every event ever accepted,   *)
(* wherever it is now.                                                     *)
Conservation ==
    accepted = Len(delivered) + Len(inFlight) + Len(items) + dropped

(* "preserving order" (buffer.py:11-13): whatever mix of overflows and     *)
(* failed sends happened, the settled batches, the batch on the wire and   *)
(* the queue read in that order are in the order of collection, with no    *)
(* event twice.                                                            *)
InOrder == Increasing(delivered \o inFlight \o items)

(* "the oldest events are dropped" (buffer.py:6-7): what a step loses from *)
(* queue and wire is older than everything the queue keeps.                *)
LossIsOldest ==
    \A e \in (Elems(items) \cup Elems(inFlight))
                 \ (Elems(items') \cup Elems(inFlight') \cup Elems(delivered')),
       kept \in Elems(items') : e < kept

LosesOnlyOldest == [][LossIsOldest]_bufferVars
=============================================================================
