-------------------------- MODULE DeliveryProofs --------------------------
(***************************************************************************)
(* The safety properties of Delivery, proved for every cap, batch size and *)
(* number of events, handshakes, sealed batches and faults.                *)
(*                                                                         *)
(* The arguments.  The agent's steps are steps of EventBuffer, so what is  *)
(* proved there holds here.  An acknowledgement means a stored batch       *)
(* because the call's batch is the one in flight and its answer comes from *)
(* the pipeline (Answered).  That the live batch is never a replay, and a  *)
(* late copy of an acknowledged one never opened, is not inductive: Keys   *)
(* says which session keys batches and handshakes still under way may      *)
(* carry, and Numbers how far the server's sequence number can be.         *)
(***************************************************************************)
EXTENDS Delivery, FiniteSetTheorems, SequenceTheorems, TLAPS

Proofs == INSTANCE EventBufferProofs

Hands == [type : {"handshake"}, key : Nat \ {0}]
Sealed == [type : {"batch"}, key : Nat \ {0}, seq : Nat \ {0}, events : Seq(Nat)]

Waiting == call # NoCall
Posting == call \in Sealed
Shaking == call \in Hands

(* The batches sent and still on their way, waiting or being processed.    *)
Sent == (requests \cup opened \cup {pipeline}) \cap Sealed
SentKeys == {b.key : b \in Sent}

Shape ==
    /\ requests \subseteq Hands \cup Sealed
    /\ opened \subseteq Sealed
    /\ pipeline \in Sealed \cup {NoBatch}
    /\ log \in Seq(Sealed)
    /\ session \in [key : Nat, lastSeq : Nat]
    /\ key \in Nat /\ seq \in Nat /\ nextKey \in Nat \ {0}
    /\ phase \in {"start", "connect", "idle", "post", "rekey", "repost", "exited"}
    /\ phase \in {"start", "idle", "exited"} => call = NoCall /\ reply = "none"
    /\ phase \in {"connect", "rekey"} => Shaking
    /\ phase \in {"post", "repost"} => Posting /\ call.events = inFlight
    /\ phase \in {"idle", "post", "rekey", "repost"} => key # NoKey
    /\ Posting => call.key = key /\ call.seq = seq

(* What the server has answered, or is about to answer, with 200 is stored.*)
Answered ==
    /\ pipeline \in Sealed => Elems(pipeline.events) \subseteq Logged
    /\ reply = "ok" /\ Posting => Elems(call.events) \subseteq Logged

(* A handshake still under way has a key no batch has and the agent does   *)
(* not use; a batch of another key than the agent's is of no session, and  *)
(* will be of none.                                                        *)
Keys ==
    /\ key < nextKey
    /\ \A b \in Sent : b.key < nextKey /\ (b.key # key => b.key # session.key)
    /\ \A h \in (requests \cup {call}) \cap Hands :
          h.key # key /\ h.key < nextKey /\ h.key \notin SentKeys
    /\ Shaking /\ reply = "ok" => /\ call \notin requests
                                  /\ session.key \notin SentKeys /\ session.lastSeq = 0

(* Under the agent's key the server is at most as far as the agent, behind *)
(* it as long as the live batch is under way and level once it has opened  *)
(* it; under any other key it has opened nothing.                          *)
Numbers ==
    /\ session.key # key => session.lastSeq = 0
    /\ session.key = key => session.lastSeq <= seq
    /\ \A b \in Sent : b.key = key => b.seq <= seq /\ (Posting /\ b # call => b.seq < seq)
    /\ Posting /\ session.key = key =>
          /\ call \in requests => session.lastSeq < seq
          /\ call \in opened \cup {pipeline} \/ reply = "ok" => session.lastSeq = seq

(* A batch the server would open holds nothing that was acknowledged.      *)
FreshOnly ==
    \A b \in requests \cap Sealed :
        b.key = session.key /\ b.seq > session.lastSeq
            => Elems(b.events) \cap Elems(delivered) = {}

(* What a failed send can be blamed on: an answer other than 200 has a     *)
(* fault behind it.                                                        *)
Blame ==
    /\ reply \in {"none", "ok", "no session", "replay", "decrypt", "error"}
    /\ reply = "error" => faulted
    /\ Waiting /\ reply = "none" => faulted \/ call \in requests \cup opened \cup {pipeline}
    /\ Shaking => reply \in {"none", "ok", "error"}
    /\ phase = "repost" /\ (reply = "no session" \/ session = NoSession) => faulted
    /\ phase = "rekey" /\ reply = "ok" /\ session = NoSession => faulted

(* As long as every handshake was answered, agent and server agree on the  *)
(* key, or the server has no session at all.                               *)
Agreement ==
    ~cutOff => /\ requests \cap Hands \subseteq {call}
               /\ Shaking /\ reply # "none" => call \notin requests
               /\ session.key \in {NoKey, IF Shaking /\ reply = "ok" THEN call.key ELSE key}
               /\ reply # "decrypt"

-----------------------------------------------------------------------------
(* The buffer of the agent is the buffer of EventBuffer.                   *)
LEMMA StepUsesBuffer ==
    ASSUME accepted \in Nat, [Next]_vars
    PROVE  [Buffer!BufferNext]_bufferVars /\ accepted' \in Nat
<1>1. Buffer!Extend(1) => Buffer!BufferNext /\ accepted' \in Nat
  <2>1. Buffer!Extend(1) => 1 \in 1 .. MaxEvents /\ accepted' \in Nat
    BY DeliveryAssumption DEF Buffer!Extend
  <2>2. QED
    BY <2>1 DEF Buffer!BufferNext
<1>2. Buffer!Drain => Buffer!BufferNext /\ accepted' = accepted
  BY DEF Buffer!BufferNext, Buffer!Drain
<1>3. Buffer!Settle => Buffer!BufferNext /\ accepted' = accepted
  BY DEF Buffer!BufferNext, Buffer!Settle
<1>4. GiveBack => Buffer!BufferNext /\ accepted' = accepted
  BY DEF GiveBack, Buffer!BufferNext, Buffer!Requeue
<1>5. CASE Agent
  <2>1. CASE Flush
    BY <1>2, <2>1 DEF Flush
  <2>2. CASE Acknowledged
    BY <1>3, <2>2 DEF Acknowledged
  <2>3. CASE SendFails
    BY <1>4, <2>3 DEF SendFails
  <2>4. CASE ConnectionReset
    BY <1>4, <2>4 DEF ConnectionReset, HttpError, bufferVars
  <2>5. CASE Connect \/ Connected \/ ConnectFails \/ Rekey \/ Repost
    BY <2>5 DEF Connect, Connected, ConnectFails, Rekey, Repost, StartHandshake, bufferVars
  <2>6. QED
    BY <1>5, <2>1, <2>2, <2>3, <2>4, <2>5 DEF Agent
<1>6. CASE Server
  BY <1>6 DEF Server, AcceptHandshake, RefuseBatch, OpenBatch, Ingest, Finish, bufferVars
<1>7. CASE Environment
  <2>1. CASE Collect
    BY <1>1, <2>1 DEF Collect
  <2>2. CASE Timeout
    BY <1>4, <2>2 DEF Timeout, HttpError, bufferVars
  <2>3. CASE (\E r \in requests : RefuseHandshake(r)) \/ PipelineError \/ Restart
    BY <2>3 DEF RefuseHandshake, PipelineError, Restart, bufferVars
  <2>4. QED
    BY <1>7, <2>1, <2>2, <2>3 DEF Environment
<1>8. CASE UNCHANGED vars
  BY <1>8 DEF vars, bufferVars
<1>9. QED
  BY <1>5, <1>6, <1>7, <1>8 DEF Next

(* Delivery implements EventBuffer: whatever the network, the server and   *)
(* the clock do, the flush loop (main.py, transport.py) drains, settles and*)
(* requeues as the buffer's contract allows.                               *)
THEOREM DeliveryUsesBuffer == Spec => UsesBufferCorrectly
<1> DEFINE Counting == accepted \in Nat
<1>1. Init => Counting /\ Buffer!BufferInit
  BY DEF Init, Buffer!BufferInit
<1>2. Counting /\ [Next]_vars => Counting' /\ [Buffer!BufferNext]_bufferVars
  BY StepUsesBuffer
<1> HIDE DEF Counting
<1>3. QED
  BY <1>1, <1>2, PTL
     DEF Spec, UsesBufferCorrectly, Buffer!BufferSpec, bufferVars, Buffer!bufferVars

(* What EventBufferProofs proves then holds of every delivery.             *)
BufferHolds == Proofs!BufferTypeOK /\ Proofs!InOrder /\ Proofs!DropsAreLosses

(* The buffer's theorems hold of the agent that sends over the channel: the*)
(* types and the cap's trim, order across resends, and the drop counter    *)
(* (agent/buffer.py:6-13, agent/main.py:127-142).                          *)
THEOREM DeliveryBufferHolds == Spec => []BufferHolds
<1>1. Proofs!BufferAssumption
  BY DeliveryAssumption DEF Proofs!BufferAssumption
<1>2. Buffer!BufferInit <=> Proofs!BufferInit
  BY DEF Buffer!BufferInit, Proofs!BufferInit
<1>3. Buffer!BufferNext <=> Proofs!BufferNext
  BY DEF Buffer!BufferNext, Buffer!Extend, Buffer!Hold, Buffer!Drain, Buffer!Requeue,
         Buffer!Settle, Buffer!PutBack, Buffer!Trim, Buffer!Overflow, Buffer!NewestOf,
         Buffer!MinOf,
         Proofs!BufferNext, Proofs!Extend, Proofs!Hold, Proofs!Drain, Proofs!Requeue,
         Proofs!Settle, Proofs!PutBack, Proofs!Trim, Proofs!Overflow, Proofs!NewestOf,
         Proofs!MinOf
<1>4. Buffer!BufferSpec => Proofs!BufferSpec
  BY <1>2, <1>3, PTL
     DEF Buffer!BufferSpec, Proofs!BufferSpec, Buffer!bufferVars, Proofs!bufferVars
<1>5. Proofs!BufferSpec => []BufferHolds
  BY <1>1, Proofs!TypeCorrect, Proofs!BufferInOrder, Proofs!BufferCountsLosses, PTL
     DEF BufferHolds
<1>6. QED
  BY <1>4, <1>5, DeliveryUsesBuffer, PTL DEF UsesBufferCorrectly

-----------------------------------------------------------------------------
(* What the kinds of request are.                                          *)
LEMMA Kinds ==
    /\ \A k \in Nat \ {0} : Handshake(k) \in Hands /\ Handshake(k).key = k
    /\ \A k \in Nat \ {0}, n \in Nat \ {0}, es \in Seq(Nat) :
          LET b == SealedBatch(k, n, es)
          IN  b \in Sealed /\ b.key = k /\ b.seq = n /\ b.events = es
    /\ \A h \in Hands : h.type = "handshake" /\ h.key \in Nat \ {0}
    /\ \A b \in Sealed : /\ b.type = "batch" /\ b.key \in Nat \ {0}
                         /\ b.seq \in Nat \ {0} /\ b.events \in Seq(Nat)
    /\ NoCall \notin Hands /\ NoCall \notin Sealed
    /\ NoBatch \notin Hands /\ NoBatch \notin Sealed
    /\ \A r : ~(r \in Hands /\ r \in Sealed)
<1>1. \A k \in Nat \ {0} : Handshake(k) \in Hands /\ Handshake(k).key = k
  BY DEF Handshake, Hands
<1>2. \A k \in Nat \ {0}, n \in Nat \ {0}, es \in Seq(Nat) :
          LET b == SealedBatch(k, n, es)
          IN  b \in Sealed /\ b.key = k /\ b.seq = n /\ b.events = es
  BY DEF SealedBatch, Sealed
<1>3. \A h \in Hands : h.type = "handshake" /\ h.key \in Nat \ {0}
  BY DEF Hands
<1>4. \A b \in Sealed : /\ b.type = "batch" /\ b.key \in Nat \ {0}
                        /\ b.seq \in Nat \ {0} /\ b.events \in Seq(Nat)
  BY DEF Sealed
<1>5. NoCall.type = "none" /\ NoBatch.type = "none"
  BY DEF NoCall, NoBatch
<1>6. QED
  BY <1>1, <1>2, <1>3, <1>4, <1>5

LEMMA Sessions ==
    /\ \A k \in Nat : /\ Established(k) \in [key : Nat, lastSeq : Nat]
                      /\ Established(k).key = k /\ Established(k).lastSeq = 0
    /\ NoSession \in [key : Nat, lastSeq : Nat]
    /\ NoSession.key = 0 /\ NoSession.lastSeq = 0
    /\ \A s \in [key : Nat, lastSeq : Nat], n \in Nat :
          /\ Recorded(s, n) \in [key : Nat, lastSeq : Nat]
          /\ Recorded(s, n).key = s.key /\ Recorded(s, n).lastSeq = n
BY DEF Established, NoSession, NoKey, Recorded

LEMMA RecordedFields ==
    ASSUME NEW s \in [key : Nat, lastSeq : Nat], NEW n \in Nat
    PROVE  Recorded(s, n).key = s.key /\ Recorded(s, n).lastSeq = n
BY DEF Recorded

LEMMA InitShape == Init => Shape
BY DEF Init, Shape, NoSession, Established, NoKey, Posting, Sealed, NoCall

(* An HTTP error leaves the agent idle, or out.                            *)
LEMMA HttpErrorShape ==
    ASSUME Shape, call # NoCall, HttpError, UNCHANGED <<serverVars, nextKey>>,
           requests' \subseteq requests
    PROVE  Shape'
<1>1. call' = NoCall /\ reply' = "none" /\ phase' \in {"idle", "exited"}
  BY DEF HttpError, Hangup
<1>2. phase' = "idle" => key # NoKey
  BY DEF Shape, HttpError
<1>3. UNCHANGED <<key, seq, session, opened, pipeline, log, nextKey>>
  BY DEF HttpError, serverVars
<1>4. ~Posting' /\ ~Shaking'
  BY <1>1, Kinds DEF Posting, Shaking
<1>5. QED
  BY <1>1, <1>2, <1>3, <1>4 DEF Shape

LEMMA StepShape ==
    ASSUME Shape, BufferHolds, [Next]_vars
    PROVE  Shape'
<1> USE Kinds
<1>1. inFlight \in Seq(Nat)
  BY DEF BufferHolds, Proofs!BufferTypeOK
<1>2. ASSUME NEW next \in {"connect", "rekey"}, StartHandshake(next),
             next = "rekey" => key # NoKey
      PROVE  Shape'
  <2>1. call' = Handshake(nextKey) /\ call' \in Hands /\ requests' = requests \cup {call'}
    BY <1>2 DEF StartHandshake, Send, Shape
  <2>2. ~Posting' /\ Shaking' /\ nextKey' \in Nat \ {0}
    BY <1>2, <2>1 DEF Posting, Shaking, Shape, StartHandshake
  <2>3. QED
    BY <1>2, <2>1, <2>2 DEF Shape, StartHandshake, serverVars
<1>3. CASE Connect
  BY <1>2, <1>3 DEF Connect
<1>4. CASE Rekey
  BY <1>2, <1>4 DEF Rekey, Shape
<1>5. CASE Connected
  <2>1. call \in Hands /\ call' = NoCall /\ ~Posting' /\ key' \in Nat /\ key' # NoKey
    BY <1>5 DEF Connected, Hangup, Shape, Shaking, Posting, NoKey
  <2>2. QED
    BY <1>5, <2>1 DEF Connected, Hangup, Shape, serverVars, countVars
<1>6. CASE ConnectFails
  <2>1. call' = NoCall /\ ~Posting'
    BY <1>6 DEF ConnectFails, Hangup, Posting
  <2>2. QED
    BY <1>6, <2>1 DEF ConnectFails, Hangup, Shape, serverVars, countVars
<1>7. CASE Flush
  <2>1. inFlight' \in Seq(Nat)
    <3>1. /\ items \in Seq(Nat) /\ Len(items) \in Nat
          /\ MaxBatch \in Nat
      BY DeliveryAssumption DEF BufferHolds, Proofs!BufferTypeOK
    <3>2. Buffer!MinOf(MaxBatch, Len(items)) \in 0 .. Len(items)
      BY <3>1 DEF Buffer!MinOf
    <3>3. inFlight' = SubSeq(items, 1, Buffer!MinOf(MaxBatch, Len(items)))
      BY <1>7 DEF Flush, Buffer!Drain
    <3>4. QED
      BY <3>1, <3>2, <3>3
  <2>2. seq' \in Nat \ {0} /\ key \in Nat \ {0} /\ UNCHANGED key
    BY <1>7 DEF Flush, NextSeq, Shape, NoKey
  <2>3. call' = SealedBatch(key, seq', inFlight') /\ reply' = "none"
        /\ requests' = requests \cup {call'}
    BY <1>7 DEF Flush, Send
  <2>4. call' \in Sealed /\ call'.key = key /\ call'.seq = seq' /\ call'.events = inFlight'
    BY <2>1, <2>2, <2>3
  <2>5. QED
    BY <1>7, <2>2, <2>3, <2>4 DEF Flush, Shape, Posting, serverVars, NoKey
<1>8. CASE Acknowledged \/ SendFails
  <2>1. call' = NoCall /\ reply' = "none" /\ ~Posting' /\ phase' = "idle"
    BY <1>8 DEF Acknowledged, SendFails, Hangup, Posting
  <2>2. key # NoKey
    BY <1>8 DEF Acknowledged, SendFails, Shape
  <2>3. UNCHANGED <<key, seq, requests, serverVars, nextKey>>
    BY <1>8 DEF Acknowledged, SendFails, countVars
  <2>4. QED
    BY <2>1, <2>2, <2>3 DEF Shape, serverVars
<1>9. CASE Repost
  <2>1. call.key \in Nat \ {0}
    BY <1>9 DEF Repost, Shape, Shaking
  <2>2. call' = SealedBatch(call.key, 1, inFlight) /\ requests' = requests \cup {call'}
        /\ key' = call.key /\ seq' = 1 /\ UNCHANGED inFlight
    BY <1>9 DEF Repost, Send, bufferVars
  <2>3. call' \in Sealed /\ call'.key = key' /\ call'.seq = 1 /\ call'.events = inFlight'
    BY <1>1, <2>1, <2>2
  <2>4. QED
    BY <1>9, <2>1, <2>2, <2>3 DEF Repost, Shape, Posting, serverVars, NoKey
<1>10. CASE ConnectionReset
  BY <1>10, HttpErrorShape DEF ConnectionReset, HttpError, countVars
<1>11. CASE Timeout
  <2>1. UNCHANGED <<serverVars, nextKey>> /\ requests' \subseteq requests
    BY <1>11 DEF Timeout, HttpError, Fault
  <2>2. QED
    BY <1>11, <2>1, HttpErrorShape DEF Timeout
<1>12. CASE Collect
  BY <1>12 DEF Collect, Buffer!Extend, Shape, Posting, Shaking, serverVars, countVars
<1>13. ASSUME NEW r \in requests, AcceptHandshake(r) \/ RefuseBatch(r) \/ OpenBatch(r)
       PROVE  Shape'
  <2>1. reply' = reply \/ r = call
    BY <1>13 DEF AcceptHandshake, RefuseBatch, OpenBatch, Answer
  <2>2. session' \in [key : Nat, lastSeq : Nat]
    <3>1. CASE AcceptHandshake(r)
      BY <1>13, <3>1, Sessions DEF AcceptHandshake, Take, Shape
    <3>2. CASE RefuseBatch(r)
      BY <3>2 DEF RefuseBatch, serverVars, Shape
    <3>3. CASE OpenBatch(r)
      BY <1>13, <3>3, Sessions DEF OpenBatch, Take, Shape
    <3>4. QED
      BY <1>13, <3>1, <3>2, <3>3
  <2>3. opened' \subseteq Sealed
    BY <1>13 DEF AcceptHandshake, RefuseBatch, OpenBatch, Take, Shape, serverVars
  <2>4. UNCHANGED <<bufferVars, phase, key, seq, call, pipeline, log, nextKey>>
        /\ requests' \subseteq requests
    BY <1>13 DEF AcceptHandshake, RefuseBatch, OpenBatch, Take, serverVars, countVars
  <2>5. r # NoCall
    BY DEF Shape
  <2>6. QED
    BY <2>1, <2>2, <2>3, <2>4, <2>5 DEF Shape, Posting, Shaking, bufferVars
<1>14. CASE \/ \E r \in opened : Ingest(r)
            \/ Finish \/ PipelineError
  <2>1. pipeline' \in Sealed \cup {NoBatch} /\ opened' \subseteq opened /\ log' \in Seq(Sealed)
    <3>1. ASSUME NEW r \in opened, Ingest(r)
          PROVE  pipeline' \in Sealed /\ opened' \subseteq opened /\ log' \in Seq(Sealed)
      <4>1. r \in Sealed /\ log \in Seq(Sealed) /\ log' = Append(log, r) /\ pipeline' = r
        BY <3>1 DEF Ingest, Shape
      <4>2. QED
        BY <3>1, <4>1 DEF Ingest
    <3>2. CASE Finish
      BY <3>2 DEF Finish, Shape
    <3>3. CASE PipelineError
      <4>1. pipeline' \in {pipeline, NoBatch} /\ opened' \subseteq opened /\ log' = log
        BY <3>3 DEF PipelineError
      <4>2. QED
        BY <4>1 DEF Shape
    <3>4. QED
      BY <1>14, <3>1, <3>2, <3>3
  <2>2. reply' = reply \/ call # NoCall
    <3>1. CASE PipelineError
      <4>1. reply' = reply \/ call \in opened \/ (call = pipeline /\ pipeline # NoBatch)
        BY <3>1 DEF PipelineError, Answer
      <4>2. QED
        BY <4>1 DEF Shape, NoBatch, NoCall
    <3>2. QED
      BY <1>14, <3>1 DEF Ingest, Finish, Answer, NoBatch, NoCall
  <2>3. UNCHANGED <<bufferVars, phase, key, seq, call, requests, session, nextKey>>
    BY <1>14 DEF Ingest, Finish, PipelineError, Fault, countVars
  <2>4. QED
    BY <2>1, <2>2, <2>3 DEF Shape, Posting, Shaking, bufferVars
<1>15. CASE \E r \in requests : RefuseHandshake(r)
  <2>1. /\ UNCHANGED <<bufferVars, phase, key, seq, call, serverVars, nextKey>>
        /\ requests' \subseteq requests
        /\ reply' = reply \/ call \in requests
    BY <1>15 DEF RefuseHandshake, Fault, Take, Answer
  <2>2. reply' = reply \/ call # NoCall
    BY <2>1 DEF Shape
  <2>3. QED
    BY <2>1, <2>2 DEF Shape, Posting, Shaking, bufferVars, serverVars
<1>16. CASE Restart
  BY <1>16, Sessions DEF Restart, Fault, Shape, Posting, Shaking, bufferVars
<1>17. CASE UNCHANGED vars
  BY <1>17 DEF vars, bufferVars, serverVars, countVars, Shape, Posting, Shaking
<1>18. QED
  BY <1>3, <1>4, <1>5, <1>6, <1>7, <1>8, <1>9, <1>10, <1>11, <1>12, <1>13, <1>14,
     <1>15, <1>16, <1>17
  DEF Next, Agent, Server, Environment

(* What the agent's call, the requests on their way and the server's       *)
(* session can look like.                                                  *)
LEMMA DeliveryShape == Spec => [](Shape /\ BufferHolds)
<1>1. Init => Shape
  BY InitShape
<1>2. Shape /\ BufferHolds /\ [Next]_vars => Shape'
  BY StepShape
<1>3. QED
  BY <1>1, <1>2, DeliveryBufferHolds, PTL DEF Spec

-----------------------------------------------------------------------------
(* What server_open_batch says, by the session and the sequence number.    *)
LEMMA Verdicts ==
    ASSUME NEW b \in Sealed, session \in [key : Nat, lastSeq : Nat]
    PROVE  /\ Verdict(b) \in {"no session", "replay", "decrypt", "open"}
           /\ Verdict(b) = "open" => b.key = session.key /\ b.seq > session.lastSeq
           /\ Verdict(b) = "replay" => session # NoSession /\ b.seq <= session.lastSeq
           /\ Verdict(b) = "no session" => session = NoSession
           /\ Verdict(b) = "decrypt" => session # NoSession /\ b.key # session.key
BY Kinds DEF Verdict

(* The log only grows, and a batch ingested is in it.                      *)
LEMMA LogGrows ==
    ASSUME NEW b \in Sealed, log \in Seq(Sealed), log' = Append(log, b)
    PROVE  Logged \subseteq Logged' /\ Elems(b.events) \subseteq Logged'
<1>1. /\ Len(log) \in Nat /\ DOMAIN log = 1 .. Len(log)
      /\ DOMAIN log' = 1 .. (Len(log) + 1)
      /\ \A i \in DOMAIN log : log'[i] = log[i]
      /\ log'[Len(log) + 1] = b
  OBVIOUS
<1>2. \A i \in DOMAIN log : i \in DOMAIN log'
  BY <1>1
<1>3. Len(log) + 1 \in DOMAIN log'
  BY <1>1
<1>4. \A i \in DOMAIN log : Elems(log[i].events) \subseteq Logged'
  BY <1>1, <1>2 DEF Logged, Elems
<1>5. Elems(b.events) \subseteq Logged'
  BY <1>1, <1>3 DEF Logged, Elems
<1>6. QED
  BY <1>4, <1>5 DEF Logged

LEMMA LogSteps ==
    ASSUME Shape, [Next]_vars
    PROVE  Logged \subseteq Logged'
<1>1. ASSUME NEW r \in opened, Ingest(r)
      PROVE  Logged \subseteq Logged'
  BY <1>1, LogGrows DEF Ingest, Shape
<1>2. CASE UNCHANGED log
  BY <1>2 DEF Logged
<1>3. CASE UNCHANGED vars
  BY <1>2, <1>3 DEF vars, serverVars
<1>4. CASE Agent
  BY <1>2, <1>4 DEF Agent, Connect, Connected, ConnectFails, Flush, Acknowledged, Rekey,
     Repost, SendFails, ConnectionReset, StartHandshake, HttpError, serverVars
<1>5. CASE Environment
  BY <1>2, <1>5 DEF Environment, Collect, Timeout, HttpError, RefuseHandshake,
     PipelineError, Restart, serverVars
<1>6. CASE Server
  BY <1>1, <1>2, <1>6 DEF Server, AcceptHandshake, RefuseBatch, OpenBatch, Finish, serverVars
<1>7. QED
  BY <1>3, <1>4, <1>5, <1>6 DEF Next

LEMMA InitAnswered == Init => Answered
BY DEF Init, Answered, NoBatch, Sealed

LEMMA StepAnswered ==
    ASSUME Shape, Shape', Answered, [Next]_vars
    PROVE  Answered'
<1> USE Kinds
<1>1. Logged \subseteq Logged'
  BY LogSteps
<1>2. ASSUME UNCHANGED <<call, pipeline>>, reply' = reply \/ reply' # "ok" \/ ~Posting
      PROVE  Answered'
  BY <1>1, <1>2 DEF Answered, Posting
<1>3. ASSUME reply' # "ok", pipeline' \in {pipeline, NoBatch}
      PROVE  Answered'
  BY <1>1, <1>3 DEF Answered
<1>4. CASE Agent
  BY <1>3, <1>4 DEF Agent, Connect, Connected, ConnectFails, Flush, Acknowledged, Rekey,
     Repost, SendFails, ConnectionReset, StartHandshake, HttpError, Send, Hangup, serverVars
<1>5. CASE Collect \/ UNCHANGED vars
  BY <1>2, <1>5 DEF Collect, vars, serverVars
<1>6. CASE Timeout
  BY <1>3, <1>6 DEF Timeout, HttpError, Hangup, serverVars
<1>7. ASSUME NEW r \in requests, RefuseHandshake(r)
      PROVE  Answered'
  BY <1>2, <1>7 DEF RefuseHandshake, Answer, serverVars
<1>8. CASE PipelineError
  <2>1. pipeline' \in {pipeline, NoBatch} /\ reply' \in {reply, "error"} /\ call' = call
    BY <1>8 DEF PipelineError, Answer
  <2>2. QED
    BY <1>1, <2>1 DEF Answered, Posting
<1>9. CASE Restart
  <2>1. pipeline' = NoBatch /\ reply' = reply /\ call' = call
    BY <1>9 DEF Restart
  <2>2. QED
    BY <1>1, <2>1 DEF Answered, Posting
<1>10. ASSUME NEW r \in requests, AcceptHandshake(r)
       PROVE  Answered'
  <2>1. r \in Hands
    BY <1>10 DEF AcceptHandshake, Take, Shape
  <2>2. reply' = reply \/ ~Posting
    BY <1>10, <2>1 DEF AcceptHandshake, Answer, Posting
  <2>3. QED
    BY <1>2, <1>10, <2>2 DEF AcceptHandshake
<1>11. ASSUME NEW r \in requests, RefuseBatch(r)
       PROVE  Answered'
  <2>1. r \in Sealed
    BY <1>11 DEF RefuseBatch, Take, Shape
  <2>2. Verdict(r) # "ok"
    BY <2>1, Verdicts DEF Shape
  <2>3. reply' = reply \/ reply' # "ok"
    BY <1>11, <2>2 DEF RefuseBatch, Answer
  <2>4. QED
    BY <1>2, <1>11, <2>3 DEF RefuseBatch, serverVars
<1>12. ASSUME NEW r \in requests, OpenBatch(r)
       PROVE  Answered'
  BY <1>2, <1>12 DEF OpenBatch, Answer, AnswerOnRecord
<1>13. ASSUME NEW r \in opened, Ingest(r)
       PROVE  Answered'
  <2>1. r \in Sealed /\ log \in Seq(Sealed) /\ log' = Append(log, r) /\ pipeline' = r
        /\ call' = call /\ reply' = reply
    BY <1>13 DEF Ingest, Shape
  <2>2. Elems(r.events) \subseteq Logged'
    BY <2>1, LogGrows
  <2>3. QED
    BY <1>1, <2>1, <2>2 DEF Answered, Posting
<1>14. CASE Finish
  <2>1. pipeline' = NoBatch /\ call' = call /\ log' = log
        /\ reply' = (IF pipeline = call THEN "ok" ELSE reply)
    BY <1>14 DEF Finish, Answer
  <2>2. pipeline = call /\ Posting => Elems(call.events) \subseteq Logged
    BY DEF Answered, Posting
  <2>3. QED
    BY <1>1, <2>1, <2>2 DEF Answered, Posting
<1>15. QED
  BY <1>4, <1>5, <1>6, <1>7, <1>8, <1>9, <1>10, <1>11, <1>12, <1>13, <1>14
  DEF Next, Server, Environment

(* An acknowledged event is stored (agent_routes.py:208-223): the 200 that *)
(* settles a batch comes after the pipeline stored that very batch.        *)
THEOREM AcknowledgedIsStored == Spec => []AckImpliesLogged
<1> DEFINE Good == Shape /\ BufferHolds
<1>1. Init => Answered /\ AckImpliesLogged
  <2>1. Init => delivered = <<>>
    BY DEF Init, Buffer!BufferInit
  <2>2. delivered = <<>> => AckImpliesLogged
    BY DEF AckImpliesLogged, Elems
  <2>3. QED
    BY <2>1, <2>2, InitAnswered
<1>2. Good /\ Good' /\ Answered /\ [Next]_vars => Answered'
  BY StepAnswered
<1>3. Good /\ Answered /\ AckImpliesLogged /\ [Next]_vars => AckImpliesLogged'
  <2> SUFFICES ASSUME Good, Answered, AckImpliesLogged, [Next]_vars
               PROVE  AckImpliesLogged'
    OBVIOUS
  <2>1. Logged \subseteq Logged'
    BY LogSteps
  <2>2. ASSUME UNCHANGED delivered
        PROVE  AckImpliesLogged'
    BY <2>1, <2>2 DEF AckImpliesLogged
  <2>3. CASE Acknowledged
    <3>1. delivered \in Seq(Nat) /\ inFlight \in Seq(Nat) /\ delivered' = delivered \o inFlight
      BY <2>3 DEF Acknowledged, Buffer!Settle, BufferHolds, Proofs!BufferTypeOK
    <3>2. Proofs!Elems(delivered \o inFlight)
              = Proofs!Elems(delivered) \cup Proofs!Elems(inFlight)
      BY <3>1, Proofs!ConcatElems, DeliveryAssumption DEF Proofs!BufferAssumption
    <3>3. Elems(delivered') = Elems(delivered) \cup Elems(inFlight)
      BY <3>1, <3>2 DEF Elems, Proofs!Elems
    <3>4. Posting /\ reply = "ok" /\ call.events = inFlight
      BY <2>3 DEF Acknowledged, Shape
    <3>5. Elems(inFlight) \subseteq Logged
      BY <3>4 DEF Answered
    <3>6. QED
      BY <2>1, <3>3, <3>5 DEF AckImpliesLogged
  <2>4. CASE UNCHANGED vars
    BY <2>2, <2>4 DEF vars, bufferVars
  <2>5. CASE Agent /\ ~Acknowledged
    BY <2>2, <2>5 DEF Agent, Connect, Connected, ConnectFails, Flush, Rekey, Repost,
       SendFails, ConnectionReset, StartHandshake, HttpError, GiveBack, Buffer!Requeue,
       Buffer!Drain, bufferVars
  <2>6. CASE Server
    BY <2>2, <2>6 DEF Server, AcceptHandshake, RefuseBatch, OpenBatch, Ingest, Finish,
       bufferVars
  <2>7. CASE Environment
    BY <2>2, <2>7 DEF Environment, Collect, Buffer!Extend, Timeout, HttpError, GiveBack,
       Buffer!Requeue, RefuseHandshake, PipelineError, Restart, bufferVars
  <2>8. QED
    BY <2>3, <2>4, <2>5, <2>6, <2>7 DEF Next
<1> HIDE DEF Good
<1>4. QED
  BY <1>1, <1>2, <1>3, DeliveryShape, PTL DEF Spec, Good

(* What is neither stored nor in the agent's hands was dropped by the cap  *)
(* and counted (buffer.py:6-13): no answer, fault or restart in between    *)
(* loses an event.                                                         *)
THEOREM OnlyTheCapLoses == Spec => []NothingVanishes
<1>1. BufferHolds /\ AckImpliesLogged => NothingVanishes
  <2> SUFFICES ASSUME BufferHolds, AckImpliesLogged
               PROVE  NothingVanishes
    OBVIOUS
  <2> DEFINE lost == (1 .. accepted) \ Proofs!Held
             gone == (1 .. accepted) \ (Elems(items) \cup Elems(inFlight) \cup Logged)
  <2>1. accepted \in Nat /\ dropped \in Nat /\ Cardinality(lost) = dropped
    <3>1. Proofs!Cardinality(lost) = Cardinality(lost)
      BY DEF Proofs!Cardinality, Cardinality, Proofs!IsFiniteSet, IsFiniteSet
    <3>2. QED
      BY <3>1 DEF BufferHolds, Proofs!BufferTypeOK, Proofs!DropsAreLosses
  <2>2. Proofs!Held \subseteq Elems(items) \cup Elems(inFlight) \cup Logged
    BY DEF Proofs!Held, Proofs!Elems, Elems, AckImpliesLogged
  <2>3. gone \subseteq lost
    BY <2>2
  <2>4. IsFiniteSet(1 .. accepted) /\ IsFiniteSet(lost)
    <3>1. IsFiniteSet(1 .. accepted)
      BY <2>1, FS_Interval
    <3>2. lost \subseteq 1 .. accepted
      OBVIOUS
    <3>3. QED
      BY <3>1, <3>2, FS_Subset
  <2>5. IsFiniteSet(gone) /\ Cardinality(gone) <= Cardinality(lost)
    BY <2>3, <2>4, FS_Subset
  <2>6. QED
    BY <2>1, <2>5 DEF NothingVanishes
<1>2. QED
  BY <1>1, AcknowledgedIsStored, DeliveryBufferHolds, PTL

-----------------------------------------------------------------------------
(* Sent, SentKeys and the two halves of the protocol's invariant change    *)
(* together; these are the facts about Sent the cases below use.           *)
LEMMA SentFacts ==
    ASSUME Shape
    PROVE  /\ \A b \in Sent : /\ b \in Sealed /\ b.key \in Nat \ {0} /\ b.seq \in Nat \ {0}
                              /\ b.key \in SentKeys
           /\ \A k \in SentKeys : \E b \in Sent : k = b.key
           /\ 0 \notin SentKeys
<1>1. \A b \in Sent : /\ b \in Sealed /\ b.key \in Nat \ {0} /\ b.seq \in Nat \ {0}
                      /\ b.key \in SentKeys
  BY Kinds DEF Sent, SentKeys
<1>2. \A k \in SentKeys : \E b \in Sent : k = b.key
  BY DEF SentKeys
<1>3. QED
  BY <1>1, <1>2

LEMMA SameHandshake ==
    ASSUME NEW h \in Hands, NEW g \in Hands, h.key = g.key
    PROVE  h = g
BY DEF Hands

Ids == <<key, seq, session, nextKey>>

(* A step that issues no key, seals nothing and leaves the session alone.  *)
LEMMA QuietKeys ==
    ASSUME Shape, Keys, UNCHANGED Ids, requests' \subseteq requests, Sent' \subseteq Sent,
           call' \in {call, NoCall},
           Shaking /\ reply' = "ok" => reply = "ok"
    PROVE  Keys'
<1>1. SentKeys' \subseteq SentKeys
  BY DEF SentKeys
<1>2. (requests' \cup {call'}) \cap Hands \subseteq (requests \cup {call}) \cap Hands
  BY Kinds
<1>3. \A b \in Sent' : b.key < nextKey' /\ (b.key # key' => b.key # session'.key)
  BY DEF Keys, Ids
<1>4. \A h \in (requests' \cup {call'}) \cap Hands :
          h.key # key' /\ h.key < nextKey' /\ h.key \notin SentKeys'
  BY <1>1, <1>2 DEF Keys, Ids
<1>5. Shaking' => call' = call /\ Shaking
  BY Kinds DEF Shaking
<1>6. Shaking' /\ reply' = "ok" => call' \notin requests' /\ session'.key \notin SentKeys'
                                   /\ session'.lastSeq = 0
  BY <1>1, <1>5 DEF Keys, Ids
<1>7. QED
  BY <1>3, <1>4, <1>6 DEF Keys, Ids

LEMMA QuietNumbers ==
    ASSUME Shape, Numbers, UNCHANGED Ids, requests' \subseteq requests, Sent' \subseteq Sent,
           call' \in {call, NoCall},
           Posting /\ reply' = "ok" => reply = "ok" \/ call = pipeline,
           Posting /\ call \in opened' \cup {pipeline'} => call \in opened \cup {pipeline}
    PROVE  Numbers'
<1>1. Posting' => call' = call /\ Posting
  BY Kinds DEF Posting
<1>2. /\ session'.key # key' => session'.lastSeq = 0
      /\ session'.key = key' => session'.lastSeq <= seq'
  BY DEF Numbers, Ids
<1>3. \A b \in Sent' : b.key = key' => b.seq <= seq' /\ (Posting' /\ b # call' => b.seq < seq')
  BY <1>1 DEF Numbers, Ids
<1>4. Posting' /\ session'.key = key' =>
          /\ call' \in requests' => session'.lastSeq < seq'
          /\ call' \in opened' \cup {pipeline'} \/ reply' = "ok" => session'.lastSeq = seq'
  BY <1>1 DEF Numbers, Ids
<1>5. QED
  BY <1>2, <1>3, <1>4 DEF Numbers

Protocol == Keys /\ Numbers

LEMMA InitProtocol == Init => Protocol /\ FreshOnly /\ LiveBatchNotReplay
<1> SUFFICES ASSUME Init
             PROVE  Protocol /\ FreshOnly /\ LiveBatchNotReplay
  OBVIOUS
<1>1. /\ requests = {} /\ opened = {} /\ pipeline = NoBatch /\ call = NoCall
      /\ key = 0 /\ seq = 0 /\ nextKey = 1 /\ session = NoSession /\ reply = "none"
  BY DEF Init, NoKey
<1>2. Sent = {} /\ ~Posting /\ ~Shaking /\ (requests \cup {call}) \cap Hands = {}
  BY <1>1, Kinds DEF Sent, Posting, Shaking
<1>3. QED
  BY <1>1, <1>2, Sessions DEF Protocol, Keys, Numbers, FreshOnly, LiveBatchNotReplay

(* A new handshake has a key nobody has used.                              *)
LEMMA StartHandshakeProtocol ==
    ASSUME Shape, Protocol, NEW next, StartHandshake(next)
    PROVE  Protocol'
<1>1. /\ call' = Handshake(nextKey) /\ reply' = "none" /\ requests' = requests \cup {call'}
      /\ nextKey' = nextKey + 1
      /\ UNCHANGED <<key, seq, session, opened, pipeline>>
  BY DEF StartHandshake, Send, serverVars
<1>2. nextKey \in Nat \ {0} /\ key \in Nat
  BY DEF Shape
<1>3. call' \in Hands /\ call'.key = nextKey /\ call' \notin Sealed /\ ~Posting'
  BY <1>1, <1>2, Kinds DEF Posting
<1>4. Sent' = Sent
  BY <1>1, <1>3 DEF Sent
<1>5. SentKeys' = SentKeys
  BY <1>4 DEF SentKeys
<1>6. \A b \in Sent : b.key \in Nat /\ b.key < nextKey
  BY SentFacts DEF Protocol, Keys
<1>7. nextKey \notin SentKeys
  BY <1>2, <1>6, SentFacts
<1>8. key' < nextKey'
  BY <1>1, <1>2 DEF Protocol, Keys
<1>9. \A b \in Sent' : b.key < nextKey' /\ (b.key # key' => b.key # session'.key)
  BY <1>1, <1>2, <1>4, <1>6 DEF Protocol, Keys
<1>10. \A h \in (requests' \cup {call'}) \cap Hands :
          h.key # key' /\ h.key < nextKey' /\ h.key \notin SentKeys'
  <2> SUFFICES ASSUME NEW h \in (requests' \cup {call'}) \cap Hands
               PROVE  h.key # key' /\ h.key < nextKey' /\ h.key \notin SentKeys'
    OBVIOUS
  <2>1. CASE h = call'
    BY <1>1, <1>2, <1>3, <1>5, <1>7, <2>1 DEF Protocol, Keys
  <2>2. CASE h \in requests
    <3>1. h.key \in Nat
      BY Kinds
    <3>2. h.key # key /\ h.key < nextKey /\ h.key \notin SentKeys
      BY <2>2 DEF Protocol, Keys
    <3>3. QED
      BY <1>1, <1>2, <1>5, <3>1, <3>2
  <2>3. QED
    BY <1>1, <2>1, <2>2
<1>11. Keys'
  BY <1>1, <1>8, <1>9, <1>10 DEF Keys
<1>12. Numbers'
  BY <1>1, <1>3, <1>4 DEF Protocol, Numbers
<1>13. QED
  BY <1>11, <1>12 DEF Protocol

(* The answer to a handshake: its key is the agent's from now on.  No batch*)
(* carries it, and no batch under way is of the server's session.          *)
LEMMA NewKey ==
    ASSUME Shape, Protocol, Shaking, reply = "ok"
    PROVE  /\ call.key \in Nat \ {0} /\ call.key < nextKey /\ call.key \notin SentKeys
           /\ session.key \notin SentKeys /\ session.lastSeq = 0
           /\ \A h \in requests \cap Hands :
                 h.key # call.key /\ h.key < nextKey /\ h.key \notin SentKeys
<1>1. call \in (requests \cup {call}) \cap Hands /\ call \notin requests
  BY DEF Shaking, Protocol, Keys
<1>2. /\ call.key \in Nat \ {0} /\ call.key < nextKey /\ call.key \notin SentKeys
      /\ session.key \notin SentKeys /\ session.lastSeq = 0
  BY <1>1, Kinds DEF Protocol, Keys
<1>3. ASSUME NEW h \in requests \cap Hands
      PROVE  h.key # call.key /\ h.key < nextKey /\ h.key \notin SentKeys
  <2>1. h # call
    BY <1>1
  <2>2. h.key # call.key
    BY <1>1, <2>1, SameHandshake
  <2>3. QED
    BY <2>2 DEF Protocol, Keys
<1>4. QED
  BY <1>2, <1>3

LEMMA ConnectedProtocol ==
    ASSUME Shape, Protocol, Connected
    PROVE  Protocol'
<1>1. /\ Shaking /\ reply = "ok" /\ key' = call.key /\ seq' = 0
      /\ call' = NoCall /\ reply' = "none"
      /\ UNCHANGED <<requests, session, opened, pipeline, nextKey>>
  BY DEF Connected, Hangup, Shape, serverVars, countVars
<1>2. /\ call.key \in Nat \ {0} /\ call.key < nextKey /\ call.key \notin SentKeys
      /\ session.key \notin SentKeys /\ session.lastSeq = 0
      /\ \A h \in requests \cap Hands :
            h.key # call.key /\ h.key < nextKey /\ h.key \notin SentKeys
  BY <1>1, NewKey
<1>3. Sent' = Sent /\ SentKeys' = SentKeys
  BY <1>1 DEF Sent, SentKeys
<1>4. ~Posting' /\ ~Shaking' /\ (requests' \cup {call'}) \cap Hands = requests \cap Hands
  BY <1>1, Kinds DEF Posting, Shaking
<1>5. \A b \in Sent : b.key < nextKey /\ b.key # session.key /\ b.key # call.key
  BY <1>2, SentFacts DEF Protocol, Keys
<1>6. Keys'
  BY <1>1, <1>2, <1>3, <1>4, <1>5 DEF Keys
<1>7. Numbers'
  BY <1>1, <1>2, <1>3, <1>4, <1>5 DEF Numbers
<1>8. QED
  BY <1>6, <1>7 DEF Protocol

(* The batch sealed again under a new key is the only one that carries it. *)
LEMMA RepostProtocol ==
    ASSUME Shape, BufferHolds, Protocol, Repost
    PROVE  Protocol'
<1>1. /\ Shaking /\ reply = "ok" /\ key' = call.key /\ seq' = 1
      /\ call' = SealedBatch(call.key, 1, inFlight) /\ reply' = "none"
      /\ requests' = requests \cup {call'}
      /\ UNCHANGED <<session, opened, pipeline, nextKey>>
  BY DEF Repost, Send, Shape, serverVars
<1>2. /\ call.key \in Nat \ {0} /\ call.key < nextKey /\ call.key \notin SentKeys
      /\ session.key \notin SentKeys /\ session.lastSeq = 0
      /\ \A h \in requests \cap Hands :
            h.key # call.key /\ h.key < nextKey /\ h.key \notin SentKeys
  BY <1>1, NewKey
<1>3. /\ call' \in Sealed /\ call' \notin Hands /\ call'.key = key' /\ call'.seq = 1
      /\ ~Shaking'
  <2>1. inFlight \in Seq(Nat)
    BY DEF BufferHolds, Proofs!BufferTypeOK
  <2>2. QED
    BY <1>1, <1>2, <2>1, Kinds DEF Shaking
<1>4. Sent' = Sent \cup {call'}
  BY <1>1, <1>3 DEF Sent
<1>5. SentKeys' = SentKeys \cup {key'}
  BY <1>3, <1>4 DEF SentKeys
<1>6. \A b \in Sent : b.key < nextKey /\ b.key # session.key /\ b.key # key'
  BY <1>1, <1>2, SentFacts DEF Protocol, Keys
<1>7. (requests' \cup {call'}) \cap Hands = requests \cap Hands
  BY <1>1, <1>3
<1>8. Keys'
  BY <1>1, <1>2, <1>3, <1>4, <1>5, <1>6, <1>7 DEF Keys
<1>9. call' \notin Sent
  BY <1>3, <1>6
<1>10. call' \notin opened' \cup {pipeline'}
  BY <1>1, <1>3, <1>9 DEF Sent
<1>11. \A b \in Sent' : b.key = key' => b = call' /\ b.seq = 1
  BY <1>3, <1>4, <1>6
<1>12. Numbers'
  BY <1>1, <1>2, <1>10, <1>11 DEF Numbers
<1>13. QED
  BY <1>8, <1>12 DEF Protocol

(* A fresh batch is ahead of everything sent under the agent's key.        *)
LEMMA FlushProtocol ==
    ASSUME Shape, Shape', Protocol, Flush
    PROVE  Protocol'
<1>1. /\ call = NoCall /\ seq' = seq + 1
      /\ call' = SealedBatch(key, seq', inFlight') /\ reply' = "none"
      /\ requests' = requests \cup {call'}
      /\ UNCHANGED <<key, session, opened, pipeline, nextKey>>
  BY DEF Flush, Send, NextSeq, Shape, serverVars
<1>2. /\ call' \in Sealed /\ call' \notin Hands /\ call'.key = key /\ call'.seq = seq'
      /\ ~Shaking'
  <2>1. Posting' /\ call'.key = key' /\ call'.seq = seq'
    BY DEF Shape, Flush
  <2>2. QED
    BY <1>1, <2>1, Kinds DEF Posting, Shaking
<1>3. Sent' = Sent \cup {call'}
  BY <1>1, <1>2 DEF Sent
<1>4. SentKeys' = SentKeys \cup {key}
  BY <1>2, <1>3 DEF SentKeys
<1>5. (requests' \cup {call'}) \cap Hands = requests \cap Hands
  BY <1>1, <1>2
<1>6. \A b \in Sent' : b.key < nextKey /\ (b.key # key => b.key # session.key)
  BY <1>2, <1>3 DEF Protocol, Keys
<1>7. \A h \in requests \cap Hands : h.key # key /\ h.key < nextKey /\ h.key \notin SentKeys'
  BY <1>4 DEF Protocol, Keys
<1>8. Keys'
  BY <1>1, <1>2, <1>5, <1>6, <1>7 DEF Protocol, Keys
<1>9. seq \in Nat /\ session.lastSeq \in Nat /\ \A b \in Sent : b.seq \in Nat
  BY SentFacts DEF Shape
<1>10. \A b \in Sent : b.key = key => b.seq < seq'
  BY <1>1, <1>9 DEF Protocol, Numbers
<1>11. call' \notin opened \cup {pipeline}
  <2>1. call' \notin Sent
    BY <1>1, <1>2, <1>9, <1>10
  <2>2. QED
    BY <1>2, <2>1 DEF Sent
<1>12. \A b \in Sent' : b.key = key => b.seq <= seq' /\ (b # call' => b.seq < seq')
  BY <1>1, <1>2, <1>3, <1>9, <1>10
<1>13. /\ session.key # key => session.lastSeq = 0
       /\ session.key = key => session.lastSeq < seq' /\ session.lastSeq <= seq'
  BY <1>1, <1>9 DEF Protocol, Numbers
<1>14. Numbers'
  BY <1>1, <1>11, <1>12, <1>13 DEF Numbers
<1>15. QED
  BY <1>8, <1>14 DEF Protocol

(* The new session's key is no batch's.                                    *)
LEMMA AcceptProtocol ==
    ASSUME Shape, Protocol, NEW r \in requests, AcceptHandshake(r)
    PROVE  Protocol'
<1>1. /\ r \in Hands /\ requests' = requests \ {r} /\ session' = Established(r.key)
      /\ reply' = (IF r = call THEN "ok" ELSE reply)
      /\ UNCHANGED <<key, seq, call, opened, pipeline, nextKey>>
  BY Kinds DEF AcceptHandshake, Take, Answer, Shape, countVars
<1>2. /\ r.key \in Nat \ {0} /\ r.key # key /\ r.key \notin SentKeys
  BY <1>1, Kinds DEF Protocol, Keys
<1>3. session'.key = r.key /\ session'.lastSeq = 0
  BY <1>1, <1>2, Sessions
<1>4. Sent' = Sent /\ SentKeys' = SentKeys
  BY <1>1, Kinds DEF Sent, SentKeys
<1>5. (requests' \cup {call'}) \cap Hands \subseteq (requests \cup {call}) \cap Hands
  BY <1>1
<1>6. \A b \in Sent : b.key < nextKey /\ b.key # r.key
  BY <1>2, SentFacts DEF Protocol, Keys
<1>7. Shaking' /\ reply' = "ok" => call' \notin requests'
  BY <1>1 DEF Protocol, Keys, Shaking
<1>8. \A h \in (requests' \cup {call'}) \cap Hands :
          h.key # key' /\ h.key < nextKey' /\ h.key \notin SentKeys'
  BY <1>1, <1>4, <1>5 DEF Protocol, Keys
<1>9. key' < nextKey'
  BY <1>1 DEF Protocol, Keys
<1>10. Keys'
  BY <1>2, <1>3, <1>4, <1>6, <1>7, <1>8, <1>9, <1>1 DEF Keys
<1>11. \A b \in Sent' : b.key = key' => b.seq <= seq' /\ (Posting' /\ b # call' => b.seq < seq')
  BY <1>1, <1>4 DEF Protocol, Numbers, Posting
<1>12. Numbers'
  BY <1>1, <1>2, <1>3, <1>11 DEF Numbers
<1>13. QED
  BY <1>10, <1>12 DEF Protocol

(* An opened batch carries the agent's key, and either is the live one or  *)
(* is older than it.                                                       *)
LEMMA OpenProtocol ==
    ASSUME Shape, Protocol, NEW r \in requests, OpenBatch(r)
    PROVE  Protocol'
<1>1. /\ r \in Sealed /\ requests' = requests \ {r} /\ opened' = opened \cup {r}
      /\ session' = Recorded(session, r.seq) /\ reply' = reply
      /\ UNCHANGED <<key, seq, call, pipeline, nextKey>>
  BY Kinds DEF OpenBatch, Take, Answer, AnswerOnRecord, Shape, countVars
<1>2. r.key = session.key /\ r.seq > session.lastSeq
  BY <1>1, Verdicts DEF OpenBatch, Shape
<1>3. r \in Sent /\ r.key \in Nat \ {0} /\ r.seq \in Nat \ {0} /\ r.key \in SentKeys
  BY <1>1, Kinds DEF Sent, SentKeys
<1>4. /\ session \in [key : Nat, lastSeq : Nat] /\ seq \in Nat
      /\ session'.key = session.key /\ session'.lastSeq = r.seq
  <2>1. session \in [key : Nat, lastSeq : Nat] /\ seq \in Nat
    BY DEF Shape
  <2>2. r.seq \in Nat
    BY <1>3
  <2>3. Recorded(session, r.seq).key = session.key /\ Recorded(session, r.seq).lastSeq = r.seq
    BY <2>1, <2>2, Sessions
  <2>4. QED
    BY <1>1, <2>1, <2>3
<1>5. session.key = key /\ r.key = key
  BY <1>2, <1>3 DEF Protocol, Keys
<1>6. r.seq <= seq /\ (Posting /\ r # call => r.seq < seq)
  BY <1>3, <1>5 DEF Protocol, Numbers
<1>7. Sent' = Sent /\ SentKeys' = SentKeys
  BY <1>1 DEF Sent, SentKeys
<1>8. (requests' \cup {call'}) \cap Hands \subseteq (requests \cup {call}) \cap Hands
  BY <1>1
<1>9. ~(Shaking' /\ reply' = "ok")
  BY <1>1, <1>2, <1>3 DEF Shaking, Protocol, Keys
<1>10. Keys'
  <2>1. \A b \in Sent' : b.key < nextKey' /\ (b.key # key' => b.key # session'.key)
    BY <1>1, <1>4, <1>7 DEF Protocol, Keys
  <2>2. \A h \in (requests' \cup {call'}) \cap Hands :
            h.key # key' /\ h.key < nextKey' /\ h.key \notin SentKeys'
    BY <1>1, <1>7, <1>8 DEF Protocol, Keys
  <2>3. QED
    BY <1>1, <1>9, <2>1, <2>2 DEF Protocol, Keys
<1>11. \A b \in Sent' : b.key = key' => b.seq <= seq' /\ (Posting' /\ b # call' => b.seq < seq')
  BY <1>1, <1>7 DEF Protocol, Numbers, Posting
<1>12. Posting' => /\ call' \in requests' => session'.lastSeq < seq'
                   /\ call' \in opened' \cup {pipeline'} \/ reply' = "ok"
                         => session'.lastSeq = seq'
  <2> SUFFICES ASSUME Posting'
               PROVE  /\ call' \in requests' => session'.lastSeq < seq'
                      /\ call' \in opened' \cup {pipeline'} \/ reply' = "ok"
                            => session'.lastSeq = seq'
    OBVIOUS
  <2>1. Posting /\ call' = call
    BY <1>1 DEF Posting
  <2>2. CASE r = call
    <3>1. r.seq = seq
      BY <2>1, <2>2 DEF Shape
    <3>2. QED
      BY <1>1, <1>4, <2>2, <3>1
  <2>3. CASE r # call
    <3>1. r.seq < seq
      BY <1>6, <2>1, <2>3
    <3>2. ~(call \in opened \cup {pipeline} \/ reply = "ok")
      BY <1>2, <1>4, <1>3, <1>5, <1>6, <2>1 DEF Protocol, Numbers
    <3>3. QED
      BY <1>1, <1>4, <2>1, <2>3, <3>1, <3>2
  <2>4. QED
    BY <2>2, <2>3
<1>13. Numbers'
  BY <1>1, <1>4, <1>5, <1>6, <1>11, <1>12 DEF Numbers
<1>14. QED
  BY <1>10, <1>13 DEF Protocol

LEMMA RestartProtocol ==
    ASSUME Shape, Protocol, Restart
    PROVE  Protocol'
<1>1. /\ session' = NoSession /\ opened' = {} /\ pipeline' = NoBatch
      /\ requests' \subseteq requests
      /\ UNCHANGED <<key, seq, call, reply, nextKey>>
  BY DEF Restart, Fault
<1>2. session'.key = 0 /\ session'.lastSeq = 0
  BY <1>1, Sessions
<1>3. Sent' \subseteq Sent /\ SentKeys' \subseteq SentKeys
  BY <1>1, Kinds DEF Sent, SentKeys
<1>4. 0 \notin SentKeys /\ \A b \in Sent : b.key # 0
  BY SentFacts
<1>5. (requests' \cup {call'}) \cap Hands \subseteq (requests \cup {call}) \cap Hands
  BY <1>1
<1>6. \A b \in Sent' : b.key < nextKey' /\ (b.key # key' => b.key # session'.key)
  BY <1>1, <1>2, <1>3, <1>4 DEF Protocol, Keys
<1>7. \A h \in (requests' \cup {call'}) \cap Hands :
          h.key # key' /\ h.key < nextKey' /\ h.key \notin SentKeys'
  BY <1>1, <1>3, <1>5 DEF Protocol, Keys
<1>8. Keys'
  BY <1>1, <1>2, <1>3, <1>4, <1>6, <1>7 DEF Protocol, Keys, Shaking
<1>9. \A b \in Sent' : b.key = key' => b.seq <= seq' /\ (Posting' /\ b # call' => b.seq < seq')
  BY <1>1, <1>3 DEF Protocol, Numbers, Posting
<1>10. Posting' => session'.key # key'
  BY <1>1, <1>2, Kinds DEF Posting, Shape
<1>11. seq \in Nat
  BY DEF Shape
<1>12. Numbers'
  BY <1>1, <1>2, <1>9, <1>10, <1>11 DEF Numbers
<1>13. QED
  BY <1>8, <1>12 DEF Protocol

(* Every other step is quiet.                                              *)
LEMMA StepProtocol ==
    ASSUME Shape, Shape', BufferHolds, Protocol, [Next]_vars
    PROVE  Protocol'
<1> USE Kinds
<1>1. ASSUME UNCHANGED Ids, requests' \subseteq requests, Sent' \subseteq Sent,
             call' \in {call, NoCall},
             Shaking /\ reply' = "ok" => reply = "ok",
             Posting /\ reply' = "ok" => reply = "ok" \/ call = pipeline,
             Posting /\ call \in opened' \cup {pipeline'} => call \in opened \cup {pipeline}
      PROVE  Protocol'
  BY <1>1, QuietKeys, QuietNumbers DEF Protocol
<1>2. CASE Connect \/ Rekey
  BY <1>2, StartHandshakeProtocol DEF Connect, Rekey
<1>3. CASE Connected
  BY <1>3, ConnectedProtocol
<1>4. CASE Repost
  BY <1>4, RepostProtocol
<1>5. CASE Flush
  BY <1>5, FlushProtocol
<1>6. ASSUME UNCHANGED <<Ids, opened, pipeline>>, requests' \subseteq requests,
             call' \in {call, NoCall}, reply' \in {reply, "none", "error"}
      PROVE  Protocol'
  <2>1. Sent' \subseteq Sent
    BY <1>6 DEF Sent
  <2>2. QED
    BY <1>1, <1>6, <2>1
<1>7. CASE ConnectFails \/ Acknowledged \/ SendFails \/ ConnectionReset
  BY <1>6, <1>7 DEF ConnectFails, Acknowledged, SendFails, ConnectionReset, HttpError,
     Hangup, Ids, serverVars, countVars
<1>8. CASE Timeout
  BY <1>6, <1>8 DEF Timeout, HttpError, Fault, Hangup, Ids, serverVars
<1>9. CASE Collect \/ UNCHANGED vars
  BY <1>6, <1>9 DEF Collect, vars, Ids, serverVars, countVars
<1>10. ASSUME NEW r \in requests, RefuseHandshake(r)
       PROVE  Protocol'
  BY <1>6, <1>10 DEF RefuseHandshake, Fault, Take, Answer, Ids, serverVars
<1>11. ASSUME NEW r \in requests, RefuseBatch(r)
       PROVE  Protocol'
  <2>1. r \in Sealed
    BY <1>11 DEF RefuseBatch, Take, Shape
  <2>2. /\ UNCHANGED <<Ids, call, opened, pipeline>> /\ requests' \subseteq requests
        /\ reply' = reply \/ reply' # "ok"
    BY <1>11, <2>1, Verdicts
    DEF RefuseBatch, Take, Answer, Ids, serverVars, countVars, Shape
  <2>3. Sent' \subseteq Sent
    BY <2>2 DEF Sent
  <2>4. QED
    BY <1>1, <2>2, <2>3
<1>12. ASSUME NEW r \in requests, AcceptHandshake(r) \/ OpenBatch(r)
       PROVE  Protocol'
  BY <1>12, AcceptProtocol, OpenProtocol
<1>13. ASSUME NEW r \in opened, Ingest(r)
       PROVE  Protocol'
  <2>1. /\ pipeline = NoBatch /\ pipeline' = r /\ opened' = opened \ {r}
        /\ UNCHANGED <<Ids, call, reply, requests>>
    BY <1>13 DEF Ingest, Ids, countVars
  <2>2. Sent' \subseteq Sent
    BY <2>1 DEF Sent
  <2>3. QED
    BY <1>1, <2>1, <2>2
<1>14. CASE Finish
  <2>1. /\ pipeline # NoBatch /\ pipeline' = NoBatch
        /\ reply' = (IF pipeline = call THEN "ok" ELSE reply)
        /\ UNCHANGED <<Ids, call, requests, opened>>
    BY <1>14 DEF Finish, Answer, Ids, countVars
  <2>2. Sent' \subseteq Sent
    BY <2>1 DEF Sent
  <2>3. Shaking => pipeline # call
    BY <2>1 DEF Shaking, Shape
  <2>4. QED
    BY <1>1, <2>1, <2>2, <2>3 DEF Posting
<1>15. CASE PipelineError
  <2>1. /\ pipeline' \in {pipeline, NoBatch} /\ opened' \subseteq opened
        /\ reply' \in {reply, "error"}
        /\ UNCHANGED <<Ids, call, requests>>
    BY <1>15 DEF PipelineError, Fault, Answer, Ids
  <2>2. Sent' \subseteq Sent
    BY <2>1 DEF Sent
  <2>3. QED
    BY <1>1, <2>1, <2>2 DEF Posting
<1>16. CASE Restart
  BY <1>16, RestartProtocol
<1>17. QED
  BY <1>2, <1>3, <1>4, <1>5, <1>7, <1>8, <1>9, <1>10, <1>11, <1>12, <1>13, <1>14,
     <1>15, <1>16
  DEF Next, Agent, Server, Environment

(* The batch the agent waits on is never taken for a replay                *)
(* (transport.py:211-213): under the agent's key its sequence number is    *)
(* ahead of the server's until the server opens it.                        *)
THEOREM LiveBatchIsFresh == Spec => []LiveBatchNotReplay
<1> DEFINE Good == Shape /\ BufferHolds
<1>1. Init => Protocol /\ LiveBatchNotReplay
  BY InitProtocol
<1>2. Good /\ Good' /\ Protocol /\ [Next]_vars => Protocol'
  BY StepProtocol
<1>3. Good /\ Protocol /\ LiveBatchNotReplay /\ [Next]_vars => LiveBatchNotReplay'
  <2> SUFFICES ASSUME Good, Protocol, LiveBatchNotReplay, [Next]_vars
               PROVE  LiveBatchNotReplay'
    OBVIOUS
  <2>1. ASSUME NEW r \in requests, RefuseBatch(r)
        PROVE  LiveBatchNotReplay'
    <3> SUFFICES ASSUME r = call, Verdict(r) = "replay"
                 PROVE  FALSE
      BY <2>1 DEF RefuseBatch, Answer, LiveBatchNotReplay
    <3>1. r \in Sealed /\ Posting
      BY <2>1, Kinds DEF RefuseBatch, Take, Shape, Posting
    <3>2. /\ r.seq \in Nat \ {0} /\ r.seq = seq
          /\ session.lastSeq \in Nat
      BY <3>1, Kinds DEF Shape
    <3>3. r.seq <= session.lastSeq
      BY <3>1, Verdicts DEF Shape
    <3>4. session.key = key
      BY <3>2, <3>3 DEF Protocol, Numbers
    <3>5. session.lastSeq < seq
      BY <3>1, <3>4 DEF Protocol, Numbers
    <3>6. QED
      BY <3>2, <3>3, <3>5
  <2>2. ASSUME reply' \in {reply, "none", "ok", "error"}
        PROVE  LiveBatchNotReplay'
    BY <2>2 DEF LiveBatchNotReplay
  <2>3. CASE Agent
    BY <2>2, <2>3 DEF Agent, Connect, Connected, ConnectFails, Flush, Acknowledged, Rekey,
       Repost, SendFails, ConnectionReset, StartHandshake, HttpError, Send, Hangup
  <2>4. CASE Server
    BY <2>1, <2>2, <2>4 DEF Server, AcceptHandshake, OpenBatch, Ingest, Finish, Answer,
       AnswerOnRecord
  <2>5. CASE Environment
    BY <2>2, <2>5 DEF Environment, Collect, Timeout, HttpError, Hangup, RefuseHandshake,
       PipelineError, Restart, Answer
  <2>6. CASE UNCHANGED vars
    BY <2>2, <2>6 DEF vars
  <2>7. QED
    BY <2>3, <2>4, <2>5, <2>6 DEF Next
<1> HIDE DEF Good
<1>4. QED
  BY <1>1, <1>2, <1>3, DeliveryShape, PTL DEF Spec, Good

-----------------------------------------------------------------------------
(* What was acknowledged is neither on the wire nor in the buffer.         *)
LEMMA AcknowledgedIsGone ==
    ASSUME BufferHolds
    PROVE  /\ Elems(delivered) \cap Elems(items) = {}
           /\ Elems(delivered) \cap Elems(inFlight) = {}
<1>1. Proofs!Ordered
  BY Proofs!OrderedIsInOrder, DeliveryAssumption DEF BufferHolds, Proofs!BufferAssumption
<1>2. \A s, t \in Seq(Nat) : Proofs!Below(s, t) => Elems(s) \cap Elems(t) = {}
  <2> SUFFICES ASSUME NEW s \in Seq(Nat), NEW t \in Seq(Nat), Proofs!Below(s, t),
                      NEW i \in DOMAIN s, NEW j \in DOMAIN t, s[i] = t[j]
               PROVE  FALSE
    BY DEF Elems
  <2>1. s[i] < t[j] /\ s[i] \in Nat
    BY DEF Proofs!Below
  <2>2. QED
    BY <2>1
<1>3. QED
  BY <1>1, <1>2 DEF Proofs!Ordered, BufferHolds, Proofs!BufferTypeOK

(* Where nothing new can be opened, FreshOnly is kept.                     *)
LEMMA StepFresh ==
    ASSUME Shape, Shape', BufferHolds, Protocol, FreshOnly, [Next]_vars
    PROVE  FreshOnly'
<1> USE Kinds
<1>1. ASSUME UNCHANGED delivered, UNCHANGED session, requests' \cap Sealed \subseteq requests
      PROVE  FreshOnly'
  BY <1>1 DEF FreshOnly
<1>2. CASE Connect \/ Rekey
  <2>1. /\ requests' = requests \cup {Handshake(nextKey)} /\ nextKey \in Nat \ {0}
        /\ UNCHANGED <<session, delivered>>
    BY <1>2 DEF Connect, Rekey, StartHandshake, Send, Shape, bufferVars, serverVars
  <2>2. Handshake(nextKey) \notin Sealed
    BY <2>1
  <2>3. QED
    BY <1>1, <2>1, <2>2
<1>3. CASE Connected \/ ConnectFails \/ SendFails \/ ConnectionReset
  BY <1>1, <1>3 DEF Connected, ConnectFails, SendFails, ConnectionReset, HttpError,
     GiveBack, Buffer!Requeue, bufferVars, serverVars
<1>4. CASE Timeout \/ Collect \/ UNCHANGED vars
  <2>1. CASE Timeout
    <3>1. UNCHANGED delivered /\ UNCHANGED session
      BY <2>1 DEF Timeout, HttpError, GiveBack, Buffer!Requeue, bufferVars, serverVars
    <3>2. requests' \subseteq requests
      BY <2>1 DEF Timeout
    <3>3. QED
      BY <1>1, <3>1, <3>2
  <2>2. CASE Collect
    BY <1>1, <2>2 DEF Collect, Buffer!Extend, serverVars
  <2>3. CASE UNCHANGED vars
    BY <1>1, <2>3 DEF vars, bufferVars, serverVars
  <2>4. QED
    BY <1>4, <2>1, <2>2, <2>3
<1>5. CASE Acknowledged
  <2> SUFFICES ASSUME NEW b \in requests \cap Sealed,
                      b.key = session.key, b.seq > session.lastSeq
               PROVE  FALSE
    BY <1>5 DEF Acknowledged, FreshOnly, serverVars
  <2>1. Posting /\ reply = "ok"
    BY <1>5 DEF Acknowledged, Shape
  <2>2. b \in Sent /\ b.seq \in Nat
    BY DEF Sent
  <2>3. b.key = key /\ session.key = key
    BY <2>2 DEF Protocol, Keys
  <2>4. b.seq <= seq /\ session.lastSeq = seq /\ seq \in Nat
    BY <2>1, <2>2, <2>3 DEF Protocol, Numbers, Shape
  <2>5. QED
    BY <2>2, <2>4
<1>6. ASSUME requests' = requests \cup {call'}, Elems(call'.events) \cap Elems(delivered) = {},
             UNCHANGED <<session, delivered>>
      PROVE  FreshOnly'
  <2> SUFFICES ASSUME NEW b \in requests' \cap Sealed,
                      b.key = session.key, b.seq > session.lastSeq
               PROVE  Elems(b.events) \cap Elems(delivered) = {}
    BY <1>6 DEF FreshOnly
  <2>1. CASE b = call'
    BY <1>6, <2>1
  <2>2. CASE b \in requests
    BY <2>2 DEF FreshOnly
  <2>3. QED
    BY <1>6, <2>1, <2>2
<1>7. CASE Repost
  <2>1. /\ requests' = requests \cup {call'} /\ call'.events = inFlight
        /\ UNCHANGED <<session, delivered>>
    BY <1>7 DEF Repost, Send, SealedBatch, bufferVars, serverVars
  <2>2. QED
    BY <1>6, <2>1, AcknowledgedIsGone
<1>8. CASE Flush
  <2>1. /\ requests' = requests \cup {call'} /\ call'.events = inFlight'
        /\ UNCHANGED <<session, delivered>>
        /\ inFlight' = SubSeq(items, 1, Buffer!MinOf(MaxBatch, Len(items)))
    BY <1>8 DEF Flush, Buffer!Drain, Send, SealedBatch, serverVars
  <2>2. Elems(inFlight') \subseteq Elems(items)
    <3>1. items \in Seq(Nat) /\ Len(items) \in Nat /\ DOMAIN items = 1 .. Len(items)
      BY DEF BufferHolds, Proofs!BufferTypeOK
    <3>2. Buffer!MinOf(MaxBatch, Len(items)) \in 0 .. Len(items)
      BY <3>1, DeliveryAssumption DEF Buffer!MinOf
    <3>3. \A n \in 0 .. Len(items) : Elems(SubSeq(items, 1, n)) \subseteq Elems(items)
      BY <3>1 DEF Elems
    <3>4. QED
      BY <2>1, <3>2, <3>3
  <2>3. QED
    BY <1>6, <2>1, <2>2, AcknowledgedIsGone
<1>9. ASSUME NEW r \in requests, AcceptHandshake(r)
      PROVE  FreshOnly'
  <2>1. /\ r \in Hands /\ requests' \subseteq requests /\ session' = Established(r.key)
    BY <1>9 DEF AcceptHandshake, Take, Shape
  <2>2. r.key \notin SentKeys /\ r.key \in Nat \ {0}
    BY <2>1 DEF Protocol, Keys
  <2>3. session'.key \notin SentKeys
    BY <2>1, <2>2, Sessions
  <2>4. \A b \in requests' \cap Sealed : b.key \in SentKeys
    BY <2>1 DEF Sent, SentKeys
  <2>5. QED
    BY <2>3, <2>4 DEF FreshOnly
<1>10. ASSUME NEW r \in requests, OpenBatch(r)
       PROVE  FreshOnly'
  <2>1. /\ r \in Sealed /\ requests' \subseteq requests /\ session' = Recorded(session, r.seq)
        /\ delivered' = delivered
    BY <1>10 DEF OpenBatch, Take, Shape, bufferVars
  <2>2. r.key = session.key /\ r.seq > session.lastSeq
    BY <1>10, <2>1, Verdicts DEF OpenBatch, Shape
  <2>3. /\ session.lastSeq \in Nat /\ r.seq \in Nat
        /\ session'.key = session.key /\ session'.lastSeq = r.seq
    <3>1. session \in [key : Nat, lastSeq : Nat] /\ r.seq \in Nat
      BY <2>1 DEF Shape
    <3>2. /\ Recorded(session, r.seq).key = session.key
          /\ Recorded(session, r.seq).lastSeq = r.seq
      BY <3>1, RecordedFields
    <3>3. QED
      BY <2>1, <3>1, <3>2
  <2>4. \A b \in requests' \cap Sealed : b.seq \in Nat /\ (b.seq > r.seq => b.seq > session.lastSeq)
    BY <2>2, <2>3
  <2>5. QED
    BY <2>1, <2>3, <2>4 DEF FreshOnly
<1>11. ASSUME NEW r \in requests, RefuseBatch(r) \/ RefuseHandshake(r)
       PROVE  FreshOnly'
  BY <1>1, <1>11 DEF RefuseBatch, RefuseHandshake, Take, bufferVars, serverVars
<1>12. CASE (\E r \in opened : Ingest(r)) \/ Finish \/ PipelineError
  BY <1>1, <1>12 DEF Ingest, Finish, PipelineError, bufferVars
<1>13. CASE Restart
  <2>1. session' = NoSession /\ requests' \subseteq requests
    BY <1>13 DEF Restart
  <2>2. session'.key = 0
    BY <2>1, Sessions
  <2>3. \A b \in requests' \cap Sealed : b.key # 0
    OBVIOUS
  <2>4. QED
    BY <2>2, <2>3 DEF FreshOnly
<1>14. QED
  BY <1>2, <1>3, <1>4, <1>5, <1>7, <1>8, <1>9, <1>10, <1>11, <1>12, <1>13
  DEF Next, Agent, Server, Environment

(* A late copy of an acknowledged batch is never opened                    *)
(* (agent_routes.py, channel.py): when the 200 settles a batch, no batch   *)
(* still on its way is one the server would open, and every later one holds*)
(* other events.                                                           *)
THEOREM LateCopiesRefused == Spec => NoReopenAfterAck
<1> DEFINE Good == Shape /\ BufferHolds
<1>1. Init => Protocol /\ FreshOnly
  BY InitProtocol
<1>2. Good /\ Good' /\ Protocol /\ [Next]_vars => Protocol'
  BY StepProtocol
<1>3. Good /\ Good' /\ Protocol /\ FreshOnly /\ [Next]_vars => FreshOnly'
  BY StepFresh
<1>4. Good /\ FreshOnly /\ [Next]_vars => [LateCopyRefused]_vars
  <2> SUFFICES ASSUME Good, FreshOnly, Next
               PROVE  LateCopyRefused
    OBVIOUS
  <2>1. ASSUME opened' \subseteq opened
        PROVE  LateCopyRefused
    BY <2>1 DEF LateCopyRefused
  <2>2. ASSUME NEW r \in requests, OpenBatch(r)
        PROVE  LateCopyRefused
    <3>1. r \in requests \cap Sealed /\ opened' = opened \cup {r}
      BY <2>2, Kinds DEF OpenBatch, Take, Shape
    <3>2. r.key = session.key /\ r.seq > session.lastSeq
      BY <2>2, <3>1, Verdicts DEF OpenBatch, Shape
    <3>3. QED
      BY <3>1, <3>2 DEF FreshOnly, LateCopyRefused
  <2>3. CASE Agent
    BY <2>1, <2>3 DEF Agent, Connect, Connected, ConnectFails, Flush, Acknowledged, Rekey,
       Repost, SendFails, ConnectionReset, StartHandshake, HttpError, serverVars
  <2>4. CASE Server
    BY <2>1, <2>2, <2>4 DEF Server, AcceptHandshake, RefuseBatch, Ingest, Finish, serverVars
  <2>5. CASE Environment
    <3>1. CASE PipelineError
      BY <2>1, <3>1 DEF PipelineError
    <3>2. QED
      BY <2>1, <2>5, <3>1 DEF Environment, Collect, Timeout, HttpError, RefuseHandshake,
         Restart, serverVars
  <2>6. QED
    BY <2>3, <2>4, <2>5 DEF Next
<1> HIDE DEF Good
<1>5. QED
  BY <1>1, <1>2, <1>3, <1>4, DeliveryShape, PTL DEF Spec, NoReopenAfterAck, Good

-----------------------------------------------------------------------------
LEMMA InitBlame == Init => Blame /\ Agreement
<1> SUFFICES ASSUME Init
             PROVE  Blame /\ Agreement
  OBVIOUS
<1>1. /\ reply = "none" /\ call = NoCall /\ requests = {} /\ phase = "start"
      /\ session = NoSession
  BY DEF Init
<1>2. ~Shaking /\ ~Waiting /\ session.key = NoKey
  BY <1>1, Kinds, Sessions DEF Shaking, Waiting, NoKey
<1>3. QED
  BY <1>1, <1>2 DEF Blame, Agreement

(* An answer other than 200 comes from a fault, or the session was gone.   *)
LEMMA StepBlame ==
    ASSUME Shape, Protocol, Blame, [Next]_vars
    PROVE  Blame'
<1> USE Kinds
<1>1. ASSUME call' = NoCall, reply' = "none", phase' \notin {"repost", "rekey"}
      PROVE  Blame'
  BY <1>1 DEF Blame, Waiting, Shaking
<1>2. CASE Connected \/ ConnectFails \/ Acknowledged \/ SendFails \/ ConnectionReset \/ Timeout
  BY <1>1, <1>2 DEF Connected, ConnectFails, Acknowledged, SendFails, ConnectionReset,
     Timeout, HttpError, Hangup
<1>3. ASSUME reply' = "none", requests' = requests \cup {call'},
             phase' = "repost" /\ session' = NoSession => faulted'
      PROVE  Blame'
  BY <1>3 DEF Blame
<1>4. CASE Connect \/ Rekey \/ Flush
  BY <1>3, <1>4 DEF Connect, Rekey, Flush, StartHandshake, Send
<1>5. CASE Repost
  BY <1>3, <1>5 DEF Repost, Send, Blame, serverVars
<1>6. ASSUME faulted', phase' = phase, call' = call, reply' \in {reply, "error"}
      PROVE  Blame'
  BY <1>6 DEF Blame, Shaking
<1>7. CASE (\E r \in requests : RefuseHandshake(r)) \/ PipelineError \/ Restart
  BY <1>6, <1>7 DEF RefuseHandshake, PipelineError, Restart, Fault, Answer
<1>8. CASE Collect \/ UNCHANGED vars
  <2>1. UNCHANGED <<phase, call, reply, requests, session, opened, pipeline, faulted>>
    BY <1>8 DEF Collect, vars, serverVars, countVars
  <2>2. QED
    BY <2>1 DEF Blame, Waiting, Shaking
<1>9. ASSUME NEW r \in requests, AcceptHandshake(r)
      PROVE  Blame'
  <2>1. /\ r \in Hands /\ requests' = requests \ {r} /\ session' = Established(r.key)
        /\ reply' = (IF r = call THEN "ok" ELSE reply)
        /\ UNCHANGED <<phase, call, opened, pipeline, faulted>>
    BY <1>9 DEF AcceptHandshake, Take, Answer, Shape, countVars
  <2>2. session' # NoSession
    BY <2>1, Sessions
  <2>3. QED
    BY <2>1, <2>2 DEF Blame, Waiting, Shaking
<1>10. ASSUME NEW r \in requests, RefuseBatch(r)
       PROVE  Blame'
  <2>1. /\ r \in Sealed /\ requests' = requests \ {r}
        /\ reply' = (IF r = call THEN Verdict(r) ELSE reply)
        /\ UNCHANGED <<phase, call, session, opened, pipeline, faulted>>
    BY <1>10 DEF RefuseBatch, Take, Answer, Shape, serverVars, countVars
  <2>2. /\ Verdict(r) \in {"no session", "replay", "decrypt"}
        /\ Verdict(r) = "no session" => session = NoSession
    BY <1>10, <2>1, Verdicts DEF RefuseBatch, Shape
  <2>3. CASE r = call
    BY <2>1, <2>2, <2>3 DEF Blame, Waiting, Shaking
  <2>4. CASE r # call
    BY <2>1, <2>4 DEF Blame, Waiting, Shaking
  <2>5. QED
    BY <2>3, <2>4
<1>11. ASSUME NEW r \in requests, OpenBatch(r)
       PROVE  Blame'
  <2>1. /\ r \in Sealed /\ requests' = requests \ {r} /\ opened' = opened \cup {r}
        /\ session' = Recorded(session, r.seq) /\ reply' = reply
        /\ UNCHANGED <<phase, call, pipeline, faulted>>
    BY <1>11 DEF OpenBatch, Take, Answer, AnswerOnRecord, Shape, countVars
  <2>2. r.key = session.key /\ r.seq \in Nat /\ session \in [key : Nat, lastSeq : Nat]
    BY <1>11, <2>1, Verdicts DEF OpenBatch, Shape
  <2>3. session'.key = r.key /\ r.key # 0
    BY <2>1, <2>2, RecordedFields
  <2>4. session' # NoSession
    BY <2>3, Sessions
  <2>5. QED
    BY <2>1, <2>4 DEF Blame, Waiting, Shaking
<1>12. ASSUME NEW r \in opened, Ingest(r)
       PROVE  Blame'
  <2>1. /\ pipeline = NoBatch /\ pipeline' = r /\ opened' = opened \ {r}
        /\ UNCHANGED <<phase, call, reply, requests, session, faulted>>
    BY <1>12 DEF Ingest, countVars
  <2>2. call \in opened \cup {pipeline} => call \in opened' \cup {pipeline'} \/ call = NoCall
    BY <2>1 DEF NoBatch, NoCall
  <2>3. QED
    BY <2>1, <2>2 DEF Blame, Waiting, Shaking
<1>13. CASE Finish
  <2>1. /\ reply' = (IF pipeline = call THEN "ok" ELSE reply)
        /\ pipeline # NoBatch
        /\ UNCHANGED <<phase, call, requests, session, opened, faulted>>
    BY <1>13 DEF Finish, Answer, countVars
  <2>2. pipeline \in Sealed
    BY <2>1 DEF Shape
  <2>3. CASE pipeline = call
    <3>1. reply' = "ok" /\ ~Shaking' /\ phase' # "rekey"
      BY <2>1, <2>2, <2>3 DEF Shaking, Shape
    <3>2. QED
      BY <2>1, <3>1 DEF Blame
  <2>4. CASE pipeline # call
    BY <2>1, <2>4 DEF Blame, Waiting, Shaking
  <2>5. QED
    BY <2>3, <2>4
<1>14. QED
  BY <1>2, <1>4, <1>5, <1>7, <1>8, <1>9, <1>10, <1>11, <1>12, <1>13
  DEF Next, Agent, Server, Environment

LEMMA StepAgreement ==
    ASSUME Shape, Protocol, Blame, Agreement, [Next]_vars
    PROVE  Agreement'
<1> USE Kinds
<1> SUFFICES ASSUME ~cutOff'
             PROVE  /\ requests' \cap Hands \subseteq {call'}
                    /\ Shaking' /\ reply' # "none" => call' \notin requests'
                    /\ session'.key \in
                          {NoKey, IF Shaking' /\ reply' = "ok" THEN call'.key ELSE key'}
                    /\ reply' # "decrypt"
  BY DEF Agreement
<1> DEFINE Goal == /\ requests' \cap Hands \subseteq {call'}
                   /\ Shaking' /\ reply' # "none" => call' \notin requests'
                   /\ session'.key \in
                         {NoKey, IF Shaking' /\ reply' = "ok" THEN call'.key ELSE key'}
                   /\ reply' # "decrypt"
<1>1. ~cutOff
  BY DEF Next, Agent, Server, Environment, Connect, Rekey, StartHandshake, Connected,
     ConnectFails, Flush, Acknowledged, Repost, SendFails, ConnectionReset,
     AcceptHandshake, RefuseBatch, OpenBatch, Ingest, Finish, Collect, Timeout,
     RefuseHandshake, PipelineError, Restart, Fault, vars, countVars
<1>2. /\ requests \cap Hands \subseteq {call}
      /\ Shaking /\ reply # "none" => call \notin requests
      /\ session.key \in {NoKey, IF Shaking /\ reply = "ok" THEN call.key ELSE key}
      /\ reply # "decrypt"
  BY <1>1 DEF Agreement
<1>3. CASE Connect \/ Rekey
  <2>1. /\ requests' = requests \cup {call'} /\ reply' = "none"
        /\ UNCHANGED <<session, key>>
        /\ call = NoCall \/ Posting
    BY <1>3 DEF Connect, Rekey, StartHandshake, Send, Shape, serverVars
  <2>2. ~Shaking /\ call \notin Hands
    BY <2>1 DEF Posting, Shaking
  <2>3. QED
    BY <1>2, <2>1, <2>2
<1>4. CASE Flush
  <2>1. /\ requests' = requests \cup {call'} /\ reply' = "none" /\ call' \notin Hands
        /\ UNCHANGED <<session, key>>
        /\ call = NoCall
    BY <1>4 DEF Flush, Send, Shape, serverVars, SealedBatch, Hands
  <2>2. ~Shaking
    BY <2>1 DEF Shaking
  <2>3. QED
    BY <1>2, <2>1, <2>2
<1>5. CASE Repost
  <2>1. /\ requests' = requests \cup {call'} /\ reply' = "none" /\ call' \notin Hands
        /\ UNCHANGED session /\ key' = call.key
        /\ Shaking /\ reply = "ok"
    BY <1>5 DEF Repost, Send, Shape, serverVars, SealedBatch, Hands
  <2>2. QED
    BY <1>2, <2>1
<1>6. ASSUME call' = NoCall, reply' = "none", requests' \subseteq requests,
             Shaking => call \notin requests,
             UNCHANGED <<session, key>>, Shaking => reply # "ok"
      PROVE  Goal
  BY <1>2, <1>6 DEF Shaking
<1>7. CASE Connected
  BY <1>2, <1>7 DEF Connected, Hangup, Shape, Shaking, serverVars
<1>8. CASE ConnectFails \/ Acknowledged \/ SendFails
  <2>1. /\ call' = NoCall /\ reply' = "none" /\ requests' = requests
        /\ UNCHANGED <<session, key>>
        /\ reply # "none"
    BY <1>8 DEF ConnectFails, Acknowledged, SendFails, Hangup, serverVars
  <2>2. Shaking => reply # "ok"
    BY <1>8 DEF ConnectFails, Acknowledged, SendFails, Shape, Shaking, Posting
  <2>3. QED
    BY <1>2, <1>6, <2>1, <2>2
<1>9. CASE ConnectionReset
  BY <1>6, <1>9 DEF ConnectionReset, HttpError, Hangup, serverVars
<1>10. CASE Timeout
  <2>1. call.type # "handshake"
    BY <1>10 DEF Timeout, Fault
  <2>2. ~Shaking
    BY <2>1 DEF Shaking
  <2>3. QED
    BY <1>6, <1>10, <2>2 DEF Timeout, HttpError, Hangup, serverVars
<1>11. CASE Collect \/ UNCHANGED vars
  BY <1>2, <1>11 DEF Collect, vars, serverVars, Shaking
<1>12. ASSUME NEW r \in requests, RefuseHandshake(r)
       PROVE  Goal
  <2>1. /\ r \in Hands /\ requests' = requests \ {r}
        /\ reply' = (IF r = call THEN "error" ELSE reply)
        /\ UNCHANGED <<key, call, session>>
    BY <1>12 DEF RefuseHandshake, Take, Answer, Shape, serverVars
  <2>2. r = call /\ Shaking /\ reply = "none"
    BY <1>2, <2>1 DEF Shaking
  <2>3. QED
    BY <1>2, <2>1, <2>2
<1>13. ASSUME NEW r \in requests, AcceptHandshake(r)
       PROVE  Goal
  <2>1. /\ r \in Hands /\ requests' = requests \ {r} /\ session' = Established(r.key)
        /\ reply' = (IF r = call THEN "ok" ELSE reply)
        /\ UNCHANGED <<key, call>>
    BY <1>13 DEF AcceptHandshake, Take, Answer, Shape
  <2>2. r = call /\ Shaking' /\ session'.key = r.key
    BY <1>2, <2>1, Sessions DEF Shaking
  <2>3. QED
    BY <1>2, <2>1, <2>2
<1>14. ASSUME NEW r \in requests, RefuseBatch(r)
       PROVE  Goal
  <2>1. /\ r \in Sealed /\ requests' = requests \ {r}
        /\ reply' = (IF r = call THEN Verdict(r) ELSE reply)
        /\ UNCHANGED <<key, call, session>>
    BY <1>14 DEF RefuseBatch, Take, Answer, Shape, serverVars
  <2>2. CASE r # call
    BY <1>2, <2>1, <2>2 DEF Shaking
  <2>3. CASE r = call
    <3>1. ~Shaking /\ ~Shaking' /\ Posting
      BY <2>1, <2>3 DEF Shaking, Posting
    <3>2. session.key \in {0, key} /\ r.key = key /\ key # 0
      BY <1>2, <2>1, <2>3, <3>1 DEF Shape, NoKey
    <3>3. Verdict(r) # "decrypt"
      <4> SUFFICES ASSUME Verdict(r) = "decrypt"
                   PROVE  FALSE
        OBVIOUS
      <4>1. session # NoSession /\ session.key # key /\ session \in [key : Nat, lastSeq : Nat]
        BY <2>1, <3>2, Verdicts DEF Shape
      <4>2. session.key = 0 /\ session.lastSeq = 0
        BY <3>2, <4>1 DEF Protocol, Numbers
      <4>3. session = NoSession
        BY <4>1, <4>2 DEF NoSession, Established, NoKey
      <4>4. QED
        BY <4>1, <4>3
    <3>4. QED
      BY <1>2, <2>1, <2>3, <3>1, <3>2, <3>3 DEF NoKey
  <2>4. QED
    BY <2>2, <2>3
<1>15. ASSUME NEW r \in requests, OpenBatch(r)
       PROVE  Goal
  <2>1. /\ r \in Sealed /\ requests' = requests \ {r}
        /\ session' = Recorded(session, r.seq) /\ reply' = reply
        /\ UNCHANGED <<key, call>>
    BY <1>15 DEF OpenBatch, Take, Answer, AnswerOnRecord, Shape
  <2>2. r.seq \in Nat /\ session \in [key : Nat, lastSeq : Nat]
    BY <2>1 DEF Shape
  <2>3. session'.key = session.key
    BY <2>1, <2>2, RecordedFields
  <2>4. QED
    BY <1>2, <2>1, <2>3 DEF Shaking
<1>16. CASE (\E r \in opened : Ingest(r)) \/ Finish \/ PipelineError
  <2>1. UNCHANGED <<key, call, session, requests>>
    BY <1>16 DEF Ingest, Finish, PipelineError
  <2>2. reply' = reply \/ (reply' \in {"ok", "error"} /\ call \notin Hands)
    <3>1. CASE PipelineError
      <4>1. reply' = reply \/ (reply' = "error" /\ call \in opened \cup {pipeline})
        BY <3>1 DEF PipelineError, Answer
      <4>2. QED
        BY <4>1 DEF Shape
    <3>2. CASE Finish
      <4>1. reply' = reply \/ (reply' = "ok" /\ call = pipeline)
        BY <3>2 DEF Finish, Answer
      <4>2. QED
        BY <4>1 DEF Shape
    <3>3. QED
      BY <1>16, <3>1, <3>2 DEF Ingest
  <2>3. QED
    BY <1>2, <2>1, <2>2 DEF Shaking
<1>17. CASE Restart
  <2>1. /\ session' = NoSession /\ requests' \subseteq requests
        /\ UNCHANGED <<key, call, reply>>
    BY <1>17 DEF Restart
  <2>2. session'.key = NoKey
    BY <2>1, Sessions DEF NoKey
  <2>3. QED
    BY <1>2, <2>1, <2>2 DEF Shaking
<1>18. QED
  BY <1>3, <1>4, <1>5, <1>7, <1>8, <1>9, <1>10, <1>11, <1>12, <1>13, <1>14,
     <1>15, <1>16, <1>17
  DEF Next, Agent, Server, Environment

(* A send gives up only if something failed while it was being made        *)
(* (buffer.py:11-13, transport.py:211-212), as long as every handshake was *)
(* answered: re-keying once is then enough.                                *)
THEOREM SendsRecover == Spec => SendsFailOnlyOnFaultsUnlessCutOff
<1> DEFINE Good == Shape /\ BufferHolds
<1>1. Init => Protocol /\ Blame /\ Agreement
  BY InitProtocol, InitBlame
<1>2. Good /\ Good' /\ Protocol /\ [Next]_vars => Protocol'
  BY StepProtocol
<1>3. Good /\ Protocol /\ Blame /\ [Next]_vars => Blame'
  BY StepBlame
<1>4. Good /\ Protocol /\ Blame /\ Agreement /\ [Next]_vars => Agreement'
  BY StepAgreement
<1>5. Good /\ Blame /\ Agreement /\ LiveBatchNotReplay /\ [Next]_vars
          => [SendGivesUp /\ ~cutOff' => faulted']_vars
  <2> SUFFICES ASSUME Good, Blame, Agreement, LiveBatchNotReplay, Next,
                      SendGivesUp, ~cutOff'
               PROVE  faulted'
    OBVIOUS
  <2>1. phase \in {"post", "rekey", "repost"} /\ phase' = "idle" /\ delivered' = delivered
    BY DEF SendGivesUp
  <2>2. CASE SendFails
    <3>1. ~cutOff /\ faulted' = faulted /\ reply \notin {"none", "ok"}
      BY <2>2 DEF SendFails, countVars
    <3>2. reply \notin {"replay", "decrypt"}
      BY <3>1 DEF Agreement, LiveBatchNotReplay
    <3>3. reply \in {"no session", "error"}
      BY <3>1, <3>2 DEF Blame
    <3>4. reply = "no session" => phase = "repost" \/ phase = "rekey"
      BY <2>1, <2>2 DEF SendFails, MustRekey
    <3>5. phase = "rekey" => reply = "error"
      BY <3>1 DEF Shape, Blame
    <3>6. QED
      BY <3>1, <3>3, <3>4, <3>5 DEF Blame
  <2>3. CASE ConnectionReset
    BY <2>3 DEF ConnectionReset, countVars, Blame, Waiting
  <2>4. CASE Timeout
    BY <2>4 DEF Timeout, Fault
  <2>5. CASE Acknowledged
    <3>1. /\ delivered' = delivered \o inFlight /\ inFlight # <<>>
          /\ delivered \in Seq(Nat) /\ inFlight \in Seq(Nat)
      BY <2>5 DEF Acknowledged, Buffer!Settle, BufferHolds, Proofs!BufferTypeOK
    <3>2. Len(delivered') = Len(delivered) + Len(inFlight)
      BY <3>1
    <3>3. Len(inFlight) \in Nat \ {0} /\ Len(delivered) \in Nat
      BY <3>1
    <3>4. QED
      BY <2>1, <3>2, <3>3
  <2>6. CASE Connect \/ Connected \/ ConnectFails \/ Flush \/ Rekey \/ Repost
    BY <2>1, <2>6 DEF Connect, Connected, ConnectFails, Flush, Rekey, Repost, StartHandshake
  <2>7. CASE Server
    BY <2>1, <2>7 DEF Server, AcceptHandshake, RefuseBatch, OpenBatch, Ingest, Finish
  <2>8. CASE Collect \/ (\E r \in requests : RefuseHandshake(r)) \/ PipelineError \/ Restart
    BY <2>1, <2>8 DEF Collect, RefuseHandshake, PipelineError, Restart
  <2>9. QED
    BY <2>2, <2>3, <2>4, <2>5, <2>6, <2>7, <2>8 DEF Next, Agent, Environment
<1> HIDE DEF Good
<1>6. QED
  BY <1>1, <1>2, <1>3, <1>4, <1>5, DeliveryShape, LiveBatchIsFresh, PTL
  DEF Spec, SendsFailOnlyOnFaultsUnlessCutOff, Good

===========================================================================
