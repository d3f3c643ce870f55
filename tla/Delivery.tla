------------------------------ MODULE Delivery ------------------------------
(***************************************************************************)
(* One agent delivering its buffered events to the server over the secure  *)
(* channel: the flush loop (agent/main.py), Transport (agent/transport.py),*)
(* the key and sequence number of SecureClient (vigil/pqc/channel.py), the *)
(* HTTP exchanges, and on the server the /handshake and /events handlers   *)
(* (server/api/agent_routes.py) with the in-memory SessionRegistry         *)
(* (server/session.py) and the locked pipeline that writes the event log.  *)
(*                                                                         *)
(* The agent waits for one answer at a time, but a call it gave up on may  *)
(* still be on its way and reach the server later, in any order.  A key is *)
(* named by the handshake that created it.  The agent is enrolled, and its *)
(* signatures verify: Enrollment treats what happens otherwise.            *)
(***************************************************************************)
EXTENDS Naturals, Sequences, FiniteSets

CONSTANTS MaxSize, MaxBatch, MaxEvents,   \* as in EventBuffer
          MaxKeys,                        \* bound: handshakes
          MaxSeals,                       \* bound: sealed batches
          MaxFaults                       \* bound: faults

ASSUME DeliveryAssumption == /\ MaxSize \in Nat \ {0}
                             /\ MaxBatch \in Nat \ {0}
                             /\ MaxEvents \in Nat
                             /\ MaxKeys \in Nat
                             /\ MaxSeals \in Nat
                             /\ MaxFaults \in Nat

VARIABLES items, accepted, dropped, inFlight, delivered,   \* EventBuffer
          phase,      \* where the agent's main thread is
          key, seq,   \* the established SecureClient's session key and _seq
          call,       \* the HTTP request the agent waits on
          reply,      \* its answer, once the server gave one
          requests,   \* requests sent and not yet taken up by the server
          session,    \* the server's Session for this agent
          opened,     \* batches recorded and waiting for the pipeline lock
          pipeline,   \* the batch inside the pipeline, its events stored
          log,        \* history: the batches whose events were stored
          nextKey, seals, faults,
          faulted,    \* history: a fault happened since the last send began
          cutOff      \* history: a handshake's answer did not reach the agent

Buffer == INSTANCE EventBuffer
          WITH items <- items, accepted <- accepted, dropped <- dropped,
               inFlight <- inFlight, delivered <- delivered

bufferVars == <<items, accepted, dropped, inFlight, delivered>>
serverVars == <<session, opened, pipeline, log>>
countVars == <<nextKey, seals, faults, faulted, cutOff>>
vars == <<bufferVars, phase, key, seq, call, reply, requests, serverVars, countVars>>

Elems(s) == {s[i] : i \in DOMAIN s}
Logged == UNION {Elems(log[i].events) : i \in DOMAIN log}

NoKey == 0
NoCall == [type |-> "none"]
NoBatch == [type |-> "none"]
Established(k) == [key |-> k, lastSeq |-> 0]
NoSession == Established(NoKey)
Recorded(s, n) == [s EXCEPT !.lastSeq = n]
Handshake(k) == [type |-> "handshake", key |-> k]
SealedBatch(k, n, events) ==
    [type |-> "batch", key |-> k, seq |-> n, events |-> events]

-----------------------------------------------------------------------------
(* Altered forms of the definitions below, to see the properties fail.     *)

NoReplayCheck(r) == CASE session = NoSession -> "no session"
                      [] session # NoSession /\ r.key # session.key -> "decrypt"
                      [] OTHER -> "open"
ReplayOffByOne(r) == CASE session = NoSession -> "no session"
                       [] session # NoSession /\ r.seq <= session.lastSeq + 1 -> "replay"
                       [] OTHER -> "open"
AnswerAtOnce(r) == "ok"
NeverRekey(code) == FALSE
ForgetFailedBatch == /\ inFlight' = <<>>
                     /\ UNCHANGED <<items, accepted, dropped, delivered>>

-----------------------------------------------------------------------------
(* The order of server_open_batch's checks, after the handler found the    *)
(* session: replay first, then decryption.                                 *)
Verdict(r) == CASE session = NoSession -> "no session"
                [] session # NoSession /\ r.seq <= session.lastSeq -> "replay"
                [] session # NoSession /\ r.seq > session.lastSeq
                      /\ r.key # session.key -> "decrypt"
                [] OTHER -> "open"

(* _post_sealed returns None, so that send re-keys, only for the 409 whose *)
(* detail mentions the session.                                            *)
MustRekey(code) == code = "no session"

(* flush_once's except branch.                                             *)
GiveBack == Buffer!Requeue

(* What the client gets while a batch is recorded but not yet processed.   *)
AnswerOnRecord(r) == reply

NextSeq == seq + 1

-----------------------------------------------------------------------------
Send(r) == /\ call' = r
           /\ reply' = "none"
           /\ requests' = requests \cup {r}

Hangup == /\ call' = NoCall
          /\ reply' = "none"

(* The server's answer to r reaches the agent only if it still waits.      *)
Answer(r, code) == reply' = IF r = call THEN code ELSE reply

Fault(kind) == /\ faults < MaxFaults
               /\ faults' = faults + 1
               /\ faulted' = TRUE
               /\ cutOff' = (cutOff \/ kind = "handshake timeout")
               /\ UNCHANGED <<nextKey, seals>>

Collecting == phase \notin {"start", "connect", "exited"}

Init == /\ Buffer!BufferInit
        /\ phase = "start"
        /\ key = NoKey /\ seq = 0
        /\ call = NoCall /\ reply = "none" /\ requests = {}
        /\ session = NoSession /\ opened = {} /\ pipeline = NoBatch /\ log = <<>>
        /\ nextKey = 1 /\ seals = 0 /\ faults = 0 /\ faulted = FALSE /\ cutOff = FALSE

-----------------------------------------------------------------------------
(* The agent.                                                              *)

Collect == /\ Collecting
           /\ Buffer!Extend(1)
           /\ UNCHANGED <<phase, key, seq, call, reply, requests, serverVars, countVars>>

(* Transport.handshake up to its POST, with a fresh SecureClient; the one  *)
(* in use is replaced only when the 200 arrives.                           *)
StartHandshake(next) ==
    /\ nextKey <= MaxKeys
    /\ nextKey' = nextKey + 1
    /\ phase' = next
    /\ Send(Handshake(nextKey))
    /\ UNCHANGED <<bufferVars, key, seq, serverVars, seals, faults, faulted, cutOff>>

(* run: transport.connect, before the collectors start.                    *)
Connect == phase = "start" /\ StartHandshake("connect")

Connected ==
    /\ phase = "connect" /\ reply = "ok"
    /\ key' = call.key /\ seq' = 0
    /\ phase' = "idle"
    /\ Hangup
    /\ UNCHANGED <<bufferVars, requests, serverVars, countVars>>

(* run returns 2 when connect raises.                                      *)
ConnectFails ==
    /\ phase = "connect" /\ reply \notin {"none", "ok"}
    /\ phase' = "exited"
    /\ Hangup
    /\ UNCHANGED <<bufferVars, key, seq, requests, serverVars, countVars>>

(* flush_once: drain, seal under the next sequence number, POST.           *)
Flush ==
    /\ phase = "idle"
    /\ seals < MaxSeals
    /\ Buffer!Drain
    /\ seq' = NextSeq
    /\ Send(SealedBatch(key, seq', inFlight'))
    /\ phase' = "post"
    /\ seals' = seals + 1
    /\ faulted' = FALSE
    /\ UNCHANGED <<key, serverVars, nextKey, faults, cutOff>>

Acknowledged ==
    /\ phase \in {"post", "repost"} /\ reply = "ok"
    /\ Buffer!Settle
    /\ phase' = "idle"
    /\ Hangup
    /\ UNCHANGED <<key, seq, requests, serverVars, countVars>>

(* send: the session was gone; re-key once.                                *)
Rekey == phase = "post" /\ MustRekey(reply) /\ StartHandshake("rekey")

(* send: the new session seals the same batch again.                       *)
Repost ==
    /\ phase = "rekey" /\ reply = "ok"
    /\ seals < MaxSeals
    /\ key' = call.key /\ seq' = 1
    /\ Send(SealedBatch(call.key, 1, inFlight))
    /\ phase' = "repost"
    /\ seals' = seals + 1
    /\ UNCHANGED <<bufferVars, serverVars, nextKey, faults, faulted, cutOff>>

(* Every other answer is a TransportError: flush_once requeues.            *)
SendFails ==
    /\ \/ phase = "post" /\ reply \notin {"none", "ok"} /\ ~MustRekey(reply)
       \/ phase = "repost" /\ reply \notin {"none", "ok"}
       \/ phase = "rekey" /\ reply \notin {"none", "ok"}
    /\ GiveBack
    /\ phase' = "idle"
    /\ Hangup
    /\ UNCHANGED <<key, seq, requests, serverVars, countVars>>

(* The handling of httpx.HTTPError, whichever POST raised it.              *)
HttpError ==
    /\ IF phase = "connect" THEN phase' = "exited" /\ UNCHANGED bufferVars
                            ELSE phase' = "idle" /\ GiveBack
    /\ Hangup
    /\ UNCHANGED <<key, seq, serverVars>>

(* The agent stops waiting: its request was lost, is late, or was handled  *)
(* and the answer is lost or late.                                         *)
Timeout ==
    /\ call # NoCall
    /\ Fault(IF call.type = "handshake" THEN "handshake timeout" ELSE "post timeout")
    /\ HttpError
    /\ requests' \in {requests, requests \ {call}}

(* A restart took the request down: no answer can come any more.           *)
ConnectionReset ==
    /\ call # NoCall /\ reply = "none"
    /\ call \notin requests \cup opened \cup {pipeline}
    /\ HttpError
    /\ UNCHANGED <<requests, countVars>>

-----------------------------------------------------------------------------
(* The server.                                                             *)

Take(r, type) == /\ r.type = type
                 /\ requests' = requests \ {r}

(* POST /handshake: SessionRegistry.establish replaces any session.        *)
AcceptHandshake(r) ==
    /\ Take(r, "handshake")
    /\ session' = Established(r.key)
    /\ Answer(r, "ok")
    /\ UNCHANGED <<bufferVars, phase, key, seq, call, opened, pipeline, log, countVars>>

(* server_accept_handshake: the timestamp is out of range.                 *)
RefuseHandshake(r) ==
    /\ Fault("clock skew")
    /\ Take(r, "handshake")
    /\ Answer(r, "error")
    /\ UNCHANGED <<bufferVars, phase, key, seq, call, serverVars>>

(* POST /events, refused before anything was recorded.                     *)
RefuseBatch(r) ==
    /\ Take(r, "batch")
    /\ Verdict(r) # "open"
    /\ Answer(r, Verdict(r))
    /\ UNCHANGED <<bufferVars, phase, key, seq, call, serverVars, countVars>>

(* POST /events up to the await: record_batch commits the sequence number, *)
(* and the batch waits in the thread pool for the pipeline's lock.         *)
OpenBatch(r) ==
    /\ Take(r, "batch")
    /\ Verdict(r) = "open"
    /\ session' = Recorded(session, r.seq)
    /\ opened' = opened \cup {r}
    /\ Answer(r, AnswerOnRecord(r))
    /\ UNCHANGED <<bufferVars, phase, key, seq, call, pipeline, log, countVars>>

(* process_batch takes the lock and insert_events commits.                 *)
Ingest(r) ==
    /\ pipeline = NoBatch
    /\ opened' = opened \ {r}
    /\ pipeline' = r
    /\ log' = Append(log, r)
    /\ UNCHANGED <<bufferVars, phase, key, seq, call, reply, requests, session, countVars>>

(* process_batch returned: the handler answers 200.                        *)
Finish ==
    /\ pipeline # NoBatch
    /\ pipeline' = NoBatch
    /\ Answer(pipeline, "ok")
    /\ UNCHANGED <<bufferVars, phase, key, seq, call, requests, session, opened, log, countVars>>

(* process_batch raised, before or after it stored the events: 500.        *)
PipelineError ==
    /\ Fault("pipeline error")
    /\ \/ /\ pipeline # NoBatch
          /\ pipeline' = NoBatch
          /\ Answer(pipeline, "error")
          /\ UNCHANGED opened
       \/ /\ pipeline = NoBatch
          /\ \E r \in opened : opened' = opened \ {r} /\ Answer(r, "error")
          /\ UNCHANGED pipeline
    /\ UNCHANGED <<bufferVars, phase, key, seq, call, requests, session, log>>

(* Sessions and running handlers live in memory; the log does not.         *)
Restart ==
    /\ Fault("restart")
    /\ session' = NoSession
    /\ opened' = {}
    /\ pipeline' = NoBatch
    /\ requests' \in SUBSET requests
    /\ UNCHANGED <<bufferVars, phase, key, seq, call, reply, log>>

-----------------------------------------------------------------------------
Agent == \/ Connect \/ Connected \/ ConnectFails
         \/ Flush \/ Acknowledged \/ Rekey \/ Repost \/ SendFails
         \/ ConnectionReset

Server == \/ \E r \in requests : AcceptHandshake(r) \/ RefuseBatch(r) \/ OpenBatch(r)
          \/ \E r \in opened : Ingest(r)
          \/ Finish

Environment == \/ Collect
               \/ Timeout
               \/ \E r \in requests : RefuseHandshake(r)
               \/ PipelineError
               \/ Restart

Next == Agent \/ Server \/ Environment

Spec == Init /\ [][Next]_vars

(* The agent's loop wakes on its timer and reads its answers; uvicorn      *)
(* takes up every request, and the thread pool every batch, in the end.    *)
FairSpec == Spec /\ WF_vars(Agent) /\ WF_vars(Server)

-----------------------------------------------------------------------------
Requests == [type : {"handshake"}, key : 1 .. MaxKeys]
            \cup [type : {"batch"}, key : 1 .. MaxKeys, seq : 1 .. MaxSeals,
                  events : Seq(1 .. MaxEvents)]

TypeOK ==
    /\ Buffer!BufferTypeOK
    /\ phase \in {"start", "connect", "idle", "post", "rekey", "repost", "exited"}
    /\ key \in 0 .. MaxKeys
    /\ seq \in 0 .. MaxSeals
    /\ call \in Requests \cup {NoCall}
    /\ reply \in {"none", "ok", "no session", "replay", "decrypt", "error"}
    /\ requests \subseteq Requests
    /\ session \in [key : 0 .. MaxKeys, lastSeq : 0 .. MaxSeals]
    /\ opened \subseteq Requests
    /\ pipeline \in Requests \cup {NoBatch}
    /\ log \in Seq(Requests)
    /\ nextKey \in 1 .. MaxKeys + 1
    /\ seals \in 0 .. MaxSeals
    /\ faults \in 0 .. MaxFaults
    /\ faulted \in BOOLEAN
    /\ cutOff \in BOOLEAN

(* The agent forgets a batch only when the server has stored its events:   *)
(* flush_once settles on the 200, which the handler sends after            *)
(* process_batch returned (agent_routes.py:208-223).                       *)
AckImpliesLogged == Elems(delivered) \subseteq Logged

(* "a transient network error costs a retry rather than the data"          *)
(* (buffer.py:11-13): whatever fails, an event that is neither stored nor  *)
(* still held by the agent was dropped by the cap, and counted.            *)
NothingVanishes ==
    Cardinality((1 .. accepted) \ (Elems(items) \cup Elems(inFlight) \cup Logged))
        <= dropped

(* The batch the agent is waiting on is never taken for a replay: however  *)
(* late its earlier requests arrive, its sequence number is ahead of the   *)
(* server's under that key (transport.py:211-213 prepares for the contrary).*)
LiveBatchNotReplay == reply # "replay"

(* A late copy of a batch whose events the agent already saw acknowledged  *)
(* is never opened: the sequence check and the change of key together keep *)
(* a retry from counting the events again afterwards.                      *)
LateCopyRefused ==
    \A r \in opened' \ opened : Elems(r.events) \cap Elems(delivered) = {}

NoReopenAfterAck == [][LateCopyRefused]_vars

(* The agent's half of the protocol uses the buffer only as EventBuffer    *)
(* allows, so what is proved of EventBuffer holds of every delivery.       *)
UsesBufferCorrectly == Buffer!BufferSpec

(* The promise of buffer.py:11-13 and transport.py:211-212 about recovery: a*)
(* send fails only if something failed while it was being made.            *)
SendGivesUp == /\ phase \in {"post", "rekey", "repost"}
               /\ phase' = "idle"
               /\ delivered' = delivered

SendsFailOnlyOnFaults == [][SendGivesUp => faulted']_vars

(* The part of it the code keeps: as long as no handshake's answer was lost.*)
SendsFailOnlyOnFaultsUnlessCutOff == [][SendGivesUp /\ ~cutOff' => faulted']_vars

(* Every collected event is acknowledged in the end, once faults stop, as  *)
(* long as no handshake's answer was lost and the cap dropped nothing.     *)
EventuallyAcknowledged ==
    \A e \in 1 .. MaxEvents :
        (e \in Elems(items)) ~> (e \in Elems(delivered) \/ cutOff \/ dropped > 0)
=============================================================================
