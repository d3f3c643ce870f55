------------------------------- MODULE Console -------------------------------
(***************************************************************************)
(* What an analyst sees: the handlers that change threats                  *)
(* (server/api/agent_routes.py events, soc_routes.py feedback and policy), *)
(* the fan-out to the dashboards' sockets (server/api/ws.py), and the      *)
(* dashboard's state (frontend/src/App.jsx, api.js).                       *)
(*                                                                         *)
(* A request first runs in a worker thread that holds the pipeline's lock, *)
(* and then, the lock released, broadcasts from the event loop and is      *)
(* answered; Incidents opens up the part under the lock.  The policy       *)
(* routes take the lock on the event loop itself.  A card's content is a   *)
(* version number: the batch that last wrote the threat.  The messages and *)
(* polls that touch no card (summaries, learner statistics) are left out.  *)
(***************************************************************************)
EXTENDS Naturals, Sequences, FiniteSets, SequencesExt

CONSTANTS Threats,      \* threat ids
          Known,        \* those open in the beginning
          Dashboards,   \* open pages
          HighWater,    \* messages a socket takes before a send has to wait
          MaxRequests,  \* bound: requests that change something
          MaxSockets,   \* bound: connections of all dashboards
          MaxLoads      \* bound: full loads of a page

ASSUME ConsoleAssumption == /\ IsFiniteSet(Threats) /\ Known \subseteq Threats
                            /\ IsFiniteSet(Dashboards)
                            /\ HighWater \in Nat
                            /\ MaxRequests \in Nat /\ MaxSockets \in Nat
                            /\ MaxLoads \in Nat

VARIABLES table,     \* the threats table
          lock,      \* the request that holds the pipeline's lock, 0 if none
          loop,      \* the request the event loop is blocked by, 0 if none
          requests,  \* the requests and how far their handlers are
          clients,   \* ConnectionManager._clients
          feed,      \* the messages on their way over each socket
          conn,      \* the socket each dashboard listens to, 0 if none
          cards,     \* each dashboard's threats
          load,      \* a full load a dashboard waits for
          loads,     \* the bound's counter
          muddled    \* history: cards written by something out of order, or
                     \* not written by something that was missed

serverVars == <<table, lock, loop, requests, clients>>
pageVars == <<cards, load, loads, muddled>>
vars == <<serverVars, feed, conn, pageVars>>

NoCard == [version |-> 0, status |-> "none"]
NoLoad == [table |-> <<>>, crossed |-> Threats]
Sockets == DOMAIN feed
Ids == DOMAIN requests
Listening(s) == \E d \in Dashboards : conn[d] = s
Full(s) == Len(feed[s]) > HighWater
Decided(card) == card.status \in {"blocked", "dismissed"}

-----------------------------------------------------------------------------
(* Altered forms of the definitions below, to see the properties fail.     *)

KeepsWaiting(ws, f) == ws
ShowStatusOnly(card, m) == [card EXCEPT !.status = m.card.status]
OverwritesDecided(r) == {i \in r.about : r.kind = "batch" \/ table[i] # NoCard}

-----------------------------------------------------------------------------
(* The pipeline, under its lock.                                           *)

NewRequest(kind, about, status) ==
    [kind |-> kind, about |-> about, status |-> status, step |-> "queued",
     todo |-> <<>>, waiting |-> {}]
Answered == [step |-> "answered", todo |-> <<>>, waiting |-> {}]

(* record writes the threats of the batch's windows that are new or open;  *)
(* apply_feedback refuses a threat that does not exist.                    *)
Writes(r) == {i \in r.about : IF r.kind = "batch" THEN ~Decided(table[i])
                                                  ELSE table[i] # NoCard}

Row(r, i) == IF r.kind = "batch" THEN [version |-> table[i].version + 1, status |-> "open"]
                                 ELSE [table[i] EXCEPT !.status = r.status]

(* threat_event and the feedback route's payload.                          *)
Envelope(r, i) == [type |-> IF r.kind = "batch" THEN "threat" ELSE "feedback",
                   id |-> i, card |-> Row(r, i), late |-> FALSE]
PolicyUpdate == [type |-> "policy_update"]

About(m, ids) == m.type \in {"threat", "feedback"} /\ m.id \in ids

(* History: what other requests still have to tell of ids is out of order. *)
MadeLate(ids) ==
    [q \in Ids |->
        [requests[q] EXCEPT
            !.todo = [k \in DOMAIN @ |->
                          IF About(@[k], ids) THEN [@[k] EXCEPT !.late = TRUE] ELSE @[k]]]]

-----------------------------------------------------------------------------
(* ConnectionManager.broadcast.                                            *)

(* gather returns when every send has: a send waits while its socket is    *)
(* over the high-water mark, and fails when it is closed.                  *)
StillWaiting(ws, f) == {s \in ws : Listening(s) /\ Len(f[s]) > HighWater}

(* History: news of ids came while the full load l was under way.          *)
Crosses(l, ids) == IF l = NoLoad THEN l ELSE [l EXCEPT !.crossed = @ \cup ids]

(* History: dashboard d did not see, or saw too early, news of ids.        *)
Muddle(ds, ids) ==
    /\ muddled' = [d \in Dashboards |-> IF d \in ds THEN muddled[d] \cup ids ELSE muddled[d]]
    /\ load' = [d \in Dashboards |-> IF d \in ds THEN Crosses(load[d], ids) ELSE load[d]]

Subjects(ms) == {ms[k].id : k \in {j \in DOMAIN ms : About(ms[j], Threats)}}

-----------------------------------------------------------------------------
(* The dashboard.                                                          *)

(* "threat" and "threat_update" replace the card; "feedback" changes the   *)
(* status of a card that is there.                                         *)
Replaced(card, m) == m.card
Shown(card, m) == IF m.type = "threat" THEN Replaced(card, m)
                  ELSE IF card = NoCard THEN NoCard
                  ELSE [card EXCEPT !.status = m.card.status]

(* The server has run before, and the pages were just loaded.              *)
Init == /\ table = [i \in Threats |-> IF i \in Known THEN [version |-> 1, status |-> "open"]
                                             ELSE NoCard]
        /\ lock = 0 /\ loop = 0
        /\ requests = <<>>
        /\ clients = {}
        /\ feed = <<>>
        /\ conn = [d \in Dashboards |-> 0]
        /\ cards = [d \in Dashboards |-> table]
        /\ load = [d \in Dashboards |-> NoLoad]
        /\ loads = 0
        /\ muddled = [d \in Dashboards |-> {}]

-----------------------------------------------------------------------------
(* Requests arrive.                                                        *)

Arrive(r) == /\ loop = 0
             /\ Len(requests) < MaxRequests
             /\ requests' = Append(requests, r)
             /\ UNCHANGED <<table, lock, clients, feed, conn, pageVars>>

(* POST /agent/events, then run_in_threadpool(process_batch).              *)
PostEvents(about) == Arrive(NewRequest("batch", about, "open")) /\ UNCHANGED loop

(* POST /feedback on a card that is shown.                                 *)
PostFeedback(d, i, status) ==
    /\ cards[d][i] # NoCard
    /\ Arrive(NewRequest("verdict", {i}, status))
    /\ UNCHANGED loop

(* PUT /policy: the handler itself waits for the lock, and with it the loop.*)
PutPolicy == Arrive(NewRequest("policy", {}, "none")) /\ loop' = Len(requests) + 1

-----------------------------------------------------------------------------
(* The worker threads.                                                     *)

Acquire(r) ==
    /\ lock = 0
    /\ requests[r].step = "queued"
    /\ lock' = r
    /\ requests' = [requests EXCEPT ![r].step = "working"]
    /\ UNCHANGED <<table, loop, clients, feed, conn, pageVars>>

(* Everything is committed before the lock is released; the threats of one *)
(* batch are told of in any order.  A 404 or an error leaves nothing to tell.*)
Commit(r) ==
    /\ requests[r].step = "working"
    /\ LET ids == Writes(requests[r])
       IN /\ table' = [i \in Threats |-> IF i \in ids THEN Row(requests[r], i) ELSE table[i]]
          /\ \E order \in SetToSeqs(ids) :
                requests' = [MadeLate(ids) EXCEPT
                   ![r].step = "done",
                   ![r].todo = IF requests[r].kind = "policy" THEN <<PolicyUpdate>>
                               ELSE [k \in DOMAIN order |-> Envelope(requests[r], order[k])]]
    /\ lock' = 0
    /\ loop' = IF loop = r THEN 0 ELSE loop
    /\ UNCHANGED <<clients, feed, conn, pageVars>>

-----------------------------------------------------------------------------
(* The event loop.                                                         *)

(* The next message goes to every client; those already closed fail their  *)
(* send and are dropped.                                                   *)
Broadcast(r) ==
    /\ loop = 0
    /\ requests[r].step = "done"
    /\ requests[r].todo # <<>>
    /\ requests[r].waiting = {}
    /\ LET m == Head(requests[r].todo)
           sent == [s \in Sockets |-> IF s \in clients /\ Listening(s)
                                      THEN Append(feed[s], m) ELSE feed[s]]
       IN /\ feed' = sent
          /\ requests' = [requests EXCEPT ![r].todo = Tail(@),
                                          ![r].waiting = StillWaiting(clients, sent)]
          /\ clients' = {s \in clients : Listening(s)}
          /\ Muddle({d \in Dashboards : conn[d] = 0}, Subjects(<<m>>))
    /\ UNCHANGED <<table, lock, loop, conn, cards, loads>>

(* The handler returns: only now is the agent, or the analyst, answered.   *)
Answer(r) ==
    /\ loop = 0
    /\ requests[r].step = "done"
    /\ requests[r].todo = <<>>
    /\ requests[r].waiting = {}
    /\ requests' = [requests EXCEPT ![r] = Answered]
    /\ UNCHANGED <<table, lock, loop, clients, feed, conn, pageVars>>

(* dashboard_socket: registered first, then greeted with a summary.        *)
SocketOpens(d) ==
    /\ loop = 0
    /\ conn[d] = 0
    /\ Len(feed) < MaxSockets
    /\ feed' = Append(feed, <<>>)
    /\ conn' = [conn EXCEPT ![d] = Len(feed) + 1]
    /\ clients' = clients \cup {Len(feed) + 1}
    /\ UNCHANGED <<table, lock, loop, requests, pageVars>>

(* receive_text raises, and the finally block disconnects.                 *)
NoticeClosed(s) ==
    /\ loop = 0
    /\ s \in clients /\ ~Listening(s)
    /\ clients' = clients \ {s}
    /\ UNCHANGED <<table, lock, loop, requests, feed, conn, pageVars>>

Closes(d) ==
    /\ conn[d] # 0
    /\ conn' = [conn EXCEPT ![d] = 0]
    /\ feed' = [feed EXCEPT ![conn[d]] = <<>>]
    /\ requests' = [q \in Ids |->
                       [requests[q] EXCEPT !.waiting = StillWaiting(@ \ {conn[d]}, feed)]]
    /\ Muddle({d}, Subjects(feed[conn[d]]))
    /\ UNCHANGED <<table, lock, loop, clients, cards, loads>>

(* The network fails, or the page is gone.                                 *)
SocketBreaks(d) == Closes(d)

(* The web server closes a socket that answers no ping.                    *)
KeepAlive(d) == conn[d] # 0 /\ Full(conn[d]) /\ Closes(d)

-----------------------------------------------------------------------------
(* The page.                                                               *)

(* loadAll, at mount or by the refresh button: the table is read now, and  *)
(* shown when the answer arrives.                                          *)
BeginLoad(d) ==
    /\ loop = 0
    /\ load[d] = NoLoad
    /\ loads < MaxLoads
    /\ loads' = loads + 1
    /\ load' = [load EXCEPT ![d] = [table |-> table, crossed |-> {}]]
    /\ UNCHANGED <<serverVars, feed, conn, cards, muddled>>

EndLoad(d) ==
    /\ load[d] # NoLoad
    /\ cards' = [cards EXCEPT ![d] = load[d].table]
    /\ muddled' = [muddled EXCEPT ![d] = load[d].crossed]
    /\ load' = [load EXCEPT ![d] = NoLoad]
    /\ UNCHANGED <<serverVars, feed, conn, loads>>

(* onMessage.                                                              *)
Receive(d) ==
    /\ conn[d] # 0
    /\ feed[conn[d]] # <<>>
    /\ LET s == conn[d]
           m == Head(feed[s])
           rest == [feed EXCEPT ![s] = Tail(@)]
       IN /\ feed' = rest
          /\ requests' = [q \in Ids |-> [requests[q] EXCEPT !.waiting = StillWaiting(@, rest)]]
          /\ IF About(m, Threats)
             THEN /\ cards' = [cards EXCEPT ![d][m.id] = Shown(@, m)]
                  /\ muddled' = [muddled EXCEPT ![d] =
                         IF m.late THEN @ \cup {m.id}
                         ELSE IF m.type = "threat" THEN @ \ {m.id} ELSE @]
                  /\ load' = [load EXCEPT ![d] = Crosses(@, {m.id})]
             ELSE UNCHANGED <<cards, muddled, load>>
    /\ UNCHANGED <<table, lock, loop, clients, conn, loads>>

-----------------------------------------------------------------------------
Handler(r) == Acquire(r) \/ Commit(r) \/ Broadcast(r) \/ Answer(r)

Arrivals == \/ \E about \in SUBSET Threats \ {{}} : PostEvents(about)
            \/ \E d \in Dashboards, i \in Threats, v \in {"blocked", "dismissed"} :
                   PostFeedback(d, i, v)
            \/ PutPolicy

Page(d) == \/ SocketOpens(d) \/ SocketBreaks(d) \/ KeepAlive(d)
           \/ BeginLoad(d) \/ EndLoad(d)
           \/ Receive(d)

Next == \/ Arrivals
        \/ \E r \in Ids : Handler(r)
        \/ \E s \in Sockets : NoticeClosed(s)
        \/ \E d \in Dashboards : Page(d)

Spec == Init /\ [][Next]_vars

(* The worker threads and the event loop go on; the page's timer goes off  *)
(* and its requests are answered; a socket that is never read is closed.   *)
(* Nothing else is owed: a page need not read its socket.                  *)
FairSpec == /\ Spec
            /\ WF_vars(\E r \in Ids : Handler(r))
            /\ \A d \in Dashboards : WF_vars(KeepAlive(d))

-----------------------------------------------------------------------------
(* The verdict route's answer makes the page set the status too; left out: *)
(* the feedback message says the same.                                     *)

Settled == \A r \in Ids : requests[r].step = "answered"
UpToDate(d) == conn[d] # 0 /\ feed[conn[d]] = <<>> /\ load[d] = NoLoad

(* A dashboard that has read all it was sent shows the threats as they are,*)
(* unless it missed a message while offline (nothing is loaded again on    *)
(* reconnecting), or a load and a message crossed, or a message was sent   *)
(* after a later one of the same threat: the handlers broadcast after they *)
(* released the pipeline's lock (agent_routes.py:210-215).                 *)
CardsTellTruth ==
    \A d \in Dashboards :
        Settled /\ UpToDate(d) =>
            \A i \in Threats \ muddled[d] : cards[d][i] = table[i]

(* "Analyst-decided threats are never overwritten" (response.py:160), seen *)
(* from the dashboard: a card that shows an incident as closed is right,   *)
(* also when it is behind, offline or mixed up by a message that was       *)
(* overtaken.  The wrong cards of CardsTellTruth err towards open.         *)
ClosedCardsAreRight ==
    \A d \in Dashboards, i \in Threats : Decided(cards[d][i]) => Decided(table[i])

(* Every agent and analyst is answered, though the answer waits for the    *)
(* slowest dashboard (ws.py:46-48) and a policy change may block the event *)
(* loop (soc_routes.py:291): neither is for ever.                          *)
AnsweredInTheEnd ==
    \A r \in 1 .. MaxRequests :
        (r \in Ids) ~> (r \in Ids /\ requests[r].step = "answered")
=============================================================================
