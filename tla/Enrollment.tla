----------------------------- MODULE Enrollment -----------------------------
(***************************************************************************)
(* How endpoints come to be trusted, and stay connected: the key files of  *)
(* server and agent (server/keygen.py, agent/keygen.py), one-time tokens   *)
(* (sqlite_store.py, soc_routes.py), POST /enroll and POST /handshake      *)
(* (server/api/agent_routes.py), Transport.enroll and .handshake           *)
(* (agent/transport.py), and what a key exchange agrees on                 *)
(* (vigil/pqc/channel.py, kem.py, sig.py).                                 *)
(*                                                                         *)
(* A key is named by its generation; an endpoint's signing key also by its *)
(* endpoint.  The server handles one enrollment at a time: the handler has *)
(* no await before it registers the agent.  An encapsulation under one KEM *)
(* key that is decapsulated with another yields a different secret and no  *)
(* error.  Delivery treats lost answers and replays; here a send is one    *)
(* exchange.                                                               *)
(***************************************************************************)
EXTENDS Naturals, FiniteSets

CONSTANTS Machines,    \* endpoints
          Ids,         \* agent_ids an endpoint can be configured with
          MaxTokens,   \* bound: tokens minted
          MaxKeygens,  \* bound: key rotations
          MaxFaults    \* bound: crashes of the server, endpoints stopped

None == "none"                    \* no endpoint, agent_id or outcome

ASSUME EnrollmentAssumption == /\ IsFiniteSet(Machines)
                               /\ None \notin Machines \cup Ids
                               /\ MaxTokens \in Nat
                               /\ MaxKeygens \in Nat
                               /\ MaxFaults \in Nat

(* What the two sides are configured with.  An agent that pins knows the   *)
(* key of the bundle it was given.                                         *)
ServerConfig == [requireToken : BOOLEAN, allowReenroll : BOOLEAN]
AgentConfig == [idOf : [Machines -> Ids], pinned : BOOLEAN]

NoPair == [public |-> 0, secret |-> 0]
FirstPair == [public |-> 1, secret |-> 1]

VARIABLES config,    \* both sides' configuration; never changes
          disk,      \* the server's KEM key files
          server,    \* the running server: its loaded keys, or NoPair
          agents,    \* agents table: the verify key of each agent_id
          tokens,    \* enroll_tokens table: used_by of each minted token
          sessions,  \* SessionRegistry
          serving,   \* the enrollment between its two commits
          files,     \* each endpoint's signing key files
          given,     \* the enroll_token in each endpoint's config, 0 if blank
          pc,        \* what each endpoint's agent is doing
          ident,     \* the key pair it loaded
          ek,        \* server_ek, the KEM key it learned
          sent,      \* how its last send went
          left,      \* why it last exited
          admitted,  \* history: the keys each endpoint once connected with
          paid, cut, \* history: per agent_id, tokens that bought a registration
                     \*          and tokens whose enrollment was cut short
          used       \* the bounds' counters

serverVars == <<disk, server, agents, tokens, sessions, serving>>
agentVars == <<files, given, pc, ident, ek, sent, left>>
historyVars == <<admitted, paid, cut>>
vars == <<config, serverVars, agentVars, historyVars, used>>

NoSession == [by |-> None, sound |-> FALSE]
Key(m, n) == [machine |-> m, gen |-> n]
NoAgent == [machine |-> None, gen |-> 0]
Idle == [machine |-> None, id |-> None, key |-> NoAgent, token |-> 0]

IdOf(m) == config.agent.idOf[m]
Own(m) == Key(m, ident[m].public)          \* what the endpoint enrolls with
Registered(m) == agents[IdOf(m)]
Up == server # NoPair
Alive(m) == pc[m] # "off"
Minted == DOMAIN tokens
Bounded(name, bound) == /\ used[name] < bound
                        /\ used' = [used EXCEPT ![name] = @ + 1]

-----------------------------------------------------------------------------
(* Altered forms of the definitions below, to see the properties fail.     *)

AlwaysNeedsToken(m) == config.server.requireToken
TokenReusable(m) == given[m] # 0
KnownIsEnough(m) == \/ Registered(m) # NoAgent \/ ~config.server.requireToken
                    \/ given[m] # 0 /\ tokens[given[m]] = None
NeverRekey(m) == FALSE

-----------------------------------------------------------------------------
(* keys_exist, of either side: all files are there; whether they belong    *)
(* together is not looked at.                                              *)
KeysExist(pair) == pair.public # 0 /\ pair.secret # 0

(* load_keys: read once, when the process starts.                          *)
LoadedKeys == disk
LoadedPair(m) == files[m]

(* The handler's if/elif: a known agent_id is compared by key, and only an *)
(* unknown one, or any when re-enrollment is allowed, needs a token.       *)
ComparedByKey(m) == Registered(m) # NoAgent /\ ~config.server.allowReenroll
NeedsToken(m) == config.server.requireToken /\ ~ComparedByKey(m)

(* consume_enroll_token: the token exists and nobody used it.              *)
TokenUsable(m) == given[m] # 0 /\ tokens[given[m]] = None

MayEnroll(m) == /\ ComparedByKey(m) => Registered(m) = Own(m)
                /\ NeedsToken(m) => TokenUsable(m)

(* sig.verify with the registered key, over what the endpoint signed.      *)
SignatureValid(m) == Registered(m) = Key(m, ident[m].secret)

(* kem.decapsulate gives the secret the endpoint encapsulated.             *)
SameSecret(m) == ek[m] = server.secret

(* _post_sealed: the 409 that mentions the session.                        *)
MustRekey(m) == sessions[IdOf(m)] = NoSession

Init == /\ config \in [server : ServerConfig, agent : AgentConfig]
        /\ disk \in {NoPair, FirstPair}
        /\ server = NoPair
        /\ agents = [i \in Ids |-> NoAgent]
        /\ tokens = <<>>
        /\ sessions = [i \in Ids |-> NoSession]
        /\ serving = Idle
        /\ files \in [Machines -> {NoPair, FirstPair}]
        /\ given = [m \in Machines |-> 0]
        /\ pc = [m \in Machines |-> "off"]
        /\ ident = [m \in Machines |-> NoPair]
        /\ ek = [m \in Machines |-> 0]
        /\ sent = [m \in Machines |-> None]
        /\ left = [m \in Machines |-> None]
        /\ admitted = [m \in Machines |-> {}]
        /\ paid = [i \in Ids |-> 0] /\ cut = [i \in Ids |-> 0]
        /\ used = [keygens |-> 0, faults |-> 0]

-----------------------------------------------------------------------------
(* Administration.                                                         *)

(* keygen --new-token or POST /enroll-token; the token goes into one       *)
(* endpoint's config, or into several by mistake.                          *)
AddEnrollToken == tokens' = [t \in 1 .. Cardinality(Minted) + 1 |->
                                 IF t \in Minted THEN tokens[t] ELSE None]

MintToken ==
    /\ Cardinality(Minted) < MaxTokens
    /\ AddEnrollToken
    /\ UNCHANGED <<config, disk, server, agents, sessions, serving, agentVars, historyVars, used>>

ConfigureToken(m, t) ==
    /\ pc[m] = "off"
    /\ t # given[m]
    /\ given' = [given EXCEPT ![m] = t]
    /\ UNCHANGED <<config, serverVars, files, pc, ident, ek, sent, left, historyVars, used>>

(* server.keygen, with --force where keys exist: the public file first,    *)
(* then the secret one; it may die between.                                *)
WriteServerPublic ==
    /\ Bounded("keygens", MaxKeygens)
    /\ disk' = [disk EXCEPT !.public = used.keygens + 2]
    /\ UNCHANGED <<config, server, agents, tokens, sessions, serving, agentVars, historyVars>>

WriteServerSecret ==
    /\ disk.secret # disk.public
    /\ disk' = [disk EXCEPT !.secret = disk.public]
    /\ UNCHANGED <<config, server, agents, tokens, sessions, serving, agentVars, historyVars, used>>

(* agent.keygen, likewise.                                                 *)
WriteAgentPublic(m) ==
    /\ Bounded("keygens", MaxKeygens)
    /\ files' = [files EXCEPT ![m].public = used.keygens + 2]
    /\ UNCHANGED <<config, serverVars, given, pc, ident, ek, sent, left, historyVars>>

WriteAgentSecret(m) ==
    /\ files[m].secret # files[m].public
    /\ files' = [files EXCEPT ![m].secret = files[m].public]
    /\ UNCHANGED <<config, serverVars, given, pc, ident, ek, sent, left, historyVars, used>>

-----------------------------------------------------------------------------
(* The server's process.                                                   *)

(* main refuses to start without keys; create_app loads them once, with an *)
(* empty SessionRegistry.                                                  *)
CreateApp == /\ server' = LoadedKeys
             /\ sessions' = [i \in Ids |-> NoSession]
             /\ UNCHANGED <<disk, agents, tokens, serving>>

StartServer ==
    /\ ~Up
    /\ KeysExist(disk)
    /\ CreateApp
    /\ UNCHANGED <<config, agentVars, historyVars, used>>

Exit(m, why) == /\ pc' = [pc EXCEPT ![m] = "off"]
                /\ left' = [left EXCEPT ![m] = why]

(* The sessions, and the enrollment being handled, are gone.  An agent     *)
(* waiting in connect exits.                                               *)
StopServer ==
    /\ Up
    /\ Bounded("faults", MaxFaults)
    /\ server' = NoPair
    /\ sessions' = [i \in Ids |-> NoSession]
    /\ serving' = Idle
    /\ cut' = IF serving.token # 0
              THEN [cut EXCEPT ![serving.id] = @ + 1] ELSE cut
    /\ pc' = [m \in Machines |-> IF pc[m] = "running" THEN "running" ELSE "off"]
    /\ left' = [m \in Machines |-> IF pc[m] \in {"off", "running"} THEN left[m]
                                   ELSE "unreachable"]
    /\ UNCHANGED <<config, disk, agents, tokens, files, given, ident, ek, sent, admitted, paid>>

-----------------------------------------------------------------------------
(* Enrollment.                                                             *)

(* A new process: EndpointAgent loads its keys, run calls connect.         *)
StartAgent(m) ==
    /\ pc[m] = "off"
    /\ KeysExist(files[m])
    /\ left' = [left EXCEPT ![m] = None]
    /\ sent' = [sent EXCEPT ![m] = None]
    /\ ek' = [ek EXCEPT ![m] = 0]
    /\ ident' = [ident EXCEPT ![m] = LoadedPair(m)]
    /\ pc' = [pc EXCEPT ![m] = "enrolling"]
    /\ UNCHANGED <<config, serverVars, files, given, historyVars, used>>

(* 401 invalid or used token, 409 different key: EnrollmentError.          *)
RefuseEnroll(m) ==
    /\ pc[m] = "enrolling" /\ Up /\ serving = Idle
    /\ ~MayEnroll(m)
    /\ Exit(m, "refused")
    /\ UNCHANGED <<config, serverVars, files, given, ident, ek, sent, historyVars, used>>

(* The checks passed, and a needed token is spent.                         *)
AdmitEnroll(m) ==
    /\ pc[m] = "enrolling" /\ Up /\ serving = Idle
    /\ MayEnroll(m)
    /\ tokens' = IF NeedsToken(m) THEN [tokens EXCEPT ![given[m]] = IdOf(m)] ELSE tokens
    /\ serving' = [machine |-> m, id |-> IdOf(m), key |-> Own(m),
                   token |-> IF NeedsToken(m) THEN given[m] ELSE 0]
    /\ pc' = [pc EXCEPT ![m] = "admitted"]
    /\ UNCHANGED <<config, disk, server, agents, sessions, files, given, ident, ek,
                   sent, left, historyVars, used>>

(* enroll, on the 200: an agent that pinned another fingerprint exits,     *)
(* registered as it now is; else the key is kept for every later handshake.*)
BundledKey == FirstPair.public
PinMismatch == config.agent.pinned /\ server.public # BundledKey

TakeServerKey(m) ==
    IF PinMismatch THEN Exit(m, "fingerprint") /\ UNCHANGED ek
    ELSE /\ ek' = [ek EXCEPT ![m] = server.public]
         /\ pc' = [pc EXCEPT ![m] = "handshaking"]
         /\ UNCHANGED left

(* upsert_agent, and the answer with the server's KEM key.                 *)
UpsertAgent(id, key) == agents' = [agents EXCEPT ![id] = key]

Register ==
    /\ serving # Idle
    /\ UpsertAgent(serving.id, serving.key)
    /\ paid' = IF serving.token # 0 THEN [paid EXCEPT ![serving.id] = @ + 1] ELSE paid
    /\ serving' = Idle
    /\ IF pc[serving.machine] = "admitted"
       THEN TakeServerKey(serving.machine)
       ELSE UNCHANGED <<pc, left, ek>>
    /\ UNCHANGED <<config, disk, server, tokens, sessions, files, given, ident, sent,
                   admitted, cut, used>>

(* The server cannot be reached, or the agent gave up on its answer.       *)
Unreachable(m) ==
    /\ pc[m] \in {"enrolling", "admitted", "handshaking"}
    /\ IF Up THEN Bounded("faults", MaxFaults) ELSE UNCHANGED used
    /\ Exit(m, "unreachable")
    /\ UNCHANGED <<config, serverVars, files, given, ident, ek, sent, historyVars>>

-----------------------------------------------------------------------------
(* Handshake and delivery.                                                 *)

Establish(m) == sessions' = [sessions EXCEPT ![IdOf(m)] = [by |-> m, sound |-> SameSecret(m)]]

FirstHandshake(m) ==
    /\ pc[m] = "handshaking" /\ Up
    /\ IF SignatureValid(m)
       THEN /\ Establish(m)
            /\ pc' = [pc EXCEPT ![m] = "running"]
            /\ admitted' = [admitted EXCEPT ![m] = @ \cup {Own(m)}]
            /\ UNCHANGED left
       ELSE Exit(m, "unauthenticated") /\ UNCHANGED <<sessions, admitted>>
    /\ UNCHANGED <<config, disk, server, agents, tokens, serving, files, given, ident,
                   ek, sent, paid, cut, used>>

(* One flush: without a session the agent re-handshakes with the KEM key it*)
(* still holds and posts again; else the signature and then the decryption *)
(* decide.                                                                 *)
Send(m) ==
    /\ pc[m] = "running"
    /\ LET id == IdOf(m)
           how == IF ~Up \/ ~SignatureValid(m) THEN "failed"
                  ELSE IF MustRekey(m) THEN IF SameSecret(m) THEN "ok" ELSE "failed"
                  ELSE IF sessions[id] = [by |-> m, sound |-> TRUE] THEN "ok" ELSE "failed"
       IN /\ sent' = [sent EXCEPT ![m] = how]
          /\ IF Up /\ SignatureValid(m) /\ MustRekey(m)
             THEN Establish(m) ELSE UNCHANGED sessions
    /\ UNCHANGED <<config, disk, server, agents, tokens, serving, files, given, pc, ident,
                   ek, left, historyVars, used>>

StopAgent(m) ==
    /\ pc[m] = "running"
    /\ Bounded("faults", MaxFaults)
    /\ Exit(m, "stopped")
    /\ UNCHANGED <<config, serverVars, files, given, ident, ek, sent, historyVars>>

-----------------------------------------------------------------------------
Administration == \/ MintToken
                  \/ \E m \in Machines, t \in Minted \cup {0} : ConfigureToken(m, t)
                  \/ WriteServerPublic \/ WriteServerSecret
                  \/ \E m \in Machines : WriteAgentPublic(m) \/ WriteAgentSecret(m)

Handling == Register \/ \E m \in Machines : RefuseEnroll(m) \/ AdmitEnroll(m) \/ FirstHandshake(m)

Next == \/ Administration
        \/ StartServer \/ StopServer
        \/ Handling
        \/ \E m \in Machines : StartAgent(m) \/ Unreachable(m) \/ Send(m) \/ StopAgent(m)

Spec == Init /\ [][Next]_vars

(* The server handles what arrives, and a running agent's flush timer goes *)
(* off; nobody has to start, stop or administrate anything.                *)
FairSpec == Spec /\ WF_vars(Handling) /\ \A m \in Machines : WF_vars(Send(m))

-----------------------------------------------------------------------------
SpentBy(i) == {t \in Minted : tokens[t] = i}
InService(i) == IF serving.id = i /\ serving.token # 0 THEN 1 ELSE 0

(* "one-time enrollment token" (keygen.py:130, soc_routes.py:260): under   *)
(* every interleaving of minting, copying, enrolling and crashing, each    *)
(* token bought one registration of one agent_id, or was lost with an      *)
(* enrollment the server did not live to finish; and where tokens are      *)
(* required nobody is registered without one.                              *)
TokensPayForKeys ==
    \A i \in Ids :
        /\ Cardinality(SpentBy(i)) = paid[i] + cut[i] + InService(i)
        /\ config.server.requireToken /\ agents[i] # NoAgent => paid[i] > 0

(* "Consumed on first successful enrollment; after that it can be blanked" *)
(* (agent_config.example.yaml:31): an endpoint that was connected once can *)
(* be restarted with the same keys and is never refused, whatever became of*)
(* its token and whoever else claims its agent_id meanwhile.  With         *)
(* allow_reenroll the code refuses it, so this is stated without.          *)
OnceAdmittedNeverRefused ==
    \A m \in Machines :
        left[m] \in {"refused", "unauthenticated"} /\ ~config.server.allowReenroll
            => Own(m) \notin admitted[m] \/ ident[m].public # ident[m].secret

(* "an impostor" cannot take over "a known agent_id" (server_config.example*)
(* .yaml:37-38): a live session belongs to the holder of the registered    *)
(* key, and no one else has ever connected as that agent.                  *)
SessionsBelongToKey ==
    ~config.server.allowReenroll =>
        \A i \in Ids :
            /\ sessions[i] # NoSession => sessions[i].by = agents[i].machine
            /\ Cardinality({m \in Machines : IdOf(m) = i /\ admitted[m] # {}}) <= 1

(* "Tell the agent to re-handshake ... this is the normal path after a     *)
(* server restart" (agent_routes.py:179-180): a running agent whose key is *)
(* registered and whose learned KEM key is the server's delivers again.  The*)
(* last condition is not the code's: after a rotation of the server's keys *)
(* the agent keeps the old one and never delivers again.                   *)
Healthy(m) == /\ pc[m] = "running"
              /\ Up
              /\ SignatureValid(m)
              /\ SameSecret(m)

DeliveryRecovers ==
    \A m \in Machines : Healthy(m) ~> (sent[m] = "ok" \/ ~Healthy(m))

TypeOK ==
    /\ disk \in [public : Nat, secret : Nat]
    /\ server \in [public : Nat, secret : Nat]
    /\ \A i \in Ids : agents[i].machine \in Machines \cup {None}
    /\ \A t \in Minted : tokens[t] \in Ids \cup {None}
    /\ \A i \in Ids : sessions[i].by \in Machines \cup {None}
    /\ pc \in [Machines -> {"off", "enrolling", "admitted", "handshaking", "running"}]
    /\ ek \in [Machines -> Nat]
    /\ left \in [Machines -> {None, "refused", "fingerprint", "unreachable",
                              "unauthenticated", "stopped"}]
=============================================================================
