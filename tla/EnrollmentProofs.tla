------------------------- MODULE EnrollmentProofs -------------------------
(***************************************************************************)
(* The safety properties of Enrollment, proved for every set of endpoints  *)
(* and agent_ids and every number of tokens, key rotations and faults.     *)
(*                                                                         *)
(* The arguments.  A token is spent in one commit and pays in another:     *)
(* Books says what the enrollment between the two still owes.  Who is      *)
(* trusted follows from the server handling one enrollment at a time:      *)
(* Trust says that, without allow_reenroll, the enrollment being handled   *)
(* cannot displace a registered key, and that an endpoint which shakes     *)
(* hands is still the registered one.                                      *)
(***************************************************************************)
EXTENDS Enrollment, FiniteSetTheorems, TLAPS

Pairs == [public : Nat, secret : Nat]
Keys == [machine : Machines, gen : Nat]
Holders == [by : Machines, sound : BOOLEAN]
Enrollments == [machine : Machines, id : Ids, key : Keys, token : Nat]

Typed ==
    /\ config.agent.idOf \in [Machines -> Ids]
    /\ disk \in Pairs /\ server \in Pairs
    /\ agents \in [Ids -> Keys \cup {NoAgent}]
    /\ sessions \in [Ids -> Holders \cup {NoSession}]
    /\ serving \in Enrollments \cup {Idle}
    /\ files \in [Machines -> Pairs] /\ ident \in [Machines -> Pairs]
    /\ given \in [Machines -> Nat]
    /\ pc \in [Machines -> {"off", "enrolling", "admitted", "handshaking", "running"}]
    /\ ek \in [Machines -> Nat]
    /\ left \in [Machines -> {None, "refused", "fingerprint", "unreachable",
                              "unauthenticated", "stopped"}]
    /\ admitted \in [Machines -> SUBSET Keys]
    /\ paid \in [Ids -> Nat] /\ cut \in [Ids -> Nat]
    /\ used \in [keygens : Nat, faults : Nat]

(* The tokens are numbered as they are minted, and every spent one is      *)
(* accounted for; an enrollment that gets on without one is of a           *)
(* registered agent_id, or tokens are not required.                        *)
Numbering == /\ IsFiniteSet(Minted) /\ Minted = 1 .. Cardinality(Minted)
             /\ \A t \in Minted : tokens[t] \in Ids \cup {None}
             /\ \A m \in Machines : given[m] \in Minted \cup {0}

Books ==
    /\ \A i \in Ids : Cardinality(SpentBy(i)) = paid[i] + cut[i] + InService(i)
    /\ config.server.requireToken =>
          /\ \A i \in Ids : agents[i] # NoAgent => paid[i] > 0
          /\ serving # Idle => serving.token # 0 \/ agents[serving.id] # NoAgent

(* An endpoint waiting for the answer to its enrollment is the one being   *)
(* handled, under the key it holds; a live process has not exited.         *)
Waits ==
    \A m \in Machines :
        /\ pc[m] = "admitted" => /\ serving # Idle /\ serving.machine = m
                                 /\ serving.id = IdOf(m) /\ serving.key = Own(m)
        /\ pc[m] # "off" => left[m] = None

Trust ==
    ~config.server.allowReenroll =>
        /\ serving # Idle => agents[serving.id] \in {NoAgent, serving.key}
        /\ \A m \in Machines :
              /\ pc[m] = "handshaking" => Registered(m) = Own(m)
              /\ \A k \in admitted[m] : k.machine = m /\ Registered(m) = k
        /\ \A i \in Ids : sessions[i] # NoSession => sessions[i].by = agents[i].machine

-----------------------------------------------------------------------------
LEMMA InitTyped == Init => Typed
<1> SUFFICES ASSUME Init
             PROVE  Typed
  OBVIOUS
<1>1. config.agent.idOf \in [Machines -> Ids]
  BY DEF Init, AgentConfig
<1>2. NoPair \in Pairs /\ FirstPair \in Pairs
  BY DEF NoPair, FirstPair, Pairs
<1>3. used \in [keygens : Nat, faults : Nat]
  BY DEF Init
<1>4. /\ disk \in Pairs /\ server \in Pairs
      /\ agents \in [Ids -> Keys \cup {NoAgent}]
      /\ sessions \in [Ids -> Holders \cup {NoSession}]
      /\ serving \in Enrollments \cup {Idle}
      /\ files \in [Machines -> Pairs] /\ ident \in [Machines -> Pairs]
  BY <1>2 DEF Init
<1>5. /\ given \in [Machines -> Nat]
      /\ pc \in [Machines -> {"off", "enrolling", "admitted", "handshaking", "running"}]
      /\ ek \in [Machines -> Nat]
      /\ left \in [Machines -> {None, "refused", "fingerprint", "unreachable",
                                "unauthenticated", "stopped"}]
      /\ admitted \in [Machines -> SUBSET Keys]
      /\ paid \in [Ids -> Nat] /\ cut \in [Ids -> Nat]
  BY DEF Init
<1>6. QED
  BY <1>1, <1>3, <1>4, <1>5 DEF Typed

(* What the handlers build is of those shapes.                             *)
LEMMA Shapes ==
    ASSUME Typed, NEW m \in Machines
    PROVE  /\ IdOf(m) \in Ids
           /\ Own(m) \in Keys /\ Own(m).machine = m /\ Own(m).gen = ident[m].public
           /\ ident[m] \in Pairs /\ files[m] \in Pairs
           /\ ident[m].public \in Nat /\ ident[m].secret \in Nat
           /\ Registered(m) \in Keys \cup {NoAgent}
           /\ NoAgent \notin Keys
           /\ \A k \in Keys : k.machine \in Machines
<1>1. config.agent.idOf \in [Machines -> Ids] /\ ident \in [Machines -> Pairs]
      /\ files \in [Machines -> Pairs] /\ agents \in [Ids -> Keys \cup {NoAgent}]
  BY DEF Typed
<1>2. IdOf(m) \in Ids /\ ident[m] \in Pairs /\ files[m] \in Pairs
  BY <1>1 DEF IdOf
<1>3. ident[m].public \in Nat /\ ident[m].secret \in Nat
  BY <1>2 DEF Pairs
<1>4. Own(m) \in Keys /\ Own(m).machine = m /\ Own(m).gen = ident[m].public
  BY <1>3 DEF Own, Key, Keys
<1>5. NoAgent \notin Keys
  BY EnrollmentAssumption DEF NoAgent, Keys
<1>6. QED
  BY <1>1, <1>2, <1>3, <1>4, <1>5 DEF Registered, Keys

LEMMA Busy ==
    ASSUME Typed
    PROVE  /\ serving # Idle => /\ serving \in Enrollments
                                /\ serving.machine \in Machines /\ serving.id \in Ids
                                /\ serving.key \in Keys /\ serving.token \in Nat
           /\ Idle.token = 0 /\ Idle.id = None /\ Idle.machine = None
           /\ Idle \notin Enrollments
<1>1. Idle.token = 0 /\ Idle.id = None /\ Idle.machine = None
  BY DEF Idle
<1>2. Idle \notin Enrollments
  BY <1>1, EnrollmentAssumption DEF Enrollments
<1>3. QED
  BY <1>1, <1>2 DEF Typed, Enrollments

LEMMA BoundedTyped ==
    ASSUME Typed, NEW name \in {"keygens", "faults"}, NEW bound, Bounded(name, bound)
    PROVE  used' \in [keygens : Nat, faults : Nat] /\ used.keygens \in Nat
<1>1. used \in [keygens : Nat, faults : Nat]
  BY DEF Typed
<1>2. used' = [used EXCEPT ![name] = @ + 1]
  BY DEF Bounded
<1>3. CASE name = "keygens"
  BY <1>1, <1>2, <1>3
<1>4. CASE name = "faults"
  BY <1>1, <1>2, <1>4
<1>5. QED
  BY <1>1, <1>3, <1>4

Statuses == {"off", "enrolling", "admitted", "handshaking", "running"}
Reasons == {None, "refused", "fingerprint", "unreachable", "unauthenticated", "stopped"}

LEMMA ExitTyped ==
    ASSUME Typed, NEW m \in Machines, NEW why \in Reasons, Exit(m, why)
    PROVE  pc' \in [Machines -> Statuses] /\ left' \in [Machines -> Reasons]
BY DEF Typed, Exit, Statuses, Reasons

LEMMA StepTyped ==
    ASSUME Typed, Minted \subseteq Nat, [Next]_vars
    PROVE  Typed'
<1> USE DEF serverVars, agentVars, historyVars
<1>1. CASE MintToken \/ UNCHANGED vars
  BY <1>1 DEF MintToken, vars, Typed
<1>2. ASSUME NEW m \in Machines, NEW t \in Minted \cup {0}, ConfigureToken(m, t)
      PROVE  Typed'
  BY <1>2 DEF ConfigureToken, Typed
<1>3. CASE WriteServerPublic
  <2>1. used' \in [keygens : Nat, faults : Nat] /\ used.keygens \in Nat
    BY <1>3, BoundedTyped DEF WriteServerPublic
  <2>2. disk' = [disk EXCEPT !.public = used.keygens + 2]
    BY <1>3 DEF WriteServerPublic
  <2>3. disk' \in Pairs
    BY <2>1, <2>2 DEF Typed, Pairs
  <2>4. QED
    BY <1>3, <2>1, <2>3 DEF WriteServerPublic, Typed
<1>4. CASE WriteServerSecret
  <2>1. disk' \in Pairs
    BY <1>4 DEF WriteServerSecret, Typed, Pairs
  <2>2. QED
    BY <1>4, <2>1 DEF WriteServerSecret, Typed
<1>5. ASSUME NEW m \in Machines, WriteAgentPublic(m) \/ WriteAgentSecret(m)
      PROVE  Typed'
  <2>1. CASE WriteAgentPublic(m)
    <3>1. used' \in [keygens : Nat, faults : Nat] /\ used.keygens \in Nat
      BY <2>1, BoundedTyped DEF WriteAgentPublic
    <3>2. files[m] \in Pairs /\ files \in [Machines -> Pairs]
      BY DEF Typed
    <3>3. [files[m] EXCEPT !.public = used.keygens + 2] \in Pairs
      BY <3>1, <3>2 DEF Pairs
    <3>4. files' = [files EXCEPT ![m] = [files[m] EXCEPT !.public = used.keygens + 2]]
      BY <2>1 DEF WriteAgentPublic
    <3>5. files' \in [Machines -> Pairs]
      BY <3>2, <3>3, <3>4
    <3>6. QED
      BY <2>1, <3>1, <3>5 DEF WriteAgentPublic, Typed
  <2>2. CASE WriteAgentSecret(m)
    <3>1. files[m] \in Pairs /\ files \in [Machines -> Pairs]
      BY DEF Typed
    <3>2. [files[m] EXCEPT !.secret = files[m].public] \in Pairs
      BY <3>1 DEF Pairs
    <3>3. files' = [files EXCEPT ![m] = [files[m] EXCEPT !.secret = files[m].public]]
      BY <2>2 DEF WriteAgentSecret
    <3>4. files' \in [Machines -> Pairs]
      BY <3>1, <3>2, <3>3
    <3>5. QED
      BY <2>2, <3>4 DEF WriteAgentSecret, Typed
  <2>3. QED
    BY <1>5, <2>1, <2>2
<1>6. CASE StartServer
  BY <1>6 DEF StartServer, CreateApp, LoadedKeys, Typed
<1>7. CASE StopServer
  <2>1. used' \in [keygens : Nat, faults : Nat]
    BY <1>7, BoundedTyped DEF StopServer
  <2>2. cut' \in [Ids -> Nat]
    <3>1. CASE serving.token # 0
      <4>1. serving.id \in Ids /\ cut \in [Ids -> Nat]
        BY <3>1, Busy DEF Typed
      <4>2. QED
        BY <1>7, <3>1, <4>1 DEF StopServer
    <3>2. QED
      BY <1>7, <3>1 DEF StopServer, Typed
  <2>3. server' \in Pairs
    BY <1>7 DEF StopServer, NoPair, Pairs
  <2>4. pc' \in [Machines -> Statuses] /\ left' \in [Machines -> Reasons]
    BY <1>7 DEF StopServer, Typed, Statuses, Reasons
  <2>5. QED
    BY <1>7, <2>1, <2>2, <2>3, <2>4 DEF StopServer, Typed, Statuses, Reasons
<1>8. ASSUME NEW m \in Machines, StartAgent(m)
      PROVE  Typed'
  BY <1>8 DEF StartAgent, LoadedPair, Typed
<1>9. ASSUME NEW m \in Machines, RefuseEnroll(m) \/ StopAgent(m) \/ Unreachable(m)
      PROVE  Typed'
  <2>1. used' \in [keygens : Nat, faults : Nat]
    BY <1>9, BoundedTyped DEF RefuseEnroll, StopAgent, Unreachable, Typed
  <2>2. PICK why \in Reasons : Exit(m, why)
    BY <1>9 DEF RefuseEnroll, StopAgent, Unreachable, Reasons
  <2>3. pc' \in [Machines -> Statuses] /\ left' \in [Machines -> Reasons]
    BY <2>2, ExitTyped
  <2>4. QED
    BY <1>9, <2>1, <2>3 DEF RefuseEnroll, StopAgent, Unreachable, Typed, Statuses, Reasons
<1>10. ASSUME NEW m \in Machines, AdmitEnroll(m)
       PROVE  Typed'
  <2>1. serving' \in Enrollments
    <3>1. given[m] \in Nat
      BY DEF Typed
    <3>2. QED
      BY <1>10, <3>1, Shapes DEF AdmitEnroll, Enrollments
  <2>2. pc' \in [Machines -> Statuses]
    BY <1>10 DEF AdmitEnroll, Typed, Statuses
  <2>3. QED
    BY <1>10, <2>1, <2>2 DEF AdmitEnroll, Typed, Statuses
<1>11. CASE Register
  <2>1. serving # Idle /\ serving.machine \in Machines /\ serving.id \in Ids
        /\ serving.key \in Keys
    BY <1>11, Busy DEF Register
  <2>2. agents' \in [Ids -> Keys \cup {NoAgent}]
    BY <1>11, <2>1 DEF Register, UpsertAgent, Typed
  <2>3. paid' \in [Ids -> Nat]
    BY <1>11, <2>1 DEF Register, Typed
  <2>4. /\ pc' \in [Machines -> Statuses] /\ left' \in [Machines -> Reasons]
        /\ ek' \in [Machines -> Nat]
    <3>1. CASE UNCHANGED <<pc, left, ek>>
      BY <3>1 DEF Typed, Statuses, Reasons
    <3>2. CASE TakeServerKey(serving.machine)
      <4>1. CASE PinMismatch
        BY <2>1, <3>2, <4>1, ExitTyped DEF TakeServerKey, Typed, Reasons
      <4>2. CASE ~PinMismatch
        <5>1. server.public \in Nat
          BY DEF Typed, Pairs
        <5>2. QED
          BY <2>1, <3>2, <4>2, <5>1 DEF TakeServerKey, Typed, Statuses, Reasons
      <4>3. QED
        BY <4>1, <4>2
    <3>3. QED
      BY <1>11, <3>1, <3>2 DEF Register
  <2>5. serving' = Idle
    BY <1>11 DEF Register
  <2>6. QED
    BY <1>11, <2>2, <2>3, <2>4, <2>5 DEF Register, Typed, Statuses, Reasons
<1>12. ASSUME NEW m \in Machines, Establish(m)
       PROVE  sessions' \in [Ids -> Holders \cup {NoSession}]
  <2>1. [by |-> m, sound |-> SameSecret(m)] \in Holders
    BY DEF Holders, SameSecret
  <2>2. QED
    BY <1>12, <2>1, Shapes DEF Establish, Typed
<1>13. ASSUME NEW m \in Machines, FirstHandshake(m)
       PROVE  Typed'
  <2>1. CASE SignatureValid(m)
    <3>1. sessions' \in [Ids -> Holders \cup {NoSession}]
      BY <1>12, <1>13, <2>1 DEF FirstHandshake
    <3>2. admitted' \in [Machines -> SUBSET Keys]
      <4>1. admitted' = [admitted EXCEPT ![m] = @ \cup {Own(m)}]
        BY <1>13, <2>1 DEF FirstHandshake
      <4>2. Own(m) \in Keys
        BY Shapes
      <4>3. QED
        BY <4>1, <4>2 DEF Typed
    <3>3. pc' \in [Machines -> Statuses]
      BY <1>13, <2>1 DEF FirstHandshake, Typed, Statuses
    <3>4. QED
      BY <1>13, <2>1, <3>1, <3>2, <3>3 DEF FirstHandshake, Typed, Statuses
  <2>2. CASE ~SignatureValid(m)
    <3>1. pc' \in [Machines -> Statuses] /\ left' \in [Machines -> Reasons]
      BY <1>13, <2>2, ExitTyped DEF FirstHandshake, Reasons
    <3>2. QED
      BY <1>13, <2>2, <3>1 DEF FirstHandshake, Typed, Statuses, Reasons
  <2>3. QED
    BY <2>1, <2>2
<1>14. ASSUME NEW m \in Machines, Send(m)
       PROVE  Typed'
  <2>1. sessions' \in [Ids -> Holders \cup {NoSession}]
    BY <1>12, <1>14 DEF Send, Typed
  <2>2. QED
    BY <1>14, <2>1 DEF Send, Typed
<1>15. QED
  BY <1>1, <1>2, <1>3, <1>4, <1>5, <1>6, <1>7, <1>8, <1>9, <1>10, <1>11, <1>13, <1>14
  DEF Next, Administration, Handling

-----------------------------------------------------------------------------
(* Which steps touch the books: minting, and the enrollment's two commits  *)
(* with the crash between them.                                            *)
BookVars == <<config, tokens, given, serving, paid, cut, agents>>

LEMMA OtherSteps ==
    ASSUME [Next]_vars
    PROVE  \/ UNCHANGED BookVars
           \/ MintToken
           \/ /\ \E m \in Machines, t \in Minted \cup {0} : ConfigureToken(m, t)
              /\ UNCHANGED <<config, tokens, serving, paid, cut, agents>>
           \/ \E m \in Machines : AdmitEnroll(m)
           \/ Register
           \/ StopServer
<1> USE DEF BookVars, serverVars, agentVars, historyVars
<1>1. CASE UNCHANGED vars
  BY <1>1 DEF vars
<1>2. CASE Administration
  BY <1>2 DEF Administration, ConfigureToken, WriteServerPublic, WriteServerSecret,
     WriteAgentPublic, WriteAgentSecret
<1>3. CASE StartServer
  BY <1>3 DEF StartServer, CreateApp
<1>4. ASSUME NEW m \in Machines, RefuseEnroll(m) \/ FirstHandshake(m)
      PROVE  UNCHANGED BookVars
  BY <1>4 DEF RefuseEnroll, FirstHandshake, Establish
<1>5. ASSUME NEW m \in Machines, StartAgent(m) \/ Unreachable(m) \/ Send(m) \/ StopAgent(m)
      PROVE  UNCHANGED BookVars
  BY <1>5 DEF StartAgent, Unreachable, Send, StopAgent
<1>6. QED
  BY <1>1, <1>2, <1>3, <1>4, <1>5 DEF Next, Handling

LEMMA InitBooks == Init => Numbering /\ Books
<1> SUFFICES ASSUME Init
             PROVE  Numbering /\ Books
  OBVIOUS
<1>1. Minted = {}
  BY DEF Init, Minted
<1>2. IsFiniteSet(Minted) /\ Cardinality(Minted) = 0
  BY <1>1, FS_EmptySet
<1>3. Minted = 1 .. Cardinality(Minted)
  BY <1>1, <1>2
<1>4. /\ given = [m \in Machines |-> 0] /\ serving = Idle
      /\ agents = [i \in Ids |-> NoAgent]
      /\ paid = [i \in Ids |-> 0] /\ cut = [i \in Ids |-> 0]
  BY DEF Init
<1>5. Numbering
  BY <1>1, <1>2, <1>3, <1>4 DEF Numbering
<1>6. Idle.token = 0
  BY DEF Idle
<1>7. ASSUME NEW i \in Ids
      PROVE  Cardinality(SpentBy(i)) = paid[i] + cut[i] + InService(i)
  <2>1. SpentBy(i) = {}
    BY <1>1 DEF SpentBy
  <2>2. Cardinality(SpentBy(i)) = 0
    BY <2>1, FS_EmptySet
  <2>3. InService(i) = 0
    BY <1>4, <1>6 DEF InService
  <2>4. QED
    BY <1>4, <2>2, <2>3
<1>8. QED
  BY <1>4, <1>5, <1>7 DEF Books

(* A new token is nobody's.                                                *)
LEMMA MintBooks ==
    ASSUME Numbering, Books, MintToken
    PROVE  Numbering' /\ Books'
<1> DEFINE n == Cardinality(Minted)
<1>1. /\ IsFiniteSet(Minted) /\ Minted = 1 .. n /\ n \in Nat
      /\ \A t \in Minted : tokens[t] \in Ids \cup {None}
      /\ \A m \in Machines : given[m] \in Minted \cup {0}
  BY FS_CardinalityType DEF Numbering
<1>2. /\ UNCHANGED <<config, agents, serving, given, paid, cut>>
      /\ tokens' = [t \in 1 .. n + 1 |-> IF t \in Minted THEN tokens[t] ELSE None]
  BY DEF MintToken, AddEnrollToken, agentVars, historyVars
<1> HIDE DEF n
<1>3. Minted' = 1 .. n + 1
  BY <1>2 DEF Minted
<1>4. IsFiniteSet(Minted') /\ Cardinality(Minted') = n + 1
  BY <1>1, <1>3, FS_Interval
<1>5. Minted \subseteq Minted'
  BY <1>1, <1>3
<1>6. \A t \in Minted' : tokens'[t] = (IF t \in Minted THEN tokens[t] ELSE None)
  BY <1>2, <1>3
<1>7. Numbering'
  BY <1>1, <1>2, <1>3, <1>4, <1>5, <1>6 DEF Numbering
<1>8. ASSUME NEW i \in Ids
      PROVE  SpentBy(i)' = SpentBy(i) /\ InService(i)' = InService(i)
  <2>1. SpentBy(i)' = SpentBy(i)
    BY <1>5, <1>6, EnrollmentAssumption DEF SpentBy
  <2>2. QED
    BY <1>2, <2>1 DEF InService
<1>9. QED
  BY <1>2, <1>7, <1>8 DEF Books

(* A token is spent on the enrollment being handled, or none is needed.    *)
LEMMA AdmitBooks ==
    ASSUME Typed, Numbering, Books, NEW m \in Machines, AdmitEnroll(m)
    PROVE  Numbering' /\ Books'
<1> DEFINE id == IdOf(m)
           tk == given[m]
<1>1. /\ serving = Idle /\ MayEnroll(m)
      /\ tokens' = (IF NeedsToken(m) THEN [tokens EXCEPT ![tk] = id] ELSE tokens)
      /\ serving' = [machine |-> m, id |-> id, key |-> Own(m),
                     token |-> IF NeedsToken(m) THEN tk ELSE 0]
      /\ UNCHANGED <<config, given, paid, cut, agents>>
  BY DEF AdmitEnroll, historyVars
<1>2. id \in Ids /\ id # None /\ Registered(m) = agents[id]
  BY Shapes, EnrollmentAssumption DEF Registered
<1>3. tk \in Minted \cup {0} /\ 0 \notin Minted
  <2>1. IsFiniteSet(Minted) /\ Minted = 1 .. Cardinality(Minted)
    BY DEF Numbering
  <2>2. Cardinality(Minted) \in Nat
    BY <2>1, FS_CardinalityType
  <2>3. 0 \notin 1 .. Cardinality(Minted)
    BY <2>2
  <2>4. QED
    BY <2>1, <2>3 DEF Numbering
<1>4. /\ serving'.id = id /\ serving'.token = (IF NeedsToken(m) THEN tk ELSE 0)
      /\ serving.token = 0
  BY <1>1, Busy
<1> HIDE DEF id, tk
<1>5. NeedsToken(m) => tk \in Minted /\ tk # 0 /\ tokens[tk] = None
  BY <1>1, <1>3 DEF MayEnroll, TokenUsable, tk
<1>6. Minted' = Minted
  BY <1>1 DEF Minted
<1>7. Numbering'
  BY <1>1, <1>2, <1>6 DEF Numbering, Minted
<1>8. ASSUME NEW i \in Ids
      PROVE  (Cardinality(SpentBy(i)) = paid[i] + cut[i] + InService(i))'
  <2>1. Cardinality(SpentBy(i)) = paid[i] + cut[i] /\ paid[i] \in Nat /\ cut[i] \in Nat
    BY <1>4 DEF Books, InService, Typed
  <2>2. CASE NeedsToken(m) /\ i = id
    <3>1. SpentBy(i)' = SpentBy(i) \cup {tk} /\ tk \notin SpentBy(i)
      BY <1>1, <1>2, <1>5, <1>6, <2>2 DEF SpentBy, Minted
    <3>2. IsFiniteSet(SpentBy(i))
      BY FS_Subset DEF Numbering, SpentBy
    <3>3. Cardinality(SpentBy(i)') = Cardinality(SpentBy(i)) + 1
      BY <3>1, <3>2, FS_AddElement
    <3>4. InService(i)' = 1
      BY <1>4, <1>5, <2>2 DEF InService
    <3>5. QED
      BY <1>1, <2>1, <3>3, <3>4
  <2>3. CASE ~(NeedsToken(m) /\ i = id)
    <3>1. SpentBy(i)' = SpentBy(i)
      BY <1>1, <1>2, <1>5, <1>6, <2>3, EnrollmentAssumption DEF SpentBy, Minted
    <3>2. InService(i)' = 0
      BY <1>4, <2>3 DEF InService
    <3>3. QED
      BY <1>1, <2>1, <3>1, <3>2
  <2>4. QED
    BY <2>2, <2>3
<1>9. config.server.requireToken => serving'.token # 0 \/ agents[id] # NoAgent
  BY <1>2, <1>4, <1>5 DEF NeedsToken, ComparedByKey
<1>10. QED
  BY <1>1, <1>4, <1>7, <1>8, <1>9 DEF Books

(* The registration the token bought.                                      *)
LEMMA RegisterBooks ==
    ASSUME Typed, Numbering, Books, Register
    PROVE  Numbering' /\ Books'
<1>1. /\ serving # Idle /\ serving' = Idle
      /\ agents' = [agents EXCEPT ![serving.id] = serving.key]
      /\ paid' = (IF serving.token # 0 THEN [paid EXCEPT ![serving.id] = @ + 1] ELSE paid)
      /\ UNCHANGED <<config, tokens, given, cut>>
  BY DEF Register, UpsertAgent
<1>2. serving.id \in Ids /\ serving.token \in Nat /\ serving'.token = 0
  BY <1>1, Busy
<1>3. Numbering'
  BY <1>1 DEF Numbering, Minted
<1>4. agents \in [Ids -> Keys \cup {NoAgent}] /\ paid \in [Ids -> Nat] /\ cut \in [Ids -> Nat]
  BY DEF Typed
<1>5. ASSUME NEW i \in Ids
      PROVE  (Cardinality(SpentBy(i)) = paid[i] + cut[i] + InService(i))'
  <2>1. Cardinality(SpentBy(i)) = paid[i] + cut[i] + InService(i)
    BY DEF Books
  <2>2. SpentBy(i)' = SpentBy(i) /\ InService(i)' = 0
    BY <1>1, <1>2 DEF SpentBy, Minted, InService
  <2>3. paid'[i] = paid[i] + InService(i)
    BY <1>1, <1>2, <1>4 DEF InService
  <2>4. InService(i) \in {0, 1} /\ paid[i] \in Nat /\ cut[i] \in Nat
    BY <1>4 DEF InService
  <2>5. QED
    BY <1>1, <2>1, <2>2, <2>3, <2>4
<1>6. ASSUME config.server.requireToken, NEW i \in Ids, agents'[i] # NoAgent
      PROVE  paid'[i] > 0
  <2>1. paid[i] \in Nat /\ paid'[i] \in Nat /\ paid'[i] >= paid[i]
    BY <1>1, <1>2, <1>4
  <2>2. CASE agents[i] # NoAgent
    BY <1>6, <2>1, <2>2 DEF Books
  <2>3. CASE agents[i] = NoAgent
    <3>1. i = serving.id
      BY <1>1, <1>4, <1>6, <2>3
    <3>2. serving.token # 0
      BY <1>1, <1>6, <2>3, <3>1 DEF Books
    <3>3. QED
      BY <1>1, <1>4, <2>1, <3>1, <3>2
  <2>4. QED
    BY <2>2, <2>3
<1>7. QED
  BY <1>1, <1>3, <1>5, <1>6 DEF Books

(* The token of an enrollment the server did not live to finish is lost.   *)
LEMMA StopBooks ==
    ASSUME Typed, Numbering, Books, StopServer
    PROVE  Numbering' /\ Books'
<1>1. /\ serving' = Idle
      /\ cut' = (IF serving.token # 0 THEN [cut EXCEPT ![serving.id] = @ + 1] ELSE cut)
      /\ UNCHANGED <<config, tokens, given, paid, agents>>
  BY DEF StopServer
<1>2. /\ serving.token # 0 => serving.id \in Ids
      /\ serving'.token = 0
  BY <1>1, Busy
<1>3. Numbering'
  BY <1>1 DEF Numbering, Minted
<1>4. paid \in [Ids -> Nat] /\ cut \in [Ids -> Nat]
  BY DEF Typed
<1>5. ASSUME NEW i \in Ids
      PROVE  (Cardinality(SpentBy(i)) = paid[i] + cut[i] + InService(i))'
  <2>1. Cardinality(SpentBy(i)) = paid[i] + cut[i] + InService(i)
    BY DEF Books
  <2>2. SpentBy(i)' = SpentBy(i) /\ InService(i)' = 0
    BY <1>1, <1>2 DEF SpentBy, Minted, InService
  <2>3. cut'[i] = cut[i] + InService(i)
    BY <1>1, <1>2, <1>4 DEF InService
  <2>4. InService(i) \in {0, 1} /\ paid[i] \in Nat /\ cut[i] \in Nat
    BY <1>4 DEF InService
  <2>5. QED
    BY <1>1, <2>1, <2>2, <2>3, <2>4
<1>6. QED
  BY <1>1, <1>3, <1>5 DEF Books

LEMMA StepBooks ==
    ASSUME Typed, Numbering, Books, [Next]_vars
    PROVE  Numbering' /\ Books'
<1>1. CASE UNCHANGED BookVars
  BY <1>1 DEF BookVars, Numbering, Books, Minted, SpentBy, InService
<1>2. ASSUME NEW m \in Machines, NEW t \in Minted \cup {0}, ConfigureToken(m, t),
             UNCHANGED <<config, tokens, serving, paid, cut, agents>>
      PROVE  Numbering' /\ Books'
  <2>1. \A k \in Machines : given'[k] \in Minted \cup {0}
    BY <1>2 DEF ConfigureToken, Numbering, Typed
  <2>2. Numbering'
    BY <1>2, <2>1 DEF Numbering, Minted
  <2>3. Books'
    BY <1>2 DEF Books, SpentBy, InService, Minted
  <2>4. QED
    BY <2>2, <2>3
<1>3. QED
  BY <1>1, <1>2, OtherSteps, MintBooks, AdmitBooks, RegisterBooks, StopBooks

LEMMA NumberedTokens == Numbering => Minted \subseteq Nat
<1> SUFFICES ASSUME Numbering
             PROVE  Minted \subseteq Nat
  OBVIOUS
<1>1. IsFiniteSet(Minted) /\ Minted = 1 .. Cardinality(Minted)
  BY DEF Numbering
<1>2. Cardinality(Minted) \in Nat
  BY <1>1, FS_CardinalityType
<1>3. 1 .. Cardinality(Minted) \subseteq Nat
  BY <1>2
<1>4. QED
  BY <1>1, <1>3

(* The types, how tokens and requests are numbered, and the token table's  *)
(* books.                                                                  *)
LEMMA EnrollmentTyped == Spec => [](Typed /\ Numbering /\ Books)
<1>1. Init => Typed /\ Numbering /\ Books
  BY InitTyped, InitBooks
<1>2. Typed /\ Numbering /\ [Next]_vars => Typed'
  BY StepTyped, NumberedTokens
<1>3. Typed /\ Numbering /\ Books /\ [Next]_vars => Numbering' /\ Books'
  BY StepBooks
<1>4. QED
  BY <1>1, <1>2, <1>3, PTL DEF Spec

(* One-time tokens (keygen.py:130, soc_routes.py:260): each bought one     *)
(* registration of one agent_id or was lost with the server's process, and *)
(* where tokens are required nobody is registered without one.             *)
THEOREM TokensPay == Spec => []TokensPayForKeys
<1>1. Books => TokensPayForKeys
  BY DEF Books, TokensPayForKeys
<1>2. QED
  BY <1>1, EnrollmentTyped, PTL

-----------------------------------------------------------------------------
LEMMA InitTrust == Init => Waits /\ Trust /\ OnceAdmittedNeverRefused
<1> SUFFICES ASSUME Init
             PROVE  Waits /\ Trust /\ OnceAdmittedNeverRefused
  OBVIOUS
<1>1. /\ serving = Idle /\ pc = [m \in Machines |-> "off"]
      /\ left = [m \in Machines |-> None]
      /\ admitted = [m \in Machines |-> {}]
      /\ sessions = [i \in Ids |-> NoSession]
  BY DEF Init
<1>2. Waits
  BY <1>1 DEF Waits
<1>3. Trust
  BY <1>1 DEF Trust
<1>4. OnceAdmittedNeverRefused
  BY <1>1 DEF OnceAdmittedNeverRefused, None
<1>5. QED
  BY <1>2, <1>3, <1>4

LEMMA StepWaits ==
    ASSUME Typed, Waits, [Next]_vars
    PROVE  Waits'
<1> USE DEF serverVars, agentVars, historyVars
<1>t. /\ pc \in [Machines -> Statuses] /\ left \in [Machines -> Reasons]
      /\ ident \in [Machines -> Pairs]
  BY DEF Typed, Statuses, Reasons
<1>w. \A m \in Machines :
         /\ pc[m] = "admitted" => /\ serving # Idle /\ serving.machine = m
                                  /\ serving.id = IdOf(m) /\ serving.key = Own(m)
         /\ pc[m] # "off" => left[m] = None
  BY DEF Waits
<1>1. ASSUME UNCHANGED <<config, pc, left, serving, ident>>
      PROVE  Waits'
  BY <1>1 DEF Waits, IdOf, Own
<1>2. CASE UNCHANGED vars \/ Administration \/ StartServer
  BY <1>1, <1>2 DEF vars, Administration, MintToken, ConfigureToken, WriteServerPublic,
     WriteServerSecret, WriteAgentPublic, WriteAgentSecret, StartServer, CreateApp
<1>3. ASSUME NEW m \in Machines, Send(m)
      PROVE  Waits'
  BY <1>1, <1>3 DEF Send
<1>4. CASE StopServer
  <2>1. /\ pc' = [m \in Machines |-> IF pc[m] = "running" THEN "running" ELSE "off"]
        /\ left' = [m \in Machines |-> IF pc[m] \in {"off", "running"} THEN left[m]
                                       ELSE "unreachable"]
    BY <1>4 DEF StopServer
  <2>2. QED
    BY <1>w, <2>1 DEF Waits
(* A step of one endpoint that leaves the server's enrollment alone.       *)
<1>5. ASSUME NEW m \in Machines, UNCHANGED <<config, serving>>,
             \A o \in Machines \ {m} : /\ pc'[o] = pc[o] /\ left'[o] = left[o]
                                       /\ ident'[o] = ident[o],
             pc'[m] # "admitted", pc'[m] = "off" \/ left'[m] = None
      PROVE  Waits'
  <2> SUFFICES ASSUME NEW o \in Machines
               PROVE  /\ pc'[o] = "admitted" =>
                             /\ serving' # Idle /\ serving'.machine = o
                             /\ serving'.id = IdOf(o)' /\ serving'.key = Own(o)'
                      /\ pc'[o] # "off" => left'[o] = None
    BY DEF Waits
  <2>1. CASE o = m
    BY <1>5, <2>1
  <2>2. CASE o # m
    BY <1>w, <1>5, <2>2 DEF IdOf, Own
  <2>3. QED
    BY <2>1, <2>2
<1>6. ASSUME NEW m \in Machines, NEW why \in Reasons, Exit(m, why),
             UNCHANGED <<config, serving, ident>>
      PROVE  Waits'
  <2>1. pc'[m] = "off" /\ \A o \in Machines \ {m} : pc'[o] = pc[o] /\ left'[o] = left[o]
    BY <1>t, <1>6 DEF Exit
  <2>2. QED
    BY <1>5, <1>6, <2>1
<1>7. ASSUME NEW m \in Machines, RefuseEnroll(m) \/ StopAgent(m) \/ Unreachable(m)
      PROVE  Waits'
  <2>1. PICK why \in Reasons : Exit(m, why)
    BY <1>7 DEF RefuseEnroll, StopAgent, Unreachable, Reasons
  <2>2. QED
    BY <1>6, <1>7, <2>1 DEF RefuseEnroll, StopAgent, Unreachable
<1>8. ASSUME NEW m \in Machines, StartAgent(m)
      PROVE  Waits'
  <2>1. /\ pc'[m] = "enrolling" /\ left'[m] = None
        /\ \A o \in Machines \ {m} : /\ pc'[o] = pc[o] /\ left'[o] = left[o]
                                     /\ ident'[o] = ident[o]
    BY <1>t, <1>8 DEF StartAgent
  <2>2. QED
    BY <1>5, <1>8, <2>1 DEF StartAgent
<1>9. ASSUME NEW m \in Machines, FirstHandshake(m)
      PROVE  Waits'
  <2>1. CASE SignatureValid(m)
    <3>1. /\ pc[m] = "handshaking" /\ pc' = [pc EXCEPT ![m] = "running"]
          /\ UNCHANGED <<config, serving, left, ident>>
      BY <1>9, <2>1 DEF FirstHandshake
    <3>2. pc'[m] = "running" /\ left'[m] = None /\ \A o \in Machines \ {m} : pc'[o] = pc[o]
      BY <1>t, <1>w, <3>1
    <3>3. QED
      BY <1>5, <3>1, <3>2
  <2>2. CASE ~SignatureValid(m)
    BY <1>6, <1>9, <2>2 DEF FirstHandshake, Reasons
  <2>3. QED
    BY <2>1, <2>2
<1>10. ASSUME NEW m \in Machines, AdmitEnroll(m)
       PROVE  Waits'
  <2>1. /\ serving = Idle /\ pc[m] = "enrolling"
        /\ serving' = [machine |-> m, id |-> IdOf(m), key |-> Own(m),
                       token |-> IF NeedsToken(m) THEN given[m] ELSE 0]
        /\ pc' = [pc EXCEPT ![m] = "admitted"]
        /\ UNCHANGED <<config, left, ident>>
    BY <1>10 DEF AdmitEnroll
  <2>2. \A o \in Machines \ {m} : pc'[o] = pc[o] /\ pc[o] # "admitted"
    BY <1>t, <1>w, <2>1
  <2>3. serving'.machine = m /\ serving'.id = IdOf(m) /\ serving'.key = Own(m)
    BY <2>1
  <2>4. serving' # Idle
    BY <2>3, Busy, EnrollmentAssumption
  <2>5. \A o \in Machines : IdOf(o)' = IdOf(o) /\ Own(o)' = Own(o)
    BY <2>1 DEF IdOf, Own
  <2>6. pc'[m] = "admitted" /\ left[m] = None
    BY <1>t, <1>w, <2>1
  <2>7. QED
    BY <1>w, <2>1, <2>2, <2>3, <2>4, <2>5, <2>6 DEF Waits
<1>11. CASE Register
  <2>1. serving # Idle /\ serving.machine \in Machines
        /\ UNCHANGED <<config, ident>>
    BY <1>11, Busy DEF Register
  <2>2. \A o \in Machines \ {serving.machine} : /\ pc'[o] = pc[o] /\ left'[o] = left[o]
                                                /\ pc[o] # "admitted"
    BY <1>t, <1>w, <1>11, <2>1 DEF Register, TakeServerKey, Exit
  <2>3. pc'[serving.machine] # "admitted"
    BY <1>t, <1>11, <2>1 DEF Register, TakeServerKey, Exit
  <2>4. pc'[serving.machine] = "off" \/ left'[serving.machine] = None
    BY <1>t, <1>w, <1>11, <2>1 DEF Register, TakeServerKey, Exit
  <2>5. QED
    BY <1>w, <2>2, <2>3, <2>4 DEF Waits
<1>12. QED
  BY <1>2, <1>3, <1>4, <1>7, <1>8, <1>9, <1>10, <1>11 DEF Next, Handling

(* A registered key is never displaced, and every handshake is with it.    *)
LEMMA StepTrust ==
    ASSUME Typed, Waits, Trust, [Next]_vars
    PROVE  Trust'
<1> USE DEF serverVars, agentVars, historyVars
<1>t. /\ pc \in [Machines -> Statuses] /\ ident \in [Machines -> Pairs]
      /\ agents \in [Ids -> Keys \cup {NoAgent}]
      /\ sessions \in [Ids -> Holders \cup {NoSession}]
      /\ admitted \in [Machines -> SUBSET Keys]
  BY DEF Typed, Statuses
<1>c. config' = config
  BY DEF Next, vars, Administration, Handling, MintToken, ConfigureToken,
     WriteServerPublic, WriteServerSecret, WriteAgentPublic, WriteAgentSecret,
     StartServer, StopServer, StartAgent, RefuseEnroll, AdmitEnroll, Register,
     Unreachable, FirstHandshake, Send, StopAgent
<1> SUFFICES ASSUME ~config.server.allowReenroll
             PROVE  /\ serving' # Idle => agents'[serving'.id] \in {NoAgent, serving'.key}
                    /\ \A m \in Machines :
                          /\ pc'[m] = "handshaking" => Registered(m)' = Own(m)'
                          /\ \A k \in admitted'[m] : k.machine = m /\ Registered(m)' = k
                    /\ \A i \in Ids : sessions'[i] # NoSession
                                          => sessions'[i].by = agents'[i].machine
  BY <1>c DEF Trust
<1> DEFINE Goal == /\ serving' # Idle => agents'[serving'.id] \in {NoAgent, serving'.key}
                   /\ \A m \in Machines :
                         /\ pc'[m] = "handshaking" => Registered(m)' = Own(m)'
                         /\ \A k \in admitted'[m] : k.machine = m /\ Registered(m)' = k
                   /\ \A i \in Ids : sessions'[i] # NoSession
                                         => sessions'[i].by = agents'[i].machine
<1>s. /\ serving # Idle => agents[serving.id] \in {NoAgent, serving.key}
      /\ \A m \in Machines :
            /\ pc[m] = "handshaking" => Registered(m) = Own(m)
            /\ \A k \in admitted[m] : k.machine = m /\ Registered(m) = k
      /\ \A i \in Ids : sessions[i] # NoSession => sessions[i].by = agents[i].machine
  BY DEF Trust
(* A step that registers and admits nobody, and starts no handshake.       *)
<1>1. ASSUME UNCHANGED <<agents, admitted>>, serving' = serving \/ serving' = Idle,
             \A m \in Machines : pc'[m] = "handshaking"
                                    => pc[m] = "handshaking" /\ ident'[m] = ident[m],
             \A i \in Ids : sessions'[i] \in {sessions[i], NoSession}
      PROVE  Goal
  BY <1>c, <1>s, <1>1 DEF Registered, Own, IdOf
<1>2. CASE UNCHANGED vars \/ Administration
  BY <1>1, <1>2 DEF vars, Administration, MintToken, ConfigureToken, WriteServerPublic,
     WriteServerSecret, WriteAgentPublic, WriteAgentSecret
<1>3. CASE StartServer \/ StopServer
  BY <1>1, <1>3 DEF StartServer, CreateApp, StopServer
<1>4. ASSUME NEW m \in Machines, NEW why \in Reasons, Exit(m, why),
             UNCHANGED <<agents, admitted, serving, sessions, ident>>
      PROVE  Goal
  <2>1. \A o \in Machines : pc'[o] = "handshaking" => pc[o] = "handshaking"
    BY <1>t, <1>4 DEF Exit
  <2>2. QED
    BY <1>1, <1>4, <2>1
<1>5. ASSUME NEW m \in Machines, RefuseEnroll(m) \/ StopAgent(m) \/ Unreachable(m)
      PROVE  Goal
  <2>1. PICK why \in Reasons : Exit(m, why)
    BY <1>5 DEF RefuseEnroll, StopAgent, Unreachable, Reasons
  <2>2. QED
    BY <1>4, <1>5, <2>1 DEF RefuseEnroll, StopAgent, Unreachable
<1>6. ASSUME NEW m \in Machines, StartAgent(m)
      PROVE  Goal
  <2>1. \A o \in Machines : pc'[o] = "handshaking" => pc[o] = "handshaking"
                                                      /\ ident'[o] = ident[o]
    BY <1>t, <1>6 DEF StartAgent
  <2>2. QED
    BY <1>1, <1>6, <2>1 DEF StartAgent
<1>7. ASSUME NEW m \in Machines, AdmitEnroll(m)
      PROVE  Goal
  <2>1. /\ MayEnroll(m)
        /\ serving' = [machine |-> m, id |-> IdOf(m), key |-> Own(m),
                       token |-> IF NeedsToken(m) THEN given[m] ELSE 0]
        /\ pc' = [pc EXCEPT ![m] = "admitted"]
        /\ UNCHANGED <<agents, sessions, admitted, ident>>
    BY <1>7 DEF AdmitEnroll
  <2>2. serving'.id = IdOf(m) /\ serving'.key = Own(m)
    BY <2>1
  <2>3. Registered(m) \in {NoAgent, Own(m)}
    BY <2>1 DEF MayEnroll, ComparedByKey
  <2>4. agents'[serving'.id] \in {NoAgent, serving'.key}
    BY <2>1, <2>2, <2>3 DEF Registered
  <2>5. \A o \in Machines : pc'[o] = "handshaking" => pc[o] = "handshaking"
    BY <1>t, <2>1
  <2>6. QED
    BY <1>c, <1>s, <2>1, <2>4, <2>5 DEF Registered, Own, IdOf
<1>8. CASE Register
  <2>1. /\ serving # Idle /\ serving' = Idle
        /\ agents' = [agents EXCEPT ![serving.id] = serving.key]
        /\ UNCHANGED <<sessions, admitted, ident>>
        /\ serving.machine \in Machines /\ serving.id \in Ids /\ serving.key \in Keys
    BY <1>8, Busy DEF Register, UpsertAgent
  <2>2. \A i \in Ids : agents[i] # NoAgent => agents'[i] = agents[i]
    BY <1>s, <1>t, <2>1
  <2>3. \A m \in Machines : IdOf(m) \in Ids /\ Own(m) # NoAgent
    BY Shapes
  <2>4. \A m \in Machines : Registered(m) # NoAgent => Registered(m)' = Registered(m)
    BY <1>c, <2>2, <2>3 DEF Registered, IdOf
  <2>5. ASSUME NEW m \in Machines, pc'[m] = "handshaking"
        PROVE  Registered(m)' = Own(m)'
    <3>1. Own(m)' = Own(m)
      BY <2>1 DEF Own
    <3>2. CASE pc[m] = "handshaking"
      BY <1>s, <2>3, <2>4, <3>1, <3>2
    <3>3. CASE pc[m] # "handshaking"
      <4>1. m = serving.machine /\ pc[m] = "admitted"
        BY <1>t, <1>8, <2>1, <2>5, <3>3 DEF Register, TakeServerKey, Exit
      <4>2. serving.id = IdOf(m) /\ serving.key = Own(m)
        BY <4>1 DEF Waits
      <4>3. Registered(m)' = agents'[IdOf(m)]
        BY <1>c DEF Registered, IdOf
      <4>4. QED
        BY <1>t, <2>1, <3>1, <4>2, <4>3
    <3>4. QED
      BY <3>2, <3>3
  <2>6. ASSUME NEW m \in Machines, NEW k \in admitted'[m]
        PROVE  k.machine = m /\ Registered(m)' = k
    <3>1. k \in admitted[m] /\ k \in Keys
      BY <1>t, <2>1
    <3>2. k # NoAgent
      BY <3>1, Shapes
    <3>3. QED
      BY <1>s, <2>4, <3>1, <3>2
  <2>7. ASSUME NEW i \in Ids, sessions'[i] # NoSession
        PROVE  sessions'[i].by = agents'[i].machine
    <3>1. sessions[i] \in Holders /\ sessions'[i] = sessions[i]
      BY <1>t, <2>1, <2>7
    <3>2. sessions[i].by = agents[i].machine /\ sessions[i].by \in Machines
      BY <1>s, <2>7, <3>1 DEF Holders
    <3>3. agents[i] # NoAgent
      BY <3>2, EnrollmentAssumption DEF NoAgent
    <3>4. QED
      BY <2>2, <3>1, <3>2, <3>3
  <2>8. QED
    BY <2>1, <2>5, <2>6, <2>7
<1>9. ASSUME NEW m \in Machines, Establish(m), SignatureValid(m), UNCHANGED agents
      PROVE  \A i \in Ids : sessions'[i] # NoSession => sessions'[i].by = agents'[i].machine
  <2>1. agents[IdOf(m)].machine = m /\ IdOf(m) \in Ids
    BY <1>9, Shapes DEF SignatureValid, Registered, Key
  <2>2. /\ sessions'[IdOf(m)].by = m
        /\ \A i \in Ids \ {IdOf(m)} : sessions'[i] = sessions[i]
    BY <1>t, <1>9, <2>1 DEF Establish
  <2>3. QED
    BY <1>s, <1>9, <2>1, <2>2
<1>10. ASSUME NEW m \in Machines, FirstHandshake(m)
       PROVE  Goal
  <2>1. CASE ~SignatureValid(m)
    BY <1>4, <1>10, <2>1 DEF FirstHandshake, Reasons
  <2>2. CASE SignatureValid(m)
    <3>1. /\ pc[m] = "handshaking" /\ Establish(m) /\ pc' = [pc EXCEPT ![m] = "running"]
          /\ admitted' = [admitted EXCEPT ![m] = @ \cup {Own(m)}]
          /\ UNCHANGED <<agents, serving, ident>>
      BY <1>10, <2>2 DEF FirstHandshake
    <3>2. Registered(m) = Own(m) /\ Own(m).machine = m
      BY <1>s, <3>1, Shapes
    <3>3. \A o \in Machines : Registered(o)' = Registered(o) /\ Own(o)' = Own(o)
      BY <1>c, <3>1 DEF Registered, Own, IdOf
    <3>4. \A o \in Machines : pc'[o] = "handshaking" => pc[o] = "handshaking"
      BY <1>t, <3>1
    <3>5. \A o \in Machines, k \in Keys :
             k \in admitted'[o] => k \in admitted[o] \/ (o = m /\ k = Own(m))
      BY <1>t, <3>1
    <3>6. \A o \in Machines : admitted'[o] \subseteq Keys
      BY <1>t, <3>1, Shapes
    <3>7. \A o \in Machines : \A k \in admitted'[o] : k.machine = o /\ Registered(o)' = k
      BY <1>s, <3>2, <3>3, <3>5, <3>6
    <3>8. \A i \in Ids : sessions'[i] # NoSession => sessions'[i].by = agents'[i].machine
      BY <1>9, <2>2, <3>1
    <3>9. QED
      BY <1>s, <3>1, <3>3, <3>4, <3>7, <3>8
  <2>3. QED
    BY <2>1, <2>2
<1>11. ASSUME NEW m \in Machines, Send(m)
       PROVE  Goal
  <2>1. /\ UNCHANGED <<agents, admitted, serving, pc, ident>>
        /\ UNCHANGED sessions \/ (SignatureValid(m) /\ Establish(m))
    BY <1>11 DEF Send
  <2>2. CASE UNCHANGED sessions
    BY <1>1, <2>1, <2>2
  <2>3. CASE SignatureValid(m) /\ Establish(m)
    <3>1. \A i \in Ids : sessions'[i] # NoSession => sessions'[i].by = agents'[i].machine
      BY <1>9, <2>1, <2>3
    <3>2. QED
      BY <1>c, <1>s, <2>1, <3>1 DEF Registered, Own, IdOf
  <2>4. QED
    BY <2>1, <2>2, <2>3
<1>12. QED
  BY <1>2, <1>3, <1>5, <1>6, <1>7, <1>8, <1>10, <1>11 DEF Next, Handling

(* Whoever connected once under whole keys passes every later check.       *)
LEMMA StepAdmitted ==
    ASSUME Typed, Waits, Trust, OnceAdmittedNeverRefused, [Next]_vars
    PROVE  OnceAdmittedNeverRefused'
<1> USE DEF serverVars, agentVars, historyVars
<1>t. /\ pc \in [Machines -> Statuses] /\ left \in [Machines -> Reasons]
      /\ ident \in [Machines -> Pairs] /\ admitted \in [Machines -> SUBSET Keys]
  BY DEF Typed, Statuses, Reasons
<1>c. config' = config
  BY DEF Next, vars, Administration, Handling, MintToken, ConfigureToken,
     WriteServerPublic, WriteServerSecret, WriteAgentPublic, WriteAgentSecret,
     StartServer, StopServer, StartAgent, RefuseEnroll, AdmitEnroll, Register,
     Unreachable, FirstHandshake, Send, StopAgent
<1> DEFINE Out == {"refused", "unauthenticated"}
<1> SUFFICES ASSUME NEW o \in Machines, left'[o] \in Out, ~config.server.allowReenroll,
                    Own(o)' \in admitted'[o], ident'[o].public = ident'[o].secret
             PROVE  FALSE
  BY <1>c DEF OnceAdmittedNeverRefused
(* One that was out before, with the same keys.                            *)
<1>1. ~(left'[o] = left[o] /\ ident'[o] = ident[o] /\ admitted'[o] = admitted[o])
  BY DEF OnceAdmittedNeverRefused, Own
<1>2. None \notin Out
  BY DEF None
<1>3. CASE UNCHANGED vars \/ Administration \/ StartServer
  BY <1>1, <1>3 DEF vars, Administration, MintToken, ConfigureToken, WriteServerPublic,
     WriteServerSecret, WriteAgentPublic, WriteAgentSecret, StartServer, CreateApp
<1>4. CASE StopServer
  <2>1. left'[o] = left[o] \/ left'[o] = "unreachable"
    BY <1>4 DEF StopServer
  <2>2. QED
    BY <1>1, <1>4, <2>1 DEF StopServer
<1>5. ASSUME NEW m \in Machines, Send(m)
      PROVE  FALSE
  BY <1>1, <1>5 DEF Send
<1>6. ASSUME NEW m \in Machines, StartAgent(m)
      PROVE  FALSE
  <2>1. /\ o # m => left'[o] = left[o] /\ ident'[o] = ident[o]
        /\ o = m => left'[o] = None
    BY <1>t, <1>6 DEF StartAgent
  <2>2. QED
    BY <1>1, <1>2, <1>6, <2>1 DEF StartAgent
<1>7. ASSUME NEW m \in Machines, StopAgent(m) \/ Unreachable(m)
      PROVE  FALSE
  <2>1. left'[o] = left[o] \/ left'[o] \in {"stopped", "unreachable"}
    BY <1>t, <1>7 DEF StopAgent, Unreachable, Exit
  <2>2. QED
    BY <1>1, <1>7, <2>1 DEF StopAgent, Unreachable
<1>8. ASSUME NEW m \in Machines, AdmitEnroll(m)
      PROVE  FALSE
  BY <1>1, <1>8 DEF AdmitEnroll
<1>9. CASE Register
  <2>1. left'[o] = left[o] \/ left'[o] = "fingerprint"
    BY <1>t, <1>9, Busy DEF Register, TakeServerKey, Exit
  <2>2. QED
    BY <1>1, <1>9, <2>1 DEF Register
<1>10. Own(o) \in admitted[o] => Registered(o) = Own(o) /\ Own(o) # NoAgent
  BY Shapes DEF Trust
<1>11. ASSUME NEW m \in Machines, RefuseEnroll(m)
       PROVE  FALSE
  <2>1. UNCHANGED <<ident, admitted>> /\ (o = m \/ left'[o] = left[o]) /\ ~MayEnroll(m)
    BY <1>t, <1>11 DEF RefuseEnroll, Exit
  <2>2. o = m
    BY <1>1, <2>1
  <2>3. Registered(o) = Own(o) /\ Own(o) # NoAgent
    BY <1>10, <2>1 DEF Own
  <2>4. MayEnroll(o)
    BY <2>3 DEF MayEnroll, ComparedByKey, NeedsToken
  <2>5. QED
    BY <2>1, <2>2, <2>4
<1>12. ASSUME NEW m \in Machines, FirstHandshake(m)
       PROVE  FALSE
  <2>1. CASE SignatureValid(m)
    <3>1. /\ pc[m] = "handshaking" /\ UNCHANGED <<left, ident>>
          /\ o # m => admitted'[o] = admitted[o]
      BY <1>t, <1>12, <2>1 DEF FirstHandshake
    <3>2. o = m
      BY <1>1, <3>1
    <3>3. left'[o] = None
      BY <3>1, <3>2 DEF Waits
    <3>4. QED
      BY <1>2, <3>3
  <2>2. CASE ~SignatureValid(m)
    <3>1. UNCHANGED <<ident, admitted>> /\ (o = m \/ left'[o] = left[o])
      BY <1>t, <1>12, <2>2 DEF FirstHandshake, Exit
    <3>2. o = m
      BY <1>1, <3>1
    <3>3. Registered(o) = Own(o)
      BY <1>10, <3>1 DEF Own
    <3>4. SignatureValid(o)
      BY <3>1, <3>3 DEF SignatureValid, Own
    <3>5. QED
      BY <2>2, <3>2, <3>4
  <2>3. QED
    BY <2>1, <2>2
<1>13. QED
  BY <1>3, <1>4, <1>5, <1>6, <1>7, <1>8, <1>9, <1>11, <1>12 DEF Next, Handling

(* Whom the server's tables and sessions trust, from the agents' side.     *)
LEMMA EnrollmentTrusts == Spec => [](Typed /\ Waits /\ Trust)
<1>1. Init => Waits /\ Trust
  BY InitTrust
<1>2. Typed /\ Waits /\ [Next]_vars => Waits'
  BY StepWaits
<1>3. Typed /\ Waits /\ Trust /\ [Next]_vars => Trust'
  BY StepTrust
<1>4. QED
  BY <1>1, <1>2, <1>3, EnrollmentTyped, PTL DEF Spec

(* An endpoint that was connected once is not refused when it comes back   *)
(* with the same keys (agent_config.example.yaml:31), whatever became of   *)
(* its token and whoever else claims its agent_id.                         *)
THEOREM AdmittedStaysWelcome == Spec => []OnceAdmittedNeverRefused
<1>1. Init => OnceAdmittedNeverRefused
  BY InitTrust
<1>2. Typed /\ Waits /\ Trust /\ OnceAdmittedNeverRefused /\ [Next]_vars
          => OnceAdmittedNeverRefused'
  BY StepAdmitted
<1>3. QED
  BY <1>1, <1>2, EnrollmentTrusts, PTL DEF Spec

(* A live session belongs to the holder of the registered key, and nobody  *)
(* else ever connected as that agent (server_config.example.yaml:37-38).   *)
THEOREM SessionsAreTheHolders == Spec => []SessionsBelongToKey
<1>1. Typed /\ Trust => SessionsBelongToKey
  <2> SUFFICES ASSUME Typed, Trust, ~config.server.allowReenroll, NEW i \in Ids
               PROVE  /\ sessions[i] # NoSession => sessions[i].by = agents[i].machine
                      /\ Cardinality({m \in Machines : IdOf(m) = i /\ admitted[m] # {}}) <= 1
    BY DEF SessionsBelongToKey
  <2>1. sessions[i] # NoSession => sessions[i].by = agents[i].machine
    BY DEF Trust
  <2> DEFINE S == {m \in Machines : IdOf(m) = i /\ admitted[m] # {}}
             only == {agents[i].machine}
  <2>2. S \subseteq only
    <3> SUFFICES ASSUME NEW m \in Machines, IdOf(m) = i, admitted[m] # {}
                 PROVE  m = agents[i].machine
      OBVIOUS
    <3>1. PICK k \in admitted[m] : TRUE
      OBVIOUS
    <3>2. k.machine = m /\ agents[i] = k
      BY DEF Trust, Registered
    <3>3. QED
      BY <3>2
  <2>3. IsFiniteSet(only) /\ Cardinality(only) = 1
    BY FS_Singleton
  <2>4. Cardinality(S) <= 1
    BY <2>2, <2>3, FS_Subset
  <2>5. QED
    BY <2>1, <2>4
<1>2. QED
  BY <1>1, EnrollmentTrusts, PTL

(* Every variable has its type, in every reachable state, whatever crashes *)
(* and rotations leave in the tables and the key files.                    *)
THEOREM TypeCorrect == Spec => []TypeOK
<1>1. Typed /\ Numbering => TypeOK
  <2> SUFFICES ASSUME Typed, Numbering
               PROVE  TypeOK
    OBVIOUS
  <2>1. \A i \in Ids : agents[i].machine \in Machines \cup {None}
    BY DEF Typed, Keys, NoAgent
  <2>2. \A i \in Ids : sessions[i].by \in Machines \cup {None}
    BY DEF Typed, Holders, NoSession
  <2>3. \A t \in Minted : tokens[t] \in Ids \cup {None}
    BY DEF Numbering
  <2>4. QED
    BY <2>1, <2>2, <2>3 DEF Typed, TypeOK, Pairs
<1>2. QED
  BY <1>1, EnrollmentTyped, PTL

=============================================================================
