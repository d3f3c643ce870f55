----------------------------- MODULE QLearning -----------------------------
(***************************************************************************)
(* The decision policy and what analysts teach it (server/rl/qlearning.py):*)
(* one state of the 32, its row of the Q-table, the actions recorded on    *)
(* threats of that state, and the feedback that rewards them.  Rows do not *)
(* influence each other because gamma is 0 ("each window is an independent *)
(* decision"), so one row stands for the table.                            *)
(*                                                                         *)
(* Q-values are integers in units of 1/Scale.  The prior has 4 decimals    *)
(* and every update adds one: four updates of a cell are exact, a fifth is *)
(* truncated at the eighth decimal.                                        *)
(*                                                                         *)
(* The threat records what the policy in force made of the learner's      *)
(* choice, and that is the action feedback rewards.                        *)
(*                                                                         *)
(* Feedback runs under the pipeline's lock; reset does not                 *)
(* (soc_routes.py:228), and may come between an update's read and write.   *)
(***************************************************************************)
EXTENDS Decisions

CONSTANTS AlphaTenths,   \* the learning rate in tenths, 3 by default
          Epsilon,       \* TRUE if exploration is on; off by default
          ByteTotals,    \* bytes a window may have moved
          FileCounts,    \* files it may have touched
          MaxVerdicts,   \* bound: verdicts given and not cut short by a crash
          MaxResets,     \* bound: resets of the table
          MaxCrashes     \* bound: server crashes

ASSUME LearningAssumption == /\ AlphaTenths \in 1 .. 10
                             /\ Epsilon \in BOOLEAN
                             /\ ByteTotals \cup FileCounts \subseteq Nat
                             /\ MaxVerdicts \in Nat
                             /\ MaxResets \in Nat
                             /\ MaxCrashes \in Nat

Verdicts == {"block", "dismiss"}
Scale == 100000000

VARIABLES features,   \* the behaviour window's features
          row,        \* the stored row: q and visit counts n
          recorded,   \* actions on the threats recorded in this state
          work,       \* the update in progress
          given, resets, crashes,
          confirms, rejects,   \* history: verdicts applied, by kind
          asked                \* history: the kinds of verdict ever given

learnVars == <<features, row, recorded, work, given, resets, crashes,
               confirms, rejects, asked>>

Lesser(x, y) == IF x < y THEN x ELSE y
Clamp(x, bound) == IF x > bound THEN bound ELSE IF x < -bound THEN -bound ELSE x
Nearest(x, d) == (2 * x + d) \div (2 * d)

-----------------------------------------------------------------------------
(* Altered forms of the definitions below, to see the properties fail.     *)

StateRiskFlatVolume(s) ==
    35 * s.ah + 30 * s.usb + 45 * (IF s.vol > 0 THEN 1 ELSE 0) + 40 * s.anom
RewardNoPenalty(verdict, action) ==
    IF verdict = "block" \/ action = "DISMISS" THEN Scale ELSE 0
EndorsedTaken(verdict, action) == action
RewardAnyBlock(verdict, action) ==
    CASE action = "BLOCK" -> Scale
      [] verdict = "block" /\ action = "ALERT" -> Scale \div 2
      [] verdict = "block" /\ action = "DISMISS" -> -Scale
      [] verdict = "dismiss" /\ action = "ALERT" -> -((3 * Scale) \div 10)
      [] verdict = "dismiss" /\ action = "DISMISS" -> Scale

-----------------------------------------------------------------------------
(* discretize and the rule-based prior.                                    *)

State == [ah   |-> features.afterHours,
          usb  |-> IF features.connects > 0 \/ features.disconnects > 0 THEN 1 ELSE 0,
          vol  |-> VolumeBucket(features.bytes, features.files),
          anom |-> features.anomaly]

(* The weights in hundredths; _MAX_RISK is 150.                            *)
StateRisk(s) == 35 * s.ah + 30 * s.usb
                + (CASE s.vol = 0 -> 0 [] s.vol = 1 -> 10
                     [] s.vol = 2 -> 25 [] s.vol = 3 -> 45)
                + 40 * s.anom

AlertAt == 50
BlockAt == 108
MaxRisk == 150

(* PRIOR_STRENGTH * _ramp(distance, span), rounded to 4 decimals.          *)
Ramp(distance, span) == Clamp(Nearest(6000 * distance, span), 6000)

PriorQ(s) ==
    LET risk == StateRisk(s)
        unit == Scale \div 10000
    IN [a \in Actions |->
           unit * (CASE a = "DISMISS" -> Ramp(AlertAt - risk, AlertAt)
                     [] a = "ALERT" -> Lesser(Ramp(risk - AlertAt, AlertAt),
                                              Ramp(BlockAt - risk, MaxRisk - BlockAt))
                     [] a = "BLOCK" -> Ramp(risk - BlockAt, MaxRisk - BlockAt))]

Seeded(s) == [q |-> PriorQ(s), n |-> [a \in Actions |-> 0]]

(* greedy_action: the best value, ties broken toward the least disruptive. *)
GreedyAction(q) ==
    CHOOSE a \in Actions : \A b \in Actions :
        q[b] < q[a] \/ (q[b] = q[a] /\ Rank(a) <= Rank(b))

(* decide's candidates under safe exploration.                             *)
Candidates(greedy) == {a \in Actions : Rank(a) <= Rank(greedy)}

Offered(q) ==
    LET greedy == GreedyAction(q)
        others == Candidates(greedy) \ {greedy}
    IN {greedy} \cup (IF Epsilon THEN others ELSE {})

-----------------------------------------------------------------------------
(* Learning from a verdict.                                                *)

Rewards(verdict, action) ==
    CASE verdict = "block" /\ action = "BLOCK" -> Scale
      [] verdict = "block" /\ action = "ALERT" -> Scale \div 2
      [] verdict = "block" /\ action = "DISMISS" -> -Scale
      [] verdict = "dismiss" /\ action = "BLOCK" -> -Scale
      [] verdict = "dismiss" /\ action = "ALERT" -> -((3 * Scale) \div 10)
      [] verdict = "dismiss" /\ action = "DISMISS" -> Scale

Endorsed(verdict, action) == IF verdict = "block" THEN "BLOCK" ELSE "DISMISS"

(* update's move of the old value toward the reward.                       *)
TowardReward(old, reward) ==
    ((10 - AlphaTenths) * old + AlphaTenths * reward) \div 10

Learned(r, action, reward) ==
    [q |-> [r.q EXCEPT ![action] = TowardReward(@, reward)],
     n |-> [r.n EXCEPT ![action] = @ + 1]]

NoWork == [step |-> "none"]

(* Of the USB counts discretize asks only whether they are above 0.        *)
Windows == {f \in [afterHours : {0, 1}, connects : {0, 1}, disconnects : {0, 1},
                   bytes : ByteTotals, files : FileCounts, anomaly : {0, 1}] :
               f.connects = 0 \/ f.disconnects = 0}

LearnInit ==
    /\ features \in Windows
    /\ row = Seeded(State)
    /\ recorded = {}
    /\ work = NoWork
    /\ given = 0 /\ resets = 0 /\ crashes = 0
    /\ confirms = 0 /\ rejects = 0
    /\ asked = {}

(* The policies a window of this state can be judged under, as far as      *)
(* enforce_action tells them apart: "alert" stands for every USB rule but  *)
(* "blocked", and BLOCK also for a cap that is no action.                  *)
Enforcing == [usb : {"blocked", "alert"}, cap : Actions]

(* What a policy may make of a choice.  "blocked" masks nothing, so under  *)
(* it the state's USB bit is has_usb.                                      *)
Enforced(a) == {EnforceAction(p, a, State.usb = 1) : p \in Enforcing}

(* A batch touched a window of this state: a was chosen, the policy made it*)
(* action, and the threat is recorded if should_record says so.            *)
Decide(a) ==
    /\ work = NoWork
    /\ \E action \in Enforced(a) :
          /\ State.anom = 1 \/ action # "DISMISS"
          /\ recorded' = recorded \cup {action}
    /\ UNCHANGED <<features, row, work, given, resets, crashes, confirms, rejects, asked>>

(* apply_feedback on a recorded threat, up to the first update's read.  A  *)
(* threat already decided is accepted again.                               *)
BeginFeedback(a, verdict) ==
    /\ work = NoWork
    /\ given < MaxVerdicts
    /\ given' = given + 1
    /\ asked' = asked \cup {verdict}
    /\ work' = [step |-> "taken", verdict |-> verdict, action |-> a, copy |-> row,
               before |-> GreedyAction(row.q), resets |-> resets]
    /\ UNCHANGED <<features, row, recorded, resets, crashes, confirms, rejects>>

Applied(verdict) == /\ confirms' = confirms + (IF verdict = "block" THEN 1 ELSE 0)
                    /\ rejects' = rejects + (IF verdict = "dismiss" THEN 1 ELSE 0)

(* The first update's write; the endorsed action's update follows unless   *)
(* the policy took that very action.                                       *)
RewardTaken ==
    /\ work.step = "taken"
    /\ row' = Learned(work.copy, work.action, Rewards(work.verdict, work.action))
    /\ IF Endorsed(work.verdict, work.action) # work.action
       THEN /\ work' = [work EXCEPT !.step = "read"]
            /\ UNCHANGED <<confirms, rejects>>
       ELSE /\ work' = NoWork
            /\ Applied(work.verdict)
    /\ UNCHANGED <<features, recorded, given, resets, crashes, asked>>

ReadForEndorsed ==
    /\ work.step = "read"
    /\ work' = [work EXCEPT !.step = "endorsed", !.copy = row]
    /\ UNCHANGED <<features, row, recorded, given, resets, crashes, confirms, rejects, asked>>

RewardEndorsed ==
    /\ work.step = "endorsed"
    /\ LET a == Endorsed(work.verdict, work.action)
       IN row' = Learned(work.copy, a, Rewards(work.verdict, a))
    /\ work' = NoWork
    /\ Applied(work.verdict)
    /\ UNCHANGED <<features, recorded, given, resets, crashes, asked>>

(* POST /rl/reset reaches this state's row, whatever feedback is doing.    *)
Reset ==
    /\ resets < MaxResets
    /\ resets' = resets + 1
    /\ row' = Seeded(State)
    /\ confirms' = 0 /\ rejects' = 0
    /\ UNCHANGED <<features, recorded, work, given, crashes, asked>>

(* The server dies in the middle of an update; the rows written stay, and  *)
(* seed_all changes no row that exists.  The bound counts whole verdicts.  *)
Crash ==
    /\ work # NoWork
    /\ crashes < MaxCrashes
    /\ crashes' = crashes + 1
    /\ given' = given - 1
    /\ work' = NoWork
    /\ UNCHANGED <<features, row, recorded, resets, confirms, rejects, asked>>

LearnNext ==
    \/ \E a \in Offered(row.q) : Decide(a)
    \/ \E a \in recorded, v \in Verdicts : BeginFeedback(a, v)
    \/ RewardTaken
    \/ ReadForEndorsed
    \/ RewardEndorsed
    \/ Reset
    \/ Crash

LearnSpec == LearnInit /\ [][LearnNext]_learnVars

-----------------------------------------------------------------------------
Rows == [q : [Actions -> -Scale .. Scale], n : [Actions -> Nat]]

Preferred == GreedyAction(row.q)
Trained == \E a \in Actions : row.n[a] > 0

(* Types, and "Rewards saturate at +/-1" (qlearning.py:104): no sequence of*)
(* verdicts takes a Q-value out of the rewards' range.                     *)
LearnTypeOK ==
    /\ row \in Rows
    /\ recorded \subseteq Actions
    /\ work = NoWork \/ work \in [step : {"taken", "read", "endorsed"},
           verdict : Verdicts, action : Actions, copy : Rows,
           before : Actions, resets : 0 .. MaxResets]
    /\ given \in 0 .. MaxVerdicts
    /\ resets \in 0 .. MaxResets
    /\ crashes \in 0 .. MaxCrashes
    /\ confirms \in 0 .. MaxVerdicts
    /\ rejects \in 0 .. MaxVerdicts
    /\ asked \subseteq Verdicts

(* The calibration argued in qlearning.py:110-121, as far as the code keeps*)
(* it: before any verdict no single signal is worth an alert, two always   *)
(* are, and BLOCK needs three of them and either bytes that moved or a     *)
(* burst of files.  The comment has no burst: "a window where no bytes     *)
(* moved" is blocked if volume_bucket promotes enough empty files.         *)
Signals == State.ah + State.usb + State.anom + (IF State.vol >= 2 THEN 1 ELSE 0)

ColdStart == ~Trained =>
    /\ Signals <= 1 => Preferred = "DISMISS"
    /\ Signals >= 2 => Preferred # "DISMISS"
    /\ Preferred = "BLOCK" =>
           /\ Signals >= 3
           /\ features.bytes > 0 \/ features.files > BurstFileCount

(* "an update that touches only the action taken leaves Q(s, BLOCK) pinned"*)
(* (qlearning.py:388-394): consistent confirmation must reach BLOCK, and   *)
(* consistent rejection DISMISS, from every prior, whatever the actions    *)
(* recorded and wherever a crash cut a feedback short.                     *)
Enough == 4

Convergence == /\ asked = {"block"} /\ confirms >= Enough => Preferred = "BLOCK"
               /\ asked = {"dismiss"} /\ rejects >= Enough => Preferred = "DISMISS"

(* "an analyst verdict is a label on the correct response"                 *)
(* (qlearning.py:396-398): confirming a threat never leaves the policy less*)
(* disruptive than it found it (policy_before and policy_after), although  *)
(* it may be so between the two updates, unless a reset came in between.   *)
ConfirmNeverRelaxes ==
    [][confirms' > confirms /\ work.resets = resets
         => Rank(GreedyAction(row'.q)) >= Rank(work.before)]_learnVars

(* "escalation still requires a human to have asked for it first"          *)
(* (qlearning.py:399-401): a rejection never leaves the policy more        *)
(* disruptive than it found it, whether the policy, exploration or the USB *)
(* rule had chosen the rejected action - but for an alert rejected where   *)
(* the policy alerts (EscalationWasAsked), and unless a reset came between.*)
OnlyRejectedAlertsEscalate ==
    [][rejects' > rejects /\ work.resets = resets
         /\ ~(work.action = "ALERT" /\ work.before = "ALERT")
         => Rank(GreedyAction(row'.q)) <= Rank(work.before)]_learnVars

(* "escalation still requires a human to have asked for it first"          *)
(* (qlearning.py:399-401): the policy blocks in a state whose prior does   *)
(* not only after a block verdict in it.                                   *)
EscalationWasAsked ==
    work = NoWork /\ Preferred = "BLOCK" /\ "block" \notin asked
        => GreedyAction(PriorQ(State)) = "BLOCK"
=============================================================================
