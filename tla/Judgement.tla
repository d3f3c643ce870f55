----------------------------- MODULE Judgement -----------------------------
(***************************************************************************)
(* How the server judges one behaviour window: what one user did on one    *)
(* host during one hour.  Every batch that touches the window is enriched, *)
(* stored and counted (server/pipeline/trigger.py, vigil/features.py); the *)
(* window as it then stands is scored by the model (detection.py), masked, *)
(* discretized and decided (verification.py, server/rl/qlearning.py) under *)
(* the policy in force (server/policy/engine.py), and given its severity,  *)
(* record and directive (response.py).                                     *)
(*                                                                         *)
(* The model's raw score and the learner's choice may be anything: what is *)
(* said of a judgement holds for every model and every Q-table.  Scores    *)
(* are in thousandths.  A path is sensitive when the policy in force lists *)
(* it; logoff_count, distinct_dirs and max_file_bytes, which no rule       *)
(* reads, are left out.  A setting the policy's checks do not know acts as *)
(* "allowed", "audit" or "medium" does.  A step is what the pipeline does  *)
(* under its lock.                                                         *)
(***************************************************************************)
EXTENDS Decisions, Sequences, FiniteSetsExt, SequencesExt

CONSTANTS Hours,            \* the hours a window may stand for
          Paths,            \* file paths
          Sizes,            \* file sizes
          MassDelete,       \* as many deletes are no mass delete (20)
          Threshold,        \* the model's threshold, calibrated by train.py
          Scores,           \* the raw scores the model may give
          Policies,         \* the policies an administrator may choose
          MaxBatch,         \* bound: events per batch
          MaxBatches,       \* bound: batches
          MaxPolicies,      \* bound: changes of policy
          MaxFaults         \* bound: storage errors and restarts

UsbPolicies == {"blocked", "alert", "allowed", "disabled"}
AfterHoursPolicies == {"alert", "audit", "disabled"}
Sensitivities == {"low", "medium", "high"}

(* from_dict checks no value: "OTHER" stands for a cap that is no action.  *)
Policy == [usb : UsbPolicies, afterHours : AfterHoursPolicies,
           sensitivity : Sensitivities, sensitive : SUBSET Paths,
           cap : Actions \cup {"OTHER"}, auto : BOOLEAN]

DefaultPolicy == [usb |-> "alert", afterHours |-> "alert",
                  sensitivity |-> "medium", sensitive |-> Paths,
                  cap |-> "BLOCK", auto |-> TRUE]

ASSUME JudgementAssumption ==
    /\ Hours \subseteq 0..23
    /\ Sizes \subseteq Nat
    /\ MassDelete \in Nat
    /\ Threshold \in Int
    /\ Scores \subseteq Int
    /\ Policies \subseteq Policy
    /\ {MaxBatch, MaxBatches, MaxPolicies, MaxFaults} \subseteq Nat

(* A row of the events table; removable and sensitive are what enrich      *)
(* wrote into its detail.                                                  *)
Activity == [kind : {"logon", "connect", "disconnect"}]
FileEvent == [kind : {"write", "delete"}, path : Paths, size : Sizes,
              removable : BOOLEAN]
Event == Activity \cup FileEvent

VARIABLES hour,     \* the window's hour
          window,   \* its Window and WindowExtras, together
          rows,     \* its rows of the events table
          since,    \* how many of them the process did not start with
          policy,   \* the policy in force
          stored,   \* the policies table
          verdict,  \* the last judgement
          begun     \* the bounds' counters

vars == <<hour, window, rows, since, policy, stored, verdict, begun>>

NoVerdict == [policy |-> "none"]
Judged == verdict # NoVerdict
EmptyWindow == [logons |-> 0, connects |-> 0, disconnects |-> 0, files |-> 0,
                bytes |-> 0, sensitive |-> 0, removable |-> 0, deletes |-> 0]
IsFile(e) == e.kind \in {"write", "delete"}
One(test) == IF test THEN 1 ELSE 0

-----------------------------------------------------------------------------
(* Altered forms of the definitions below, to see the properties fail.     *)

Together(w, c) == [f \in DOMAIN w |-> w[f] + c[f]]
OnlyThisBatch(batch) == FoldLeft(Together, EmptyWindow, batch)
OnceAWindow(batch) == Together(window, Head(batch))
MaskConnects(w) == [w EXCEPT !.connects = 0, !.removable = 0]
-----------------------------------------------------------------------------
(* Trigger: enrich, store, count.                                          *)

(* TriggerStage.enrich: with USB watching disabled nothing is removable.   *)
Enrich(e) ==
    IF ~IsFile(e) THEN e
    ELSE [kind |-> e.kind, size |-> e.size,
          sensitive |-> e.path \in policy.sensitive,
          removable |-> e.removable /\ policy.usb # "disabled"]

(* _contribution: what the model sees of one event.                        *)
Contribution(e) ==
    [logons |-> One(e.kind = "logon"), connects |-> One(e.kind = "connect"),
     disconnects |-> One(e.kind = "disconnect"), files |-> One(IsFile(e)),
     bytes |-> IF IsFile(e) THEN e.size ELSE 0]

(* WindowExtras.add: what the rules see besides.                           *)
Extras(e) ==
    [sensitive |-> One(IsFile(e) /\ e.sensitive),
     removable |-> One(IsFile(e) /\ e.removable),
     deletes |-> One(e.kind = "delete")]

Increment(e) ==
    LET counts == Contribution(e)
        extras == Extras(e)
    IN [f \in DOMAIN EmptyWindow |-> IF f \in DOMAIN counts THEN counts[f] ELSE extras[f]]

(* RollingFeatureStore.update.                                             *)
Counted(increments) == FoldLeft(Together, window, increments)

-----------------------------------------------------------------------------
(* Detection.                                                              *)

AfterHours == hour < 7 \/ hour > 20

Abs(n) == IF n < 0 THEN -n ELSE n

(* score_feature_dicts, and adjust_anomaly_decision, which asks anew unless*)
(* the sensitivity is medium.                                              *)
ModelFlag(raw) == raw < Threshold

Flagged(p, raw) ==
    CASE p.sensitivity = "low"  -> 5 * raw < 5 * Threshold - Abs(Threshold)
      [] p.sensitivity = "high" -> 5 * raw < 5 * Threshold + Abs(Threshold)
      [] OTHER                  -> ModelFlag(raw)

(* normalised_score: 50 at the threshold, 100 a quarter below it.          *)
Risk(raw) == Max({0, Min({100, 50 + (Threshold - raw) \div 5})})

-----------------------------------------------------------------------------
(* Verification.                                                           *)

UsbThreat(p) == p.usb \in {"blocked", "alert"}
MaskUsb(w) == [w EXCEPT !.connects = 0, !.disconnects = 0, !.removable = 0]

(* What the policy lets the learner and the rules see.                     *)
Seen(p, w) == IF UsbThreat(p) THEN w ELSE MaskUsb(w)
LateSeen(p) == AfterHours /\ p.afterHours = "alert"

Discretize(p, w, anomalous) ==
    LET seen == Seen(p, w)
    IN [ah |-> LateSeen(p), usb |-> seen.connects > 0 \/ seen.disconnects > 0,
        vol |-> VolumeBucket(w.bytes, w.files), anom |-> anomalous]

(* fired_rules, and filter_fired_rules once more after the masking.        *)
FiredRules(p, w, anomalous) ==
    LET seen == Seen(p, w)
        fires == [after_hours |-> LateSeen(p),
                  removable_device |-> seen.connects > 0,
                  high_file_volume |-> seen.files > BurstFileCount,
                  large_transfer |-> seen.bytes > VolMedMax,
                  sensitive_path_access |-> seen.sensitive > 0,
                  write_to_removable |-> seen.removable > 0,
                  mass_delete |-> seen.deletes > MassDelete,
                  ml_anomaly |-> anomalous]
    IN {r \in DOMAIN fires : fires[r]}

FilterFiredRules(p, rules) ==
    rules \ ((IF UsbThreat(p) THEN {} ELSE {"removable_device", "write_to_removable"})
             \cup (IF p.afterHours = "alert" THEN {} ELSE {"after_hours"}))

-----------------------------------------------------------------------------
(* Response.                                                               *)

RuleWeight(rules) ==
    MapThenSumSet(LAMBDA r : IF r \in {"large_transfer", "sensitive_path_access",
                                       "mass_delete", "ml_anomaly"}
                             THEN 2 ELSE 1, rules)

SeverityFor(action, risk, rules) ==
    LET corroborated == RuleWeight(rules) >= 5
    IN CASE action = "BLOCK" -> IF corroborated \/ risk >= 80 THEN "CRITICAL" ELSE "HIGH"
         [] action = "ALERT" -> IF corroborated \/ risk >= 75 THEN "HIGH" ELSE "MEDIUM"
         [] OTHER            -> IF corroborated THEN "MEDIUM" ELSE "LOW"

ShouldRecord(anomalous, action) == anomalous \/ action # "DISMISS"

(* A directive is sent for a recorded BLOCK, if the policy contains.       *)
Directed(p, action) == action = "BLOCK" /\ p.auto

(* One pass of process_batch's loop: has_usb is read before the masking.   *)
Judgement(p, w, raw, recommended) ==
    LET anomalous == Flagged(p, raw)
        action == EnforceAction(p, recommended, w.connects > 0 \/ w.disconnects > 0)
        rules == FilterFiredRules(p, FiredRules(p, w, anomalous))
    IN [policy |-> p, state |-> Discretize(p, w, anomalous), rules |-> rules,
        action |-> action, severity |-> SeverityFor(action, Risk(raw), rules),
        recorded |-> ShouldRecord(anomalous, action),
        directive |-> Directed(p, action)]

-----------------------------------------------------------------------------
Init == /\ hour \in Hours
        /\ window = EmptyWindow
        /\ rows = <<>>
        /\ since = 0
        /\ policy = DefaultPolicy
        /\ stored = DefaultPolicy
        /\ verdict = NoVerdict
        /\ begun = [batches |-> 0, policies |-> 0, faults |-> 0]

Count(name) == begun' = [begun EXCEPT ![name] = @ + 1]

Batch == UNION {[1..n -> Event] : n \in 1..MaxBatch}

(* TriggerStage.process: the rows are stored, then the window counts them. *)
Trigger(batch) ==
    LET enriched == [i \in DOMAIN batch |-> Enrich(batch[i])]
    IN /\ rows' = rows \o enriched
       /\ window' = Counted([i \in DOMAIN batch |-> Increment(enriched[i])])

(* process_batch, for a batch whose events all fall in this window.        *)
ProcessBatch(batch, raw, recommended) ==
    /\ begun.batches < MaxBatches
    /\ Count("batches")
    /\ Trigger(batch)
    /\ verdict' = Judgement(policy, window', raw, recommended)
    /\ UNCHANGED <<hour, since, policy, stored>>

(* A storage error while the threat is recorded: the batch stays counted.  *)
RecordFails(batch) ==
    /\ begun.batches < MaxBatches
    /\ begun.faults < MaxFaults
    /\ begun' = [begun EXCEPT !.batches = @ + 1, !.faults = @ + 1]
    /\ Trigger(batch)
    /\ UNCHANGED <<hour, since, policy, stored, verdict>>

(* update_policy merges, stores and then adopts; reset_policy does so with *)
(* the default.  A policy that cannot be stored changes nothing.           *)
UpdatePolicy(p) ==
    /\ begun.policies < MaxPolicies
    /\ Count("policies")
    /\ stored' = p
    /\ policy' = p
    /\ UNCHANGED <<hour, window, rows, since, verdict>>

ResetPolicy == UpdatePolicy(DefaultPolicy)

(* Windows live in memory; _load takes the policy from its table.          *)
Restart ==
    /\ begun.faults < MaxFaults
    /\ Count("faults")
    /\ window' = EmptyWindow
    /\ since' = Len(rows)
    /\ policy' = stored
    /\ verdict' = NoVerdict
    /\ UNCHANGED <<hour, rows, stored>>

Next == \/ \E batch \in Batch, raw \in Scores, recommended \in Actions :
               ProcessBatch(batch, raw, recommended)
        \/ \E batch \in Batch : RecordFails(batch)
        \/ \E p \in Policies : UpdatePolicy(p)
        \/ ResetPolicy
        \/ Restart

Spec == Init /\ [][Next]_vars

-----------------------------------------------------------------------------
(* Properties.                                                             *)

(* aggregate_frame over the rows stored since the process started: rows of*)
(* a kind are counted, and the bytes of the file rows.                     *)
Recent == since + 1 .. Len(rows)
Of(kinds) == {i \in Recent : rows[i].kind \in kinds}
Bytes == UNION {{i} \X (1 .. rows[i].size) : i \in Of({"write", "delete"})}
Aggregate == [logons |-> Cardinality(Of({"logon"})),
              connects |-> Cardinality(Of({"connect"})),
              disconnects |-> Cardinality(Of({"disconnect"})),
              files |-> Cardinality(Of({"write", "delete"})),
              bytes |-> Cardinality(Bytes)]

(* "So training and inference can never disagree" (features.py:8): however *)
(* the events came in batches, whichever policies were in force and        *)
(* whatever failed, the window the model is shown is what aggregate_frame  *)
(* makes of the stored rows - of those since the last restart.             *)
WindowIsAggregate == \A f \in DOMAIN Aggregate : window[f] = Aggregate[f]

(* While a window grows under one policy, a reason once shown for it stays *)
(* and its volume bucket never falls: only the model's own opinion may     *)
(* change (fired_rules, volume_bucket over counts that only grow).         *)
ReasonsAccumulate ==
    [][Judged /\ Judged' /\ verdict.policy = verdict'.policy =>
          /\ verdict.rules \ {"ml_anomaly"} \subseteq verdict'.rules
          /\ verdict.state.vol <= verdict'.state.vol
          /\ verdict.state.usb => verdict'.state.usb]_vars

(* What the policy declares harmless sets neither the USB nor the          *)
(* after-hours bit of the state that feedback will teach, and gives none of*)
(* the reasons the severity adds up, although the window counts it and     *)
(* earlier policies judged it.  The anomaly bit is the model's, which is   *)
(* shown the window unmasked.                                              *)
MaskedIsSilent ==
    Judged =>
        /\ ~UsbThreat(verdict.policy) =>
                /\ ~verdict.state.usb
                /\ verdict.rules \cap {"removable_device", "write_to_removable"} = {}
        /\ verdict.policy.afterHours # "alert" =>
                ~verdict.state.ah /\ "after_hours" \notin verdict.rules

(* No judgement goes beyond what the policy on record allows, the USB rule *)
(* included: the cap holds unless it is no action, containment needs       *)
(* auto_containment and a BLOCK on record, and under usb_policy "blocked"  *)
(* a window with USB activity gets whatever the cap allows at most.        *)
WithinPolicy ==
    [][rows' # rows /\ begun'.faults = begun.faults =>
          /\ stored.cap \in Actions => Rank(verdict'.action) <= Rank(stored.cap)
          /\ verdict'.directive =>
                stored.auto /\ verdict'.action = "BLOCK" /\ verdict'.recorded
          /\ stored.usb = "blocked" /\ window'.connects + window'.disconnects > 0 =>
                Rank(verdict'.action) = Rank(stored.cap)]_vars
=============================================================================
