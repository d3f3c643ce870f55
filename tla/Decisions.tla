----------------------------- MODULE Decisions -----------------------------
(***************************************************************************)
(* What the learner (QLearning) and the pipeline that asks it (Judgement)  *)
(* share: the actions and the buckets of data volume of                    *)
(* server/rl/qlearning.py, and what the policy makes of the learner's      *)
(* choice before it is recorded (server/policy/engine.py).                 *)
(***************************************************************************)
EXTENDS Integers

CONSTANTS VolLowMax,       \* VOL_LOW_MAX
          VolMedMax,       \* VOL_MED_MAX
          BurstFileCount   \* BURST_FILE_COUNT

ASSUME BucketAssumption ==
    /\ {VolLowMax, VolMedMax, BurstFileCount} \subseteq Nat
    /\ VolLowMax <= VolMedMax

Actions == {"DISMISS", "ALERT", "BLOCK"}

(* The order of ACTIONS; a cap that is no action ranks 2.                  *)
Rank(a) == CASE a = "DISMISS" -> 0 [] a = "ALERT" -> 1 [] OTHER -> 2

VolumeBucket(bytes, files) ==
    LET bucket == IF bytes <= 0 THEN 0
                  ELSE IF bytes <= VolLowMax THEN 1
                  ELSE IF bytes <= VolMedMax THEN 2
                  ELSE 3
    IN IF files > BurstFileCount /\ bucket < 3 THEN bucket + 1 ELSE bucket

(* An altered form of EnforceAction, to see a property fail.               *)
UsbAfterCap(p, recommended, usb) ==
    IF p.usb = "blocked" /\ usb THEN "BLOCK"
    ELSE IF recommended = "BLOCK" /\ p.cap \in Actions THEN p.cap
    ELSE recommended

(* enforce_action: the USB rule first, then the cap.                       *)
EnforceAction(p, recommended, usb) ==
    LET wanted == IF p.usb = "blocked" /\ usb THEN "BLOCK" ELSE recommended
    IN IF Rank(wanted) > Rank(p.cap) THEN p.cap ELSE wanted
=============================================================================
