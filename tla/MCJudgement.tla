---------------------------- MODULE MCJudgement ----------------------------
(* Three policies besides the default, which differ in every setting; the  *)
(* scores are flagged under every, all but low, and only high sensitivity. *)
EXTENDS Judgement

MCScores == {-100, 90, 110}

MCPolicies ==
    {[DefaultPolicy EXCEPT !.usb = "blocked", !.cap = "ALERT"],
     [DefaultPolicy EXCEPT !.usb = "allowed", !.afterHours = "audit", !.sensitivity = "high"],
     [DefaultPolicy EXCEPT !.usb = "disabled", !.sensitive = {}, !.auto = FALSE,
                           !.sensitivity = "low", !.cap = "OTHER"]}
=============================================================================
