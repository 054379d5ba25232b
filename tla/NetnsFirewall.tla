---------------------------- MODULE NetnsFirewall ----------------------------
(***************************************************************************)
(* What the firewall script promises about one netns: chain after chain    *)
(* gets complete, until the script ends or stops short, and a restart of   *)
(* the sidecar begins again with empty chains.  This is the firewall as    *)
(* JailLifecycle sees it (ApplyRules, RuleFails and FreshNetns of one run);*)
(* JailFirewall shows that the rule by rule script implements it.          *)
(***************************************************************************)
VARIABLES
    complete,   \* the families whose OUTPUT chain is complete
    applying    \* the EXTRA_COMMANDS subshell still runs

Families == {"v4", "v6"}

Init == complete = {} /\ applying = TRUE

Complete ==
    /\ applying
    /\ \E f \in Families \ complete : complete' = complete \cup {f}
    /\ applying' = (complete' # Families)

StopShort == applying /\ applying' = FALSE /\ UNCHANGED complete

Restart == complete' = {} /\ applying' = TRUE

Next == Complete \/ StopShort \/ Restart

Spec == Init /\ [][Next]_<<complete, applying>>
=============================================================================
