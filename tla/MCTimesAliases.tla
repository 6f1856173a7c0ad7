---------------------------- MODULE MCTimesAliases ----------------------------
(* Small instances of TimesRuntime, side by side: one job that captured two *)
(* aliases, while policies of their source change; or several jobs that     *)
(* list one article, while no policy takes anything off.                    *)
EXTENDS MCTimesRuntime, TLC

VARIABLE subjects   \* the articles of the instance

PoliciesKeep ==
    run'.pc = "upload" =>
        \A a \in subjects :
            LET outcome == run'.generation.result.outcome[a]
            IN  outcome \notin {"refused", "removed"} /\ (Parsed(a) \/ outcome = "unchanged")

Instance ==
    \A j \in Jobs : raw'[j] # NoRaw =>
        IF subjects = Articles THEN j = 1 /\ raw'[j].captured = Articles
        ELSE PoliciesKeep /\ raw'[j].captured \cup raw'[j].unchanged = subjects

AliasInit == Init /\ subjects \in SUBSET Articles \ {{}}
AliasNext == UNCHANGED subjects /\ Next /\ Instance
AliasSpec == AliasInit /\ [][AliasNext]_<<subjects, vars>>

Alike == Permutations(Articles)

=============================================================================
