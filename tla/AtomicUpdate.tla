---------------------------- MODULE AtomicUpdate ----------------------------
(***************************************************************************)
(* What a release update promises (website guide/install.md, "Updates"):   *)
(* the installation is one whole version - code, database, files - and an  *)
(* update changes it into the new version or leaves the previous one,      *)
(* whatever fails on the way. A rollback that fails says so, as long as    *)
(* it can write it down, and nothing is promised after that.               *)
(***************************************************************************)
EXTENDS Naturals

CONSTANT MaxVersion

VARIABLES
    phase,   \* "stable": one whole version; "changing"; "broken": a failed rollback
    goal     \* the versions the installation is, or may settle to

Init == phase = "stable" /\ goal = {1}

\* An update to t begins: it ends as t or as the present version.
Begin(t) ==
    /\ phase = "stable"
    /\ phase' = "changing"
    /\ goal' = goal \cup {t}

\* The administrator goes back to t, also in the middle of a dead update.
GoBack(t) ==
    /\ phase \in {"stable", "changing"}
    /\ phase' = "changing"
    /\ goal' = {t}

Settle ==
    /\ phase = "changing"
    /\ phase' = "stable"
    /\ \E v \in goal : goal' = {v}

Break ==
    /\ phase = "changing"
    /\ phase' = "broken"
    /\ goal' = {}

Next ==
    \/ \E t \in 1 .. MaxVersion : Begin(t) \/ GoBack(t)
    \/ Settle
    \/ Break

Spec == Init /\ [][Next]_<<phase, goal>>

==============================================================================
