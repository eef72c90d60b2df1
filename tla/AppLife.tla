------------------------------ MODULE AppLife ------------------------------
(***************************************************************************)
(* What the plans of an app promise (backend/src/services/app-plan.ts):    *)
(* its compose file is one whole content, changed in one go by each plan   *)
(* that is carried out and not at all by one that fails; the file an       *)
(* update replaced is kept until a rollback used it, a failed update       *)
(* leaving "the earlier rollback point included"; a crash, or a rollback   *)
(* that could not delete its point, may leave the point too early or too   *)
(* long, never the file half changed.  Nothing is promised once two plans  *)
(* changed the app across each other.                                      *)
(***************************************************************************)
EXTENDS Naturals

CONSTANT None

VARIABLES
    file,   \* compose.yaml, or None
    kept,   \* compose.yaml.previous, or None
    mode    \* "whole"; "interrupted": a plan was cut, or its point not deleted; "blurred":
            \* plans crossed, or what was changed was not put back

RolledBack == [file EXCEPT !.img = kept.img]

Create == file = None /\ file' # None /\ kept' = kept

Edit == file # None /\ file' # None /\ kept' = kept

\* Only the image is newer; the file as it was is the rollback point.
Update ==
    /\ file # None /\ file' # None
    /\ file' = [file EXCEPT !.img = file'.img]
    /\ file'.img > file.img
    /\ kept' = file

Rollback == file # None /\ kept # None /\ file' = RolledBack /\ kept' = None

Remove == file' = None /\ kept' = None

\* An update that only kept the file, a rollback that did not drop its point.
Interrupted ==
    /\ file # None
    /\ \/ file' = file /\ kept' = file
       \/ kept # None /\ file' = RolledBack /\ kept' = kept

Next ==
    \/ /\ mode # "blurred" /\ mode' = mode
       /\ Create \/ Edit \/ Update \/ Rollback \/ Remove
    \/ /\ mode # "blurred" /\ mode' = "interrupted"
       /\ Create \/ Update \/ Interrupted
    \/ mode' = "blurred"

Init == mode = "whole" /\ (file = None => kept = None)

Spec == Init /\ [][Next]_<<file, kept, mode>>

=============================================================================
