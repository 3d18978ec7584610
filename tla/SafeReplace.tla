----------------------------- MODULE SafeReplace -----------------------------
(***************************************************************************)
(* What files_commit promises of one file after another: it is saved while *)
(* it still is the original, damaged only once it is saved, and a damaged  *)
(* file is finished to a whole one, which may be the original again        *)
(* (-reverse).  Nothing makes a file be finished: the program may stop.    *)
(***************************************************************************)
CONSTANT File

VARIABLES live,   \* what the name of each file holds
          saved   \* whether its backup holds the original

vars == <<live, saved>>

States == {"original", "damaged", "patched"}

Init == /\ live = [f \in File |-> "original"]
        /\ saved = [f \in File |-> FALSE]

Save(f) == /\ live[f] = "original"
           /\ saved' = [saved EXCEPT ![f] = TRUE]
           /\ UNCHANGED live

Damage(f) == /\ saved[f]
             /\ live[f] # "damaged"
             /\ live' = [live EXCEPT ![f] = "damaged"]
             /\ UNCHANGED saved

Finish(f) == /\ live[f] = "damaged"
             /\ \E s \in {"original", "patched"} : live' = [live EXCEPT ![f] = s]
             /\ UNCHANGED saved

Next == \E f \in File : Save(f) \/ Damage(f) \/ Finish(f)

Spec == Init /\ [][Next]_vars

\* A file that is not the original has a backup.
NotOriginalIsSaved == \A f \in File : live[f] # "original" => saved[f]
==============================================================================
