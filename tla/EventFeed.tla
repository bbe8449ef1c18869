----------------------------- MODULE EventFeed ------------------------------
(***************************************************************************)
(* What the network events feed promises of a condition of a               *)
(* representative, whatever detector finds it: it is told began once and   *)
(* ended once under the same key, it is told began before it is told       *)
(* ended, nothing told is taken back, and the last thing told agrees with  *)
(* whether the detector holds it open.  One step may tell several things:  *)
(* a detector that catches up writes all of them at once.                  *)
(***************************************************************************)
EXTENDS Integers

CONSTANTS Subjects, Null

VARIABLES open,    \* the key of each subject's open condition, or Null
          told     \* the began and ended events of the subjects

Told(s, phase) == {e.key : e \in {f \in told : f.subject = s /\ f.phase = phase}}

\* The events agree with what is open.
Agrees(s) == /\ Told(s, "ended") \subseteq Told(s, "began")
             /\ Told(s, "began") \ Told(s, "ended") = {open[s]} \ {Null}

Init == /\ open = [s \in Subjects |-> Null]
        /\ told = {}

Tell == /\ told \subseteq told'
        /\ \A s \in Subjects : Agrees(s)'

Spec == Init /\ [][Tell]_<<open, told>>
=============================================================================
