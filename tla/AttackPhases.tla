---------------------------- MODULE AttackPhases ----------------------------
(***************************************************************************)
(* What detection.h promises of the anomaly state: an attack starts at     *)
(* some severity, its severity may rise at once but falls one level at a   *)
(* time, it ends only through a cool-down, during which the severity never *)
(* rises, and a cool-down ends at the lowest severity.  An operator may    *)
(* overrule all of it, where Overrulable.                                  *)
(***************************************************************************)
EXTENDS Integers

CONSTANTS
    MaxLevel,       \* the highest severity
    Overrulable     \* whether an operator may set the severity

VARIABLES phase, severity
phaseVars == <<phase, severity>>

Init == phase = "normal" /\ severity = 0

Start == /\ phase = "normal" /\ phase' = "attack"
         /\ severity' \in 1 .. MaxLevel

Rise == /\ phase = "attack" /\ UNCHANGED phase
        /\ severity' \in severity + 1 .. MaxLevel

Fall == /\ phase # "normal" /\ UNCHANGED phase
        /\ severity > 1 /\ severity' = severity - 1

Calm == /\ phase = "attack" /\ phase' = "cooldown"
        /\ severity' \in {severity, severity - 1} \ {0}

Finish == /\ phase = "cooldown" /\ phase' = "normal"
          /\ severity = 1 /\ severity' = 0

Overrule == /\ Overrulable
            /\ \/ phase' = "normal" /\ severity' = 0
               \/ phase' = "attack" /\ severity' \in 1 .. MaxLevel

Next == Start \/ Rise \/ Fall \/ Calm \/ Finish \/ Overrule

Spec == Init /\ [][Next]_phaseVars
=============================================================================
