---------------------------- MODULE SampleWindow ----------------------------
(***************************************************************************)
(* What the sample cache of a node promises to those that read it: the     *)
(* last Size samples, the youngest at age 0, each moving one place when a  *)
(* sample arrives and the one at the last place being forgotten.           *)
(***************************************************************************)
EXTENDS Integers

CONSTANTS
    Size,   \* samples that are kept
    Empty   \* stands for a sample that was not taken yet

VARIABLE window

Age == 0..(Size - 1)

Init == window = [a \in Age |-> Empty]

\* A sample arrives, whatever it holds.
Add == \A a \in 1..(Size - 1) : window'[a] = window[a - 1]

Spec == Init /\ [][Add]_window
=============================================================================
