----------------------------- MODULE TopicChoice -----------------------------
(***************************************************************************)
(* What the Android notification settings promise to the user, without     *)
(* storage, handlers or the messaging service: a set of chosen topics and  *)
(* one ALL switch that tells whether every topic is chosen.  A click is    *)
(* one step, however many preferences the code writes for it.              *)
(***************************************************************************)
CONSTANTS Option,    \* the notification topics
          Mandatory  \* the topic no screen can switch off

VARIABLES chosen,    \* the topics the user wants
          allOn,     \* the ALL switch
          live       \* the app runs

vars == <<chosen, allOn, live>>

Truthful == allOn <=> chosen = Option

Init == chosen = Option /\ allOn = TRUE /\ live = FALSE

Launch == live' = TRUE /\ UNCHANGED <<chosen, allOn>>

\* One topic is switched; a truthful ALL switch stays truthful, and ALL never
\* comes on while a topic is off.
Flip(o) ==
  /\ live /\ o # Mandatory
  /\ chosen' = IF o \in chosen THEN chosen \ {o} ELSE chosen \cup {o}
  /\ allOn' \in BOOLEAN
  /\ Truthful => Truthful'
  /\ allOn' => allOn \/ chosen' = Option
  /\ UNCHANGED live

\* The ALL switch takes every topic with it, the mandatory one excepted.
SwitchAll(on) ==
  /\ live
  /\ allOn' = on
  /\ chosen' = IF on THEN Option ELSE {Mandatory}
  /\ UNCHANGED live

\* The process dies and an earlier state of the preferences comes back, maybe
\* one from the middle of a click.  Nothing else may lose a choice.
Relapse ==
  /\ live /\ live' = FALSE
  /\ chosen' \in {C \in SUBSET Option : Mandatory \in C}
  /\ allOn' \in BOOLEAN

Next == \/ Launch
        \/ \E o \in Option : Flip(o)
        \/ \E on \in BOOLEAN : SwitchAll(on)
        \/ Relapse

Spec == Init /\ [][Next]_vars
=============================================================================
