------------------------------ MODULE OneAnswer ------------------------------
(***************************************************************************)
(* What the tap on a notification is meant to get from each News_Activity  *)
(* that is started for it: the article, at once if the app has it, or from *)
(* whichever list turns out to have it; the list of notifications once     *)
(* every list has been looked through and none is known to have it.  One   *)
(* answer, and the first one counts.                                       *)
(***************************************************************************)
CONSTANTS Instance, List

VARIABLES holds,    \* the lists that have the article, as far as the app knows
          started,  \* the instances there are
          answer,   \* per instance: none, or the screen the user gets
          searched  \* per instance: the lists looked through

vars == <<holds, started, answer, searched>>

Unanswered == /\ started = {}
              /\ answer = [i \in Instance |-> "none"]
              /\ searched = [i \in Instance |-> {}]

Init == holds \in SUBSET List /\ Unanswered

\* An instance starts; if the article is there, that is the answer.
Start(i) ==
  /\ i \notin started /\ started' = started \cup {i}
  /\ answer' = IF holds = {} THEN answer
                             ELSE [answer EXCEPT ![i] = "article"]
  /\ UNCHANGED <<holds, searched>>

\* What an instance answers that has looked through l as it is now.
Reply(i, l) ==
  IF answer[i] # "none" THEN answer[i]
  ELSE IF l \in holds' THEN "article"
  ELSE IF searched[i] \cup {l} = List /\ holds' = {} THEN "list"
  ELSE "none"

\* A list comes, with the article or without, and some look through it.
Search(S, l) ==
  /\ S \subseteq started
  /\ holds' \in {holds \cup {l}, holds \ {l}}
  /\ answer' = [i \in Instance |-> IF i \in S THEN Reply(i, l) ELSE answer[i]]
  /\ searched' = [i \in Instance |->
                    IF i \in S THEN searched[i] \cup {l} ELSE searched[i]]
  /\ UNCHANGED started

\* The process dies; what it has stored stays.
Forget == UNCHANGED holds /\ Unanswered'

Next ==
  \/ \E i \in Instance : Start(i)
  \/ \E S \in SUBSET Instance, l \in List : Search(S, l)
  \/ Forget

Spec == Init /\ [][Next]_vars
=============================================================================
