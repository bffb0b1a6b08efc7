--------------------------- MODULE MCTutorialSlots ---------------------------
(***************************************************************************)
(* The tutorial with the laboratory's own numbers, in units of five        *)
(* seconds and half points of portal energy.  The operator touches nothing *)
(* but the highlighted portal and follows the steps, except that in step 6 *)
(* observers are also sent where a recall is asked for, and that in step 7 *)
(* the portal may be closed on the observer who is coming home.  The       *)
(* worker ticks on time.                                                   *)
(***************************************************************************)
EXTENDS Tutorial

HighlightedOnly ==
    /\ op'.portal \in {Nil, app.portal}
    /\ op'.action # "OPEN_EXTRACTION"
    /\ op'.action = "SEND" => app.step \notin {1, 2, 4}
    /\ op'.action = "CLOSE" => app.step = 7
    /\ stage = "ticked" => stage' = "settled"
    /\ tickAt' <= tickAt + 1

SlotsSpec == TutorialInit /\ [][TutorialNext /\ HighlightedOnly]_tutorialVars

=============================================================================
