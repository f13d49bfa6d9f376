----------------------------- MODULE MCFrontPanel -----------------------------
(***************************************************************************)
(* FrontPanel for TLC.  A session is the operator at one part of the panel: *)
(* key 0, reached by the row of digits and the mouse; the switch РБ/ШГ,     *)
(* reached by F9 and the mouse, with the button ШГ beside it; and, in an    *)
(* instance of its own, the switch КМ/ЦК, which F10 works.                  *)
(***************************************************************************)
EXTENDS FrontPanel

VARIABLE session   \* the widgets the operator touches
mcvars == <<vars, session>>

PanelLegend == [k \in {"0", "F9"} |-> IF k = "0" THEN "K0" ELSE "RB"]
TenthLegend == [k \in {"F10"} |-> "KM"]

Sessions == {{"K0"}, {"RB", "SHG"}, {"KM"}}

Touched == {Legend[k] : k \in pressed} \cup ({pointer} \cap Widgets)

MCInit == Init /\ session \in {s \in Sessions : s \subseteq Widgets}

MCNext == Next /\ Touched' \subseteq session /\ UNCHANGED session

(* Each session is FrontPanel with fewer host keys and a mouse that keeps to *)
(* the widgets of the session, under the same fairness.                      *)
MCSpec == MCInit /\ [][MCNext]_mcvars /\ WF_vars(Main)
=============================================================================
