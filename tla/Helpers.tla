------------------------------- MODULE Helpers -------------------------------
(***************************************************************************)
(* Two packages without a state of their own beyond what their callers     *)
(* keep, side by side: the condition lists and the image rules.  They      *)
(* share nothing, and a behaviour exercises one of them.                   *)
(***************************************************************************)
EXTENDS Conditions

CONSTANTS SetNames, Versions, NodeImages, GethImages, BatcherImages

VARIABLES overrides, built

Rules == INSTANCE Images

HelpersInit == Init /\ Rules!Init
HelpersNext ==
    \/ Next /\ overrides = {} /\ UNCHANGED <<overrides, built>>
    \/ Rules!Next /\ Init /\ UNCHANGED vars
HelpersSpec == HelpersInit /\ [][HelpersNext]_<<vars, overrides, built>>

\* Stated in Images: no combination of overrides gets images past the check
\* whose versions do not fit.
AcceptedImagesAgree == Rules!AcceptedImagesAgree

\* Stated in Images: each accepted image is what the most specific override of
\* its component asks for.
MostSpecificWins == Rules!MostSpecificWins
=============================================================================
