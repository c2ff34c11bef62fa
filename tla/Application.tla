---------------------------- MODULE Application ----------------------------
(***************************************************************************)
(* Three components of the Electron application side by side: the transfer *)
(* queue and the action queue of a window, both in the main process, and a *)
(* terminal view in the renderer.  They share no state and call each other *)
(* nowhere, so a step of the application is a step of one of them.         *)
(***************************************************************************)
EXTENDS Transfers, TermSync, WindowQueue

appVars == <<vars, termVars, windowVars>>

AppInit == Init /\ TermInit /\ WindowInit

TransfersStep == Next /\ UNCHANGED <<termVars, windowVars>>
TermStep      == TermNext /\ UNCHANGED <<vars, windowVars>>
WindowStep    == WindowNext /\ UNCHANGED <<vars, termVars>>

AppNext == TransfersStep \/ TermStep \/ WindowStep

AppSpec == AppInit /\ [][AppNext]_appVars

(* Every variable of every component keeps its type.                        *)
AppTypeOK == TypeOK /\ TermTypeOK /\ WindowTypeOK

(* A settled terminal shows the bytes of its file in order, each once, and  *)
(* a saved screen stands for the file up to its offset.                     *)
FileIsShown == ShownIsFile /\ CacheIsFile

(* When all is quiet the renderer shows a tab of its workspace that exists, *)
(* and the window's active tab: a switch that was refused or failed is      *)
(* taken back.                                                              *)
TabIsShown == ShownExists /\ ShownIsActive
=============================================================================
