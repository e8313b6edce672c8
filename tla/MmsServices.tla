----------------------------- MODULE MmsServices -----------------------------
(***************************************************************************)
(* The services of a server and its clients, and the desktop application,  *)
(* side by side. They share no state, so a behaviour follows one of them,  *)
(* chosen at the start, and the others stand still: what holds of every    *)
(* behaviour holds of each, at the cost of the sum of their states and not *)
(* the product.                                                            *)
(***************************************************************************)
EXTENDS UrcbReporting, ControlDialogue, FileTransfer, SettingGroups, MmsClient, Association,
        Desktop, Workbench, MmsDialogue

VARIABLE service

servicesVars ==
  <<service, associationVars, urcbVars, controlVars, fileVars, sgVars, clientVars,
    desktopVars, workbenchVars, dialogueVars>>

ServicesInit ==
  /\ service \in {"association", "reporting", "control", "files", "settings", "requests",
                 "desktop", "workbench", "dialogue"}
  /\ AssociationInit /\ UrcbInit /\ ControlInit /\ FileInit /\ SgInit /\ ClientInit
  /\ DesktopInit /\ WorkbenchInit /\ DialogueInit
  /\ service # "association" =>
       <<policy, source, offer>> = LET s == CHOOSE s \in Setups : TRUE
                                   IN  <<s.policy, s.source, s.offer>>
  /\ service # "workbench" => overlap = FALSE
  /\ service # "control" => site = CHOOSE s \in Sites : TRUE
  /\ service # "dialogue" => own /\ ~guarded /\ password = <<>>
  /\ password # <<>> => own = guarded

ServicesNext ==
  /\ UNCHANGED service
  /\ \/ /\ service = "association" /\ AssociationNext
        /\ UNCHANGED <<urcbVars, controlVars, fileVars, sgVars, clientVars, desktopVars,
                       workbenchVars, dialogueVars>>
     \/ /\ service = "reporting" /\ UrcbNext
        /\ UNCHANGED <<associationVars, controlVars, fileVars, sgVars, clientVars,
                       desktopVars, workbenchVars, dialogueVars>>
     \/ /\ service = "control" /\ ControlNext
        /\ UNCHANGED <<associationVars, urcbVars, fileVars, sgVars, clientVars, desktopVars,
                       workbenchVars, dialogueVars>>
     \/ /\ service = "files" /\ FileNext
        /\ UNCHANGED <<associationVars, urcbVars, controlVars, sgVars, clientVars,
                       desktopVars, workbenchVars, dialogueVars>>
     \/ /\ service = "settings" /\ SgNext
        /\ UNCHANGED <<associationVars, urcbVars, controlVars, fileVars, clientVars,
                       desktopVars, workbenchVars, dialogueVars>>
     \/ /\ service = "requests" /\ ClientNext
        /\ UNCHANGED <<associationVars, urcbVars, controlVars, fileVars, sgVars,
                       desktopVars, workbenchVars, dialogueVars>>
     \/ /\ service = "desktop" /\ DesktopNext
        /\ UNCHANGED <<associationVars, urcbVars, controlVars, fileVars, sgVars, clientVars,
                       workbenchVars, dialogueVars>>
     \/ /\ service = "workbench" /\ WorkbenchNext
        /\ UNCHANGED <<associationVars, urcbVars, controlVars, fileVars, sgVars, clientVars,
                       desktopVars, dialogueVars>>
     \/ /\ service = "dialogue" /\ DialogueNext
        /\ UNCHANGED <<associationVars, urcbVars, controlVars, fileVars, sgVars, clientVars,
                       desktopVars, workbenchVars>>

ServicesSpec == ServicesInit /\ [][ServicesNext]_servicesVars

(* Each service with the fairness that its own module states.               *)
ServicesFairSpec ==
  /\ ServicesSpec
  /\ AssociationFairness /\ UrcbFairness /\ ControlFairness /\ FileFairness /\ ClientFairness

-----------------------------------------------------------------------------
(* The types of every service.                                              *)
ServicesTypeOK ==
  /\ AssociationTypeOK /\ UrcbTypeOK /\ ControlTypeOK
  /\ FileTypeOK /\ SgTypeOK /\ ClientTypeOK
  /\ DesktopTypeOK /\ WorkbenchTypeOK /\ DialogueTypeOK

(* Every call of control comes to an end (MmsClient::operate_enhanced), by  *)
(* a timer only if the connection is lost under it or its object sends no   *)
(* terminations; and without any timer so does every transfer of a file     *)
(* that has the connection for itself and every request while the           *)
(* application reads its reports.                                           *)
CallsEnd == EveryCallEnds /\ TransfersEnd /\ RequestsEnd
=============================================================================
