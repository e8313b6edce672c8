---------------------------- MODULE SettingGroups ----------------------------
(***************************************************************************)
(* The setting groups of one logical device: the SGCB (ActSG, EditSG,      *)
(* CnfEdit), the confirmed values of each group, and the one edit buffer,  *)
(* which belongs to the device and not to the client that fills it.        *)
(***************************************************************************)
EXTENDS Integers

CONSTANTS
  Editors,      \* clients that edit setting groups
  Settings,     \* settings of the device
  NumOfSGs,     \* number of groups
  SettingValues \* their values

ASSUME SettingAssumption ==
  NumOfSGs \in Nat \ {0} /\ SettingValues \subseteq Nat /\ SettingValues # {}

VARIABLES
  actSG,   \* SGCB.ActSG
  editSG,  \* SGCB.EditSG, 0 before any selection
  groups,  \* the confirmed values: "@sg@<group>@<setting>"
  staged,  \* the edit buffer: "@se@<setting>", or Unset
  session  \* history: what each client edits, while nobody else interferes

sgVars == <<actSG, editSG, groups, staged, session>>

Groups == 1..NumOfSGs
Unset == -1
NothingStaged == [s \in Settings |-> Unset]
NoSession == [group |-> 0, wrote |-> NothingStaged]

SgInit ==
  /\ actSG = 1
  /\ editSG = 0
  /\ groups = [g \in Groups |-> [s \in Settings |-> CHOOSE v \in SettingValues : TRUE]]
  /\ staged = NothingStaged
  /\ session = [c \in Editors |-> NoSession]

(* The group must exist.                                                    *)
Exists(g) == g \in Groups

(* What a client has put into the groups and the buffer on top of what was  *)
(* there.                                                                   *)
Over(new, old) == [s \in Settings |-> IF new[s] # Unset THEN new[s] ELSE old[s]]

(* A session of one client ends every other.                                *)
OnlySession(c, s) == session' = [d \in Editors |-> IF d = c THEN s ELSE NoSession]

-----------------------------------------------------------------------------
(* handle_sg_write. A group that does not exist is refused.                 *)
SelectActiveSG(g) ==
  /\ Exists(g)
  /\ actSG' = g
  /\ UNCHANGED <<editSG, groups, staged, session>>

(* The buffer keeps what it has.                                            *)
SelectEditSG(c, g) ==
  /\ Exists(g)
  /\ editSG' = g
  /\ OnlySession(c, IF staged = NothingStaged THEN [group |-> g, wrote |-> NothingStaged]
                                              ELSE NoSession)
  /\ UNCHANGED <<actSG, groups, staged>>

(* An edit goes to the buffer, whichever group is being edited.             *)
WriteSetting(c, s, v) ==
  /\ staged' = [staged EXCEPT ![s] = v]
  /\ OnlySession(c, IF session[c].group = 0 THEN NoSession
                                            ELSE [session[c] EXCEPT !.wrote[s] = v])
  /\ UNCHANGED <<actSG, editSG, groups>>

(* confirm_edit_sg: nothing without a group being edited.                   *)
ConfirmEditSG(c) ==
  /\ IF editSG \in Groups
       THEN /\ groups' = [groups EXCEPT ![editSG] = Over(staged, @)]
            /\ staged' = NothingStaged
            /\ OnlySession(c, [group |-> session[c].group, wrote |-> NothingStaged])
       ELSE UNCHANGED <<groups, staged, session>>
  /\ UNCHANGED <<actSG, editSG>>

SgNext ==
  \/ \E g \in 0..NumOfSGs + 1 : SelectActiveSG(g)
  \/ \E c \in Editors, g \in 0..NumOfSGs + 1 : SelectEditSG(c, g)
  \/ \E c \in Editors, s \in Settings, v \in SettingValues : WriteSetting(c, s, v)
  \/ \E c \in Editors : ConfirmEditSG(c)

SgSpec == SgInit /\ [][SgNext]_sgVars

-----------------------------------------------------------------------------
(* resolve_setting: the value of a setting with FC = SG and with FC = SE.   *)
Existing(g) == IF g \in Groups THEN g ELSE 1
ActiveView(s) == groups[Existing(actSG)][s]
EditViewConfirmed(s) == groups[Existing(editSG)][s]
EditView(s) == IF staged[s] # Unset THEN staged[s] ELSE groups[Existing(editSG)][s]

SgTypeOK ==
  /\ actSG \in Groups /\ editSG \in 0..NumOfSGs
  /\ groups \in [Groups -> [Settings -> SettingValues]]
  /\ staged \in [Settings -> SettingValues \cup {Unset}]

(* A client that selected a group with an empty buffer, and was not         *)
(* disturbed, reads back through FC = SE what it wrote on top of that       *)
(* group, and its buffer holds nothing else to confirm.                     *)
UndisturbedEdit ==
  \A c \in Editors : session[c].group # 0 =>
    /\ editSG = session[c].group
    /\ staged = session[c].wrote
    /\ \A s \in Settings : EditView(s) = Over(session[c].wrote, groups[session[c].group])[s]
=============================================================================
