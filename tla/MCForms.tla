------------------------------- MODULE MCForms -------------------------------
(***************************************************************************)
(* The forms of an administrator and the audit table on small instances.   *)
(* They share no variable: a behaviour follows one while the other rests.  *)
(*                                                                         *)
(* Forms: two rows, two names, and two parameters, the first of which has  *)
(* a canonical form; two writes of others under a form.                    *)
(* AuditLog: two recorders, two events, one and a half seconds, a window   *)
(* of one second and lists of one or two rows.                             *)
(***************************************************************************)
EXTENDS Forms, AuditLog

VARIABLE subject   \* what this behaviour follows

MCKeys == <<"SYSTEM_ID", "AUTH_DELAY_BASE_SECS">>
MCCanonical == {"SYSTEM_ID"}

MCEntries == {<<"ANN", "">>, <<"", "ANN">>}

FormsRest == users = (CHOOSE u \in Databases : TRUE) /\ FormsInit

MaintenanceInit ==
  \/ subject = "forms" /\ FormsInit /\ AuditInit
  \/ subject = "audit" /\ FormsRest /\ AuditInit

MaintenanceNext ==
  /\ UNCHANGED subject
  /\ \/ subject = "forms" /\ FormsNext /\ UNCHANGED auditVars
     \/ subject = "audit" /\ AuditNext /\ UNCHANGED formVars

MaintenanceSpec == MaintenanceInit /\ [][MaintenanceNext]_<<subject, formVars, auditVars>>
=============================================================================
