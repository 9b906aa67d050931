------------------------------ MODULE MCServer ------------------------------
(***************************************************************************)
(* The server's side: account access, its rate limits, mail, the devices   *)
(* of the operators' console, attachments and their worker, the move of    *)
(* the service between hosts, and the name and avatar given to a partner.  *)
(* The seven models share no state, so one run explores their disjoint     *)
(* union: MCInit chooses the part that moves, and the other parts keep     *)
(* their initial states.                                                   *)
(***************************************************************************)
EXTENDS AccountAccess, Throttle, MailDelivery, AdminDevices, Attachments, HostMigration,
        PartnerProfile

VARIABLE part

MCInit ==
    /\ part \in {"access", "throttle", "mail", "admin", "attachments", "migration", "profile"}
    /\ AccessInit /\ ThrottleInit /\ MailInit /\ AdminInit /\ AttachmentsInit
    /\ MigrationInit /\ ProfileInit

MCNext ==
    /\ UNCHANGED part
    /\ \/ /\ part = "access" /\ AccessNext
          /\ UNCHANGED <<throttleVars, mailVars, adminVars, attVars, migrationVars, profileVars>>
       \/ /\ part = "throttle" /\ ThrottleNext
          /\ UNCHANGED <<accessVars, mailVars, adminVars, attVars, migrationVars, profileVars>>
       \/ /\ part = "mail" /\ MailNext
          /\ UNCHANGED <<accessVars, throttleVars, adminVars, attVars, migrationVars, profileVars>>
       \/ /\ part = "admin" /\ AdminNext
          /\ UNCHANGED <<accessVars, throttleVars, mailVars, attVars, migrationVars, profileVars>>
       \/ /\ part = "attachments" /\ AttachmentsNext
          /\ UNCHANGED <<accessVars, throttleVars, mailVars, adminVars, migrationVars, profileVars>>
       \/ /\ part = "migration" /\ MigrationNext
          /\ UNCHANGED <<accessVars, throttleVars, mailVars, adminVars, attVars, profileVars>>
       \/ /\ part = "profile" /\ ProfileNext
          /\ UNCHANGED <<accessVars, throttleVars, mailVars, adminVars, attVars, migrationVars>>

MCSpec ==
    MCInit /\ [][MCNext]_<<part, accessVars, throttleVars, mailVars, adminVars, attVars,
                           migrationVars, profileVars>>

\* Every variable of the part that moves has its type.
ServerTypeOK ==
    CASE part = "access"      -> AccessTypeOK
      [] part = "throttle"    -> ThrottleTypeOK
      [] part = "mail"        -> MailTypeOK
      [] part = "admin"       -> AdminTypeOK
      [] part = "attachments" -> AttachmentsTypeOK
      [] part = "migration"   -> MigrationTypeOK
      [] part = "profile"     -> ProfileTypeOK
=============================================================================
