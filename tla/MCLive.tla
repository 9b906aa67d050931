------------------------------- MODULE MCLive -------------------------------
(***************************************************************************)
(* What must eventually happen: AI work cycles end, private bytes vanish,  *)
(* alerts are dealt with, mail arrives, the service returns.  The models   *)
(* share no state, so one run explores their disjoint union: MCInit        *)
(* chooses the part that moves and that fairness is assumed of; the other  *)
(* parts keep their initial states.                                        *)
(***************************************************************************)
EXTENDS AiWorkQueue, Attachments, PartnerAlerts, MailDelivery, HostMigration

CONSTANTS l0, learn

\* One worker of a host other stacks use too, and one admin row.
OneLock      == [w \in Workers |-> l0]
AdminOnly    == <<"admin_learning">>
SlotZero     == <<0>>
LearningOnly == <<learn>>

VARIABLE part

allVars == <<part, vars, attVars, alertVars, mailVars, migrationVars>>

MCInit ==
    /\ part \in {"queue", "attachments", "alerts", "mail", "migration"}
    /\ Init /\ AttachmentsInit /\ AlertsInit /\ MailInit /\ MigrationInit

MCNext ==
    /\ UNCHANGED part
    /\ \/ /\ part = "queue" /\ Next
          /\ UNCHANGED <<attVars, alertVars, mailVars, migrationVars>>
       \/ /\ part = "attachments" /\ AttachmentsNext
          /\ UNCHANGED <<vars, alertVars, mailVars, migrationVars>>
       \/ /\ part = "alerts" /\ AlertsNext
          /\ UNCHANGED <<vars, attVars, mailVars, migrationVars>>
       \/ /\ part = "mail" /\ MailNext
          /\ UNCHANGED <<vars, attVars, alertVars, migrationVars>>
       \/ /\ part = "migration" /\ MigrationNext
          /\ UNCHANGED <<vars, attVars, alertVars, mailVars>>

\* The fairness each module assumes, of the part that moves.
MCFairness ==
    /\ \A w \in Workers : WF_vars(part = "queue" /\ Step(w))
    /\ \A w \in MediaWorkers : WF_attVars(part = "attachments" /\ WorkerStep(w))
    /\ WF_attVars(part = "attachments" /\ UpkeepStep)
    /\ \A f \in Files : WF_attVars(part = "attachments" /\ AttemptDue(f))
    /\ \A p \in Files \X Directories : SF_attVars(part = "attachments" /\ FileGrowsOld(p))
    /\ WF_alertVars(part = "alerts" /\ CommitEvent)
    /\ WF_alertVars(part = "alerts" /\ CommitChoice)
    /\ \A w \in AlertWorks : SF_alertVars(part = "alerts" /\ WorkStep(w))
    /\ \A w \in Mailers : /\ WF_mailVars(part = "mail" /\ PollMail(w))
                          /\ WF_mailVars(part = "mail" /\ SendMail(w))
                          /\ WF_mailVars(part = "mail" /\ CommitMail(w))
    /\ WF_mailVars(part = "mail" /\ MailMinute)
    /\ WF_migrationVars(part = "migration" /\ Orchestrate)
    /\ SF_migrationVars(part = "migration" /\ serving = {} /\ StartRun("recover-forward"))
    /\ SF_migrationVars(part = "migration" /\ serving = {} /\ StartRun("recover-rollback"))
    /\ SF_migrationVars(part = "migration" /\ StartDestination)
    /\ WF_migrationVars(part = "migration" /\ StrayGone)

MCSpec == MCInit /\ [][MCNext]_allVars /\ MCFairness
=============================================================================
