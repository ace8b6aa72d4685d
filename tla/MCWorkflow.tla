----------------------------- MODULE MCWorkflow -----------------------------
(***************************************************************************)
(* Instances of Workflow, one per behaviour: a change run around its       *)
(* delivery and approval under the owner's commands (the constants of the  *)
(* configuration), a change run around its validation and review under the *)
(* retries of a blocked step or under the commands that repeat a check,    *)
(* and a report run left to itself.                                        *)
(***************************************************************************)
EXTENDS Workflow

CONSTANT E1    \* the evidence of a failed check

OneEvidence == {E1}
ControlCommands == {"pause", "resume", "cancel", "approve", "reject", "retry"}
RetryCommands == {"pause", "resume", "retry"}
CheckCommands == {"pause", "resume", "revalidate", "rereview"}

VARIABLE scenario

Retrying ==
    INSTANCE Workflow WITH Done <- 6, Commands <- RetryCommands,
                           MaxCommands <- 2, MaxCrashes <- 0
Checking ==
    INSTANCE Workflow WITH Done <- 6, Commands <- CheckCommands,
                           MaxCommands <- 2, MaxCrashes <- 0
Reporting ==
    INSTANCE Workflow WITH ResultKind <- "report", Done <- 1, Commands <- {},
                           MaxCommands <- 0, MaxCrashes <- 0, TaskRepairCap <- 1

MCInit ==
    \/ scenario = "deciding" /\ Init
    \/ scenario = "retrying" /\ Retrying!Init
    \/ scenario = "checking" /\ Checking!Init
    \/ scenario = "reporting" /\ Reporting!Init

MCNext ==
    /\ \/ scenario = "deciding" /\ Next
       \/ scenario = "retrying" /\ Retrying!Next
       \/ scenario = "checking" /\ Checking!Next
       \/ scenario = "reporting" /\ Reporting!Next
    /\ UNCHANGED scenario

MCSpec ==
    /\ MCInit /\ [][MCNext]_<<vars, scenario>>
    /\ WF_vars(scenario = "reporting" /\ Reporting!System)

\* RunSettles of the report run: nothing but workers and the sweep moves it.
ReportSettles == scenario = "reporting" => RunSettles

=============================================================================
