------------------------------- MODULE MCWizard -------------------------------
(* The Wi-Fi wizard for TLC: one configuration that is applied. *)
EXTENDS Wizard

MCWizardBudgets == {[asks |-> 2, errors |-> 1, clients |-> 1, dialogs |-> 1]}
===============================================================================
