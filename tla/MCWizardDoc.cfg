CONSTANTS
  WizardBudgets <- MCWizardBudgets
SPECIFICATION WizardSpec
PROPERTIES ErrorIsShown
CHECK_DEADLOCK FALSE
