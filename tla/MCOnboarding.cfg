SPECIFICATION Spec
CONSTANTS
  a = a  b = b  k1 = k1  None = None
  Accounts = {a, b}
  PartnerKeys = {k1}
  MaxFlights = 4
  MaxSwitches = 3
  MaxFaults = 1
  Slots = 3
  MaxEvents = 4
CHECK_DEADLOCK FALSE
INVARIANTS
  SessionIsSigned
  FlagsAreEarned
  ProgressIsKept
  ServedAsWallet
PROPERTIES
  SignInSettles
  WizardMovesOn
