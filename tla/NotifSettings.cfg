CONSTANTS
  Option = {general, asb, mandatory}
  Mandatory = mandatory
  MaxRequests = 2

SPECIFICATION Spec

INVARIANTS
  TypeOK
  SwitchesAgree
  SubscriptionFollowsPreference

PROPERTIES
  PreferenceReachesService
  ImplementsChoice
