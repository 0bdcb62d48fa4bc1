CONSTANTS
  Option = {asb, district, mandatory}
  Mandatory = mandatory
  All = all
  Size = {0, 1, 2}
  DefaultSize = 1
  MaxScreens = 4
SPECIFICATION Spec
INVARIANTS
  TypeOK
  AllAgrees
  ShownIsStored
PROPERTY
  ComingBackChangesNothing
