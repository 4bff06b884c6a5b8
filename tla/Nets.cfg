SPECIFICATION Spec
CONSTANTS
  a = a
  LocalNets <- MCLocalNets
  NumPins = 8
  Spaces <- MCSpaces
  NoSpace = none
  LabelNames <- MCLabelNames
  PackagePins <- MCPackagePins
  NoPackage = nopackage
  MaxNets = 12
  Designs <- MCDesigns
INVARIANTS TypeOK NamesLeadToNets NetsAreComponents TitlesUnique NoConnectionLost
