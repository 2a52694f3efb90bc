SPECIFICATION HSpec
CONSTANTS
  k1 = k1
  k2 = k2
  k3 = k3
  k4 = k4
  b1 = b1
  b2 = b2
  Key <- MCKey
  Body <- MCBody
  Caps <- MCCaps
  Horizon = 1
INVARIANTS HistTypeOK CoherentInv Retention
PROPERTY ImplementsRecencyStore
