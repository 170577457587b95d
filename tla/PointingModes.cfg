CONSTANTS
  A = A
  B = B
  x = x
  y = y
  z = z
  layerKey = layerKey
  shortcutKey = shortcutKey
  None = None
  Pointer = 2
  Layers <- MCLayers
  Modes = {A, B}
  LayerKeys = {layerKey}
  ShortcutKeys = {shortcutKey}
  ModeKeys = {x, y, z}
  KeyMode <- MCKeyMode
  Setups <- MCSetups
  HoldLayers = {1, 2}
  HoldSets <- MCHoldSets
  LockSets <- MCLockSets
  MoveSets <- MCMoveSets
  OneshotSets <- MCOneshotSets
SPECIFICATION Spec
INVARIANTS LayersMatchOwners NothingInBetween ModeEndsWithItsKeys
PROPERTIES OwnedPointerStays
