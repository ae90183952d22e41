SPECIFICATION Spec
CONSTANTS
  Consoles = {UNIVERSAL, PS3, XBOX360}
  Universal = UNIVERSAL
INVARIANTS
  DetectionSound
PROPERTIES
  OneIdentity
