CONSTANTS
  u1 = u1
  u2 = u2
  u3 = u3
  Updates = {u1, u2, u3}
  Package <- Packages
  Disk <- Mmc
  PartNum <- Parts3And5
  Skippable = {"WKS_BOOTLOADER_FS"}
  Factory = Factory
  Corrupt = Corrupt
  None = None
  MaxActivations = 3
  MaxCuts = 2
SPECIFICATION Spec
CHECK_DEADLOCK FALSE
INVARIANTS NextBootBankSound RebootWhenNeeded SuccessInstalls
PROPERTIES MountedBankKept StagesWhole
