\* Headers with a vendor's words between those of radiotap.
SPECIFICATION Spec
CONSTANTS
  Packets <- VendorPackets
INVARIANTS
  SkipsVendor
CHECK_DEADLOCK FALSE
