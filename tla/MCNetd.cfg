\* Direct, a proxy mode and WireGuard; every command may fail.
CONSTANTS
  Mode = {"direct", "tor", "wireguard"}
  Direct = "direct"
  WireGuard = "wireguard"
  Fallible = {"kill", "teardown", "verify", "prepare", "setup", "commit", "delete"}
SPECIFICATION FairSpec
INVARIANTS
  TypeOK
  CommittedModeIsEnforced
  HeldDuringTransition
PROPERTIES
  FailClosed
  Answered
