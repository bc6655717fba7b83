\* No command fails: only the deadline of the helper passes.
CONSTANTS
  Mode = {"direct", "tor", "wireguard"}
  Direct = "direct"
  WireGuard = "wireguard"
  Fallible = {}
SPECIFICATION Spec
INVARIANT FailureRestoresDrop
