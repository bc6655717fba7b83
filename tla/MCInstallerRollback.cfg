\* As MCInstaller.cfg; a unit may crash while the script runs.
CONSTANTS
  CommandLines <- MCCommandLines
  WireGuardFiles <- MCWireGuardFiles
  Repositories <- MCRepositories
  BaseDomains <- MCBaseDomains
  ReleaseToml <- MCReleaseToml
  OldMachine <- MCOldMachine
  MaxCrashes = 1
  MaxFailures = 1
SPECIFICATION Spec
INVARIANT RollbackRestoresServices
