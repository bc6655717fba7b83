\* Every command of an installation, of its rollback and of an uninstallation may
\* fail; the WireGuard files are those one line away from a good one.
CONSTANTS
  CommandLines <- MCCommandLines
  WireGuardFiles <- MCWireGuardFiles
  Repositories <- MCRepositories
  BaseDomains <- MCBaseDomains
  ReleaseToml <- MCReleaseToml
  OldMachine <- MCOldMachine
  MaxCrashes = 1
  MaxFailures = 1
SPECIFICATION Spec
INVARIANTS
  TypeOK
  AcceptsStrictTunnels
  RollbackRestores
  OldReleaseSurvives
  CommittedRunsRelease
  CommittedConfiguration
  BlocksWhatIsListed
