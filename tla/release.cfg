CONSTANTS
  Files = {"js", "map", "key", ".env", "env", "stray"}
  Dirs = {"dir"}
  Under <- MCUnder
  Undotted <- MCUndotted
  Stray = "stray"
  Forbidden <- MCForbidden
  Mapped = {"js"}
  Tokened = {"js", "env"}
  Suspicious = {"key", "stray"}
  Manifests <- MCManifests
  Baselines <- MCBaselines
  MaxMembers = 4
  MaxRaised = 1
  Assets = {"a.whl", "b.tgz", "sums"}
  AssetKind <- MCAssetKind
  Expected = {"a.whl", "sums"}
  Local = {"a.whl", "sums"}
  None = None
SPECIFICATION Spec
CHECK_DEADLOCK FALSE
INVARIANTS TypeOK ExitZeroIsClean
