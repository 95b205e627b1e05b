\* An edit that does not compile, after a run with keep_intermediates.
CONSTANTS
  Procs = {"p1", "p2"}
  Args <- KeepArgs
  Sources = {"lib/unit.adb"}
  Base <- ShortName
  HasElab = {"lib/unit.adb"}
  MaxVersion = 2
  Broken <- UnitBroken
  LlcFails = {}
  Unlinkable = {}
  Killable = {}
  Apart <- Twice
SPECIFICATION Spec
INVARIANT RejectedMeansFailure
