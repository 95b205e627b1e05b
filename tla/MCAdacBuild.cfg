\* make -j: drivers on different units in one directory, the sources edited
\* meanwhile; llvm-gcc rejects some of the new versions and llc others, and
\* msp430-elf-gcc may fail.  Two drivers compile the third unit, one after the
\* other, and each may be killed.
CONSTANTS
  Procs = {"p1", "p2", "p3"}
  Args <- BuildArgs
  Sources = {"main.adb", "util.adb", "lib/unit.adb"}
  Base <- ShortName
  HasElab = {"lib/unit.adb", "util.adb"}
  MaxVersion = 2
  Broken <- SomeBroken
  LlcFails <- SomeLlcFails
  Unlinkable = {"p1", "p3"}
  Killable = {"p2", "p3"}
  Apart <- Rebuilt
SPECIFICATION Spec
INVARIANTS AdacInv ObjectIsFresh StatusTells NothingLeftBehind
PROPERTY EveryDriverEnds
