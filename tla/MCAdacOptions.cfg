\* One command line with an option for llvm-gcc and two Ada files.
CONSTANTS
  Procs = {"p1"}
  Args <- GnatPairArgs
  Sources = {"main.adb", "util.adb"}
  Base <- ShortName
  HasElab = {}
  MaxVersion = 2
  Broken = {}
  LlcFails = {}
  Unlinkable = {}
  Killable = {}
  Apart = {}
SPECIFICATION Spec
INVARIANT OptionsArriveAsGiven
