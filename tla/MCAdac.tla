------------------------------- MODULE MCAdac -------------------------------
(* Command lines and source trees for the runs of Adac. *)
EXTENDS Adac

Ada(s) == [opt |-> "ada", val |-> s]
Opt(o, v) == [opt |-> o, val |-> v]

\* make -j: a driver compiling two units, with options of every kind, and one
\* compiling a third unit, which a later one compiles again; the language
\* option hides the argument after it
BuildArgs ==
  [p \in Procs |->
     IF p = "p1"
       THEN <<Opt("-mmcu", "msp430g2553"), Ada("main.adb"), Opt("-x", "x"), Opt("word", "ada"),
              Opt("-Wadac,", "keep_ada_main"), Opt("-c", "c"), Ada("util.adb")>>
       ELSE <<Opt("-Wgnat,", "-gnatif"), Ada("lib/unit.adb"),
              Opt("-Wllc,", "--function-sections")>>]
Rebuilt == {<<"p2", "p3">>}

\* of the second versions, p1 meets an error in one unit and a failing llc in the
\* other; so do the drivers of the unit compiled twice, in either order
SomeBroken == {<<"p1", "main.adb", 2>>, <<"p2", "lib/unit.adb", 2>>}
SomeLlcFails == {<<"p1", "util.adb", 2>>, <<"p3", "lib/unit.adb", 2>>}

ShortName ==
  [s \in Sources |-> CASE s = "main.adb" -> "main" [] s = "util.adb" -> "util" [] OTHER -> "unit"]

UnitBroken == Procs \X {"lib/unit.adb"} \X {2}

\* the same unit again, with its intermediate files kept
KeepArgs == [p \in Procs |-> <<Opt("-Wadac,", "keep_intermediates"), Ada("lib/unit.adb")>>]
Twice == {<<"p1", "p2">>}

GnatPairArgs == [p \in Procs |-> <<Opt("-gnat", "-gnatif"), Ada("main.adb"), Ada("util.adb")>>]
=============================================================================
