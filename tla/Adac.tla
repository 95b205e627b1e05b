-------------------------------- MODULE Adac --------------------------------
(***************************************************************************)
(* msp430-elf-adac, the compiler driver: it sorts its arguments, takes     *)
(* each Ada file through llvm-gcc (.bc, .ali), llc (.s) and a pass over    *)
(* the assembly, hands the rest to msp430-elf-gcc, and in a finally block  *)
(* removes the intermediate files.  These lie in the current directory     *)
(* under the base name of the source, which drivers started by make or     *)
(* gprbuild share.  The status of every command is ignored; the one error  *)
(* the driver notices is an assembly file it cannot open.                  *)
(***************************************************************************)
EXTENDS Integers, SequencesExt

CONSTANTS
  Procs,        \* driver processes
  Args,         \* Args[p]: the command line of p, records [opt, val]
  Sources,      \* Ada source files, by path
  Base,         \* Base[s]: adaToBaseName(s)
  HasElab,      \* sources with an ___elabb procedure
  MaxVersion,   \* bound on edits of a source
  Broken,       \* what llvm-gcc rejects: triples driver, source, version
  LlcFails,     \* what llvm-gcc accepts and llc rejects: triples likewise
  Unlinkable,   \* drivers whose last command, msp430-elf-gcc, may fail
  Killable,     \* drivers that may be killed
  Apart         \* pairs of drivers that never run at the same time

ASSUME AdacAssumption ==
  /\ \A p \in Procs : \A i \in DOMAIN Args[p] : "opt" \in DOMAIN Args[p][i]
  /\ HasElab \subseteq Sources /\ MaxVersion \in Nat \ {0}
  /\ Broken \cup LlcFails \subseteq Procs \X Sources \X (1 .. MaxVersion)
  /\ Unlinkable \subseteq Procs /\ Killable \subseteq Procs
  /\ Apart \subseteq Procs \X Procs

VARIABLES
  version,  \* version[s]: how often the source was written
  dir,      \* the current directory: intermediate file -> content or Absent
  pc,       \* pc[p]: the statement p is about to execute
  file,     \* file[p]: index in adaFiles of the file p is compiling
  form,     \* what gnatOptions and llcOptions are: "list", "string" or "garbled"
  found,    \* constructors, as findContructorNames returned it
  sweep,    \* sweep[p]: the paths cleanUpIntermediates has left to visit
  exit,     \* exit[p]: the status p ends with
  seen,     \* seen[p][i]: the version of file i p gave to llvm-gcc, for properties
  object    \* object[p]: the assembly msp430-elf-gcc read, None if it made no output

vars == <<version, dir, pc, file, form, found, sweep, exit, seen, object>>

Absent == [kind |-> "absent"]
None == <<>>
Paths == {Base[s] : s \in Sources} \X {"bc", "s", "ali"}
-----------------------------------------------------------------------------
(* Parsing of the command line. *)
NoArgs == [ignoreNextOption |-> FALSE, adaFiles |-> <<>>, gnatOptions |-> <<>>,
           adacOptions |-> <<>>, llcOptions |-> <<>>, gccCmdLine |-> <<>>]

Asm(s) == [opt |-> "asm", val |-> Base[s]]

ParseArg(a, arg) ==
  CASE a.ignoreNextOption -> [a EXCEPT !.ignoreNextOption = FALSE]
    [] ~a.ignoreNextOption /\ arg.opt = "-x" -> [a EXCEPT !.ignoreNextOption = TRUE]
    [] ~a.ignoreNextOption /\ arg.opt = "ada" ->
         [a EXCEPT !.adaFiles = Append(@, arg.val),
                   !.gccCmdLine = Append(@, Asm(arg.val))]
    [] ~a.ignoreNextOption /\ arg.opt \in {"-Wgnat,", "-gnat"} ->
         [a EXCEPT !.gnatOptions = Append(@, arg.val)]
    [] ~a.ignoreNextOption /\ arg.opt = "-Wadac," ->
         [a EXCEPT !.adacOptions = Append(@, arg.val)]
    [] ~a.ignoreNextOption /\ arg.opt = "-Wllc," ->
         [a EXCEPT !.llcOptions = Append(@, arg.val)]
    [] OTHER -> [a EXCEPT !.gccCmdLine = Append(@, arg)]

Parsed == [p \in Procs |-> FoldLeft(ParseArg, NoArgs, Args[p])]

AdaFiles(p) == Parsed[p].adaFiles
NumFiles(p) == Len(AdaFiles(p))
ASSUME CommandLineAssumption == \A p \in Procs : AdaFiles(p) \in Seq(Sources)
Option(p, o) == o \in ToSet(Parsed[p].adacOptions)
BaseOf(p, i) == Base[AdaFiles(p)[i]]
Current(p) == AdaFiles(p)[file[p]]
Bc(p)  == <<Base[Current(p)], "bc">>
Ali(p) == <<Base[Current(p)], "ali">>
S(p)   == <<Base[Current(p)], "s">>

JoinTwice(f, words) == IF f = "list" THEN "string" ELSE "garbled"
(* " ".join makes a string of a list of words; of a string of more than    *)
(* one character it makes characters separated by blanks.                  *)
Join(f, words) ==
  CASE f = "list" -> "string"
    [] f = "string" /\ words = <<>> -> "string"
    [] OTHER -> "garbled"
-----------------------------------------------------------------------------
Init ==
  /\ version = [s \in Sources |-> 1]
  /\ dir = [f \in Paths |-> Absent]
  /\ pc = [p \in Procs |-> "start"]
  /\ file = [p \in Procs |-> 1]
  /\ form = [p \in Procs |-> [gnat |-> "list", llc |-> "list"]]
  /\ found = [p \in Procs |-> FALSE]
  /\ sweep = [p \in Procs |-> <<>>]
  /\ exit = [p \in Procs |-> 0]
  /\ seen = [p \in Procs |-> [i \in 1 .. NumFiles(p) |-> 0]]
  /\ object = [p \in Procs |-> None]

Goto(p, label) == pc' = [pc EXCEPT ![p] = label]

Start(p) ==
  /\ pc[p] = "start"
  /\ \A q \in Procs :
       <<p, q>> \in Apart \/ <<q, p>> \in Apart => pc[q] \in {"start", "end", "killed"}
  /\ Goto(p, IF NumFiles(p) > 0 THEN "llvm_gcc" ELSE "msp_gcc")
  /\ UNCHANGED <<version, dir, file, form, found, sweep, exit, seen, object>>

(* Lines 143-152: a rejected source leaves the old .bc, or llvm-gcc        *)
(* removes it with the other outputs of the failed command.                *)
RunLlvmGcc(p) ==
  LET s == Current(p)
      gnat == Join(form[p].gnat, Parsed[p].gnatOptions)
  IN
  /\ pc[p] = "llvm_gcc"
  /\ form' = [form EXCEPT ![p].gnat = gnat]
  /\ seen' = [seen EXCEPT ![p][file[p]] = version[s]]
  /\ IF gnat = "garbled" \/ <<p, s, version[s]>> \in Broken
       THEN dir' \in {dir, [dir EXCEPT ![Bc(p)] = Absent]}
       ELSE dir' = [dir EXCEPT
              ![Bc(p)] = [kind |-> "bc", source |-> s, version |-> version[s]],
              ![Ali(p)] = [kind |-> "ali", source |-> s, version |-> version[s]]]
  /\ Goto(p, "llc")
  /\ UNCHANGED <<version, file, found, sweep, exit, object>>

LlcOnTop(p) ==
  [kind |-> "s", source |-> dir[Bc(p)].source, version |-> dir[Bc(p)].version,
   main |-> "_ada_main", ctors |-> IF dir[S(p)] = Absent THEN 0 ELSE dir[S(p)].ctors]
LlcOutput(p) ==
  [kind |-> "s", source |-> dir[Bc(p)].source, version |-> dir[Bc(p)].version,
   main |-> "_ada_main", ctors |-> 0]

(* Lines 153-154: like llvm-gcc, llc may fail unnoticed.  It then leaves   *)
(* the old .s, or removes the output it has begun to write.                *)
RunLlc(p) ==
  LET llc == Join(form[p].llc, Parsed[p].llcOptions)
      bc == dir[Bc(p)]
  IN
  /\ pc[p] = "llc"
  /\ form' = [form EXCEPT ![p].llc = llc]
  /\ IF llc = "garbled" \/ bc = Absent \/ <<p, bc.source, bc.version>> \in LlcFails
       THEN dir' \in {dir, [dir EXCEPT ![S(p)] = Absent]}
       ELSE dir' = [dir EXCEPT ![S(p)] = LlcOutput(p)]
  /\ Goto(p, "sed")
  /\ UNCHANGED <<version, file, found, sweep, exit, seen, object>>

(* postprocessAsm: the sed command fails unnoticed on a missing file.      *)
RunSed(p) ==
  /\ pc[p] = "sed"
  /\ dir' = IF Option(p, "keep_ada_main") \/ dir[S(p)] = Absent THEN dir
            ELSE [dir EXCEPT ![S(p)].main = "main"]
  /\ Goto(p, "find")
  /\ UNCHANGED <<version, file, form, found, sweep, exit, seen, object>>

LeavesAli(p, n) ==
  IF Option(p, "keep_intermediates") THEN <<>>
  ELSE [k \in 1 .. 2 * n |-> <<BaseOf(p, ((k - 1) \div 2) + 1), <<"s", "bc">>[((k - 1) % 2) + 1]>>]
(* The finally block visits the three files of each base name, in order.   *)
Visited(p, n) ==
  IF Option(p, "keep_intermediates") THEN <<>>
  ELSE [k \in 1 .. 3 * n |->
         <<BaseOf(p, ((k - 1) \div 3) + 1), <<"s", "bc", "ali">>[((k - 1) % 3) + 1]>>]

CleanUp(p, n) ==
  /\ sweep' = [sweep EXCEPT ![p] = Visited(p, n)]
  /\ Goto(p, "exists")

(* The traceback of an exception ends Python with status 1.                *)
Traceback == 1

Constructors(p) == dir[S(p)].source \in HasElab

FindConstructors(p) ==
  /\ pc[p] = "find"
  /\ IF dir[S(p)] = Absent
       THEN /\ exit' = [exit EXCEPT ![p] = Traceback]  \* open raises
            /\ CleanUp(p, file[p])
            /\ UNCHANGED found
       ELSE /\ found' = [found EXCEPT ![p] = Constructors(p)]
            /\ Goto(p, "append")
            /\ UNCHANGED <<exit, sweep>>
  /\ UNCHANGED <<version, dir, file, form, seen, object>>

StayAtFile(p) == file[p]
NextFile(p) == file[p] + 1

(* appendConstructorSections; open (..., "a") creates a missing file.      *)
OnlyConstructors(p) ==
  [kind |-> "s", source |-> Current(p), version |-> 0, main |-> "none", ctors |-> 1]
WithConstructors(p) ==
  IF dir[S(p)] = Absent
    THEN OnlyConstructors(p)
    ELSE [dir[S(p)] EXCEPT !.ctors = @ + 1]

Append_init_array(p) ==
  /\ pc[p] = "append"
  /\ dir' = IF ~found[p] THEN dir ELSE [dir EXCEPT ![S(p)] = WithConstructors(p)]
  /\ IF file[p] < NumFiles(p)
       THEN file' = [file EXCEPT ![p] = NextFile(p)] /\ Goto(p, "llvm_gcc")
       ELSE UNCHANGED file /\ Goto(p, "msp_gcc")
  /\ UNCHANGED <<version, form, found, sweep, exit, seen, object>>

(* msp430-elf-gcc reads every assembly file of its command line; that it   *)
(* fails changes nothing but that there is no object.                      *)
RunMspGcc(p) ==
  LET asm == [i \in 1 .. NumFiles(p) |-> dir[<<BaseOf(p, i), "s">>]] IN
  /\ pc[p] = "msp_gcc"
  /\ \/ Absent \notin ToSet(asm) /\ object' = [object EXCEPT ![p] = <<asm>>]
     \/ (p \in Unlinkable \/ Absent \in ToSet(asm)) /\ UNCHANGED object
  /\ CleanUp(p, NumFiles(p))
  /\ UNCHANGED <<version, dir, file, form, found, exit, seen>>

(* remove: first os.path.exists, then os.remove, which raises if the file  *)
(* is gone by then; the exception ends the clean-up.                       *)
CheckExists(p) ==
  /\ pc[p] = "exists"
  /\ IF sweep[p] = <<>>
       THEN Goto(p, "end") /\ UNCHANGED sweep
       ELSE IF dir[Head(sweep[p])] = Absent
              THEN sweep' = [sweep EXCEPT ![p] = Tail(@)] /\ UNCHANGED pc
              ELSE Goto(p, "remove") /\ UNCHANGED sweep
  /\ UNCHANGED <<version, dir, file, form, found, exit, seen, object>>

RemovePath(p) ==
  /\ pc[p] = "remove"
  /\ IF dir[Head(sweep[p])] = Absent
       THEN /\ exit' = [exit EXCEPT ![p] = Traceback]
            /\ sweep' = [sweep EXCEPT ![p] = <<>>]
            /\ Goto(p, "end")
            /\ UNCHANGED dir
       ELSE /\ dir' = [dir EXCEPT ![Head(sweep[p])] = Absent]
            /\ sweep' = [sweep EXCEPT ![p] = Tail(@)]
            /\ Goto(p, "exists")
            /\ UNCHANGED exit
  /\ UNCHANGED <<version, file, form, found, seen, object>>

(* A killed driver does not reach its finally block. *)
Kill(p) ==
  /\ p \in Killable
  /\ pc[p] \notin {"start", "end", "killed"}
  /\ Goto(p, "killed")
  /\ UNCHANGED <<version, dir, file, form, found, sweep, exit, seen, object>>

Edit(s) ==
  /\ version[s] < MaxVersion
  /\ version' = [version EXCEPT ![s] = @ + 1]
  /\ UNCHANGED <<dir, pc, file, form, found, sweep, exit, seen, object>>

Step(p) ==
  \/ Start(p)
  \/ RunLlvmGcc(p) \/ RunLlc(p) \/ RunSed(p)
  \/ FindConstructors(p) \/ Append_init_array(p)
  \/ RunMspGcc(p)
  \/ CheckExists(p) \/ RemovePath(p)

Stopped(p) == pc[p] \in {"end", "killed"}

AllStopped == (\A p \in Procs : Stopped(p)) /\ UNCHANGED vars

Next ==
  \/ \E p \in Procs : Step(p) \/ Kill(p)
  \/ \E s \in Sources : Edit(s)
  \/ AllStopped

(* The operating system runs every process, and every command ends.        *)
Spec == Init /\ [][Next]_vars /\ \A p \in Procs : WF_vars(Step(p))
-----------------------------------------------------------------------------
(* Types: every file holds what its extension says and every driver is     *)
(* somewhere, at one of its files.                                         *)
Compiling == {"llvm_gcc", "llc", "sed", "find", "append"}
PC == Compiling \cup {"start", "msp_gcc", "exists", "remove", "end", "killed"}
Forms == {"list", "string", "garbled"}

TypeOK ==
  /\ version \in [Sources -> 1 .. MaxVersion]
  /\ dir = [f \in Paths |-> dir[f]] /\ \A f \in Paths : dir[f] = Absent \/ dir[f].kind = f[2]
  /\ pc \in [Procs -> PC] /\ file \in [Procs -> Nat \ {0}]
  /\ \A p \in Procs : file[p] <= NumFiles(p) \/ (NumFiles(p) = 0 /\ pc[p] \notin Compiling)
  /\ form \in [Procs -> [gnat : Forms, llc : Forms]] /\ found \in [Procs -> BOOLEAN]
  /\ sweep \in [Procs -> Seq(Paths)] /\ exit \in [Procs -> {0, 1}]
  /\ seen = [p \in Procs |-> [i \in 1 .. NumFiles(p) |-> seen[p][i]]]
  /\ object = [p \in Procs |-> object[p]]

(* The assembly a correct build of p is made of: the sources as llvm-gcc   *)
(* read them in this run, the main program renamed, each constructor once. *)
AsmOf(p, i, name, n) ==
  [kind |-> "s", source |-> AdaFiles(p)[i], version |-> seen[p][i], main |-> name, ctors |-> n]
MainName(p) == IF Option(p, "keep_ada_main") THEN "_ada_main" ELSE "main"
FreshAsm(p) ==
  [i \in 1 .. NumFiles(p) |->
     AsmOf(p, i, MainName(p), IF AdaFiles(p)[i] \in HasElab THEN 1 ELSE 0)]

(* Why file i of p may not be compiled in this run: llvm-gcc or llc        *)
(* rejects it, or gets options that were joined for an earlier file.       *)
LlvmGccRefuses(p, i) ==
  (i > 1 /\ Parsed[p].gnatOptions # <<>>) \/ <<p, AdaFiles(p)[i], seen[p][i]>> \in Broken
LlcRefuses(p, i) ==
  (i > 1 /\ Parsed[p].llcOptions # <<>>) \/ <<p, AdaFiles(p)[i], seen[p][i]>> \in LlcFails
Refused(p, i) == LlvmGccRefuses(p, i) \/ LlcRefuses(p, i)
Shared(p, i) == \E q \in Procs \ {p} : \E j \in 1 .. NumFiles(q) : BaseOf(q, j) = BaseOf(p, i)

(* msp430-elf-gcc is given the code of this run: not that of another       *)
(* driver, of an earlier run that was killed, or with constructor entries  *)
(* missing or doubled.  Only for a file that was refused may it read what  *)
(* another driver of that base name left, for no status is looked at.      *)
ObjectIsFresh ==
  \A p \in Procs : object[p] # None =>
    \A i \in 1 .. NumFiles(p) :
      IF Refused(p, i) THEN Shared(p, i) ELSE object[p][1][i] = FreshAsm(p)[i]

(* The status tells what became of the files: a driver fails only if one   *)
(* was refused, and fails if one was refused that it has for itself.       *)
StatusTells ==
  \A p \in Procs : pc[p] = "end" =>
    /\ exit[p] = 1 => \E i \in 1 .. NumFiles(p) : Refused(p, i)
    /\ (\E i \in 1 .. NumFiles(p) : Refused(p, i) /\ ~Shared(p, i)) => exit[p] = 1

(* A file that is refused makes the driver fail, as it does a C compiler.  *)
RejectedMeansFailure ==
  \A p \in Procs : pc[p] = "end" /\ (\E i \in 1 .. NumFiles(p) : Refused(p, i)) => exit[p] = 1

(* Whichever way it ends, a driver that was not killed leaves none of the  *)
(* files it made (README: keep_intermediates).                             *)
NothingLeftBehind ==
  (\A p \in Procs : pc[p] = "end" /\ ~Option(p, "keep_intermediates")) =>
    \A f \in Paths : dir[f] = Absent

(* The command lines of one directory for which this is so: a driver's     *)
(* files have different base names, and drivers that share a base name     *)
(* never run at once.                                                      *)
NamesApart ==
  \A p \in Procs : \A i \in 1 .. NumFiles(p) :
    /\ \A j \in 1 .. NumFiles(p) : BaseOf(p, j) = BaseOf(p, i) => j = i
    /\ \A q \in Procs \ {p} : \A j \in 1 .. NumFiles(q) :
         BaseOf(q, j) = BaseOf(p, i) => <<p, q>> \in Apart \/ <<q, p>> \in Apart

(* The invariant behind these properties.  Drivers kept apart take turns.  *)
Running(p) == pc[p] \notin {"start", "end", "killed"}
TakeTurns == \A p, q \in Procs : <<p, q>> \in Apart /\ p # q => ~(Running(p) /\ Running(q))

(* The options have been joined once for every file begun.                 *)
Joined(words, n) ==
  CASE n = 0 -> "list"
    [] n = 1 \/ (n > 1 /\ words = <<>>) -> "string"
    [] OTHER -> "garbled"
OptionsRight(p) ==
  pc[p] \in Compiling \cup {"start"} =>
    /\ form[p].gnat = Joined(Parsed[p].gnatOptions,
                            IF pc[p] \in {"start", "llvm_gcc"} THEN file[p] - 1 ELSE file[p])
    /\ form[p].llc = Joined(Parsed[p].llcOptions,
                           IF pc[p] \in {"start", "llvm_gcc", "llc"} THEN file[p] - 1 ELSE file[p])

(* The files of p before the current one are compiled, the current one as  *)
(* far as pc tells, and of those after it nothing lies in the directory    *)
(* unless it is another driver's.  Of a refused file there is nothing      *)
(* either, or it is shared and what there is may be another driver's.      *)
AsmIs(p, content) ==
  IF Refused(p, file[p]) THEN Shared(p, file[p]) \/ dir[S(p)] = Absent ELSE dir[S(p)] = content
Before(p, i) == pc[p] = "msp_gcc" \/ (pc[p] \in Compiling /\ i < file[p])
After(p, i) == pc[p] = "start" \/ (pc[p] \in Compiling /\ i > file[p]) \/ (pc[p] = "llvm_gcc" /\ i = file[p])
Compiled(p, i) ==
  IF Refused(p, i) THEN Shared(p, i) ELSE dir[<<BaseOf(p, i), "s">>] = FreshAsm(p)[i]
Untouched(p, i) ==
  /\ seen[p][i] = 0
  /\ ~Shared(p, i) => dir[<<BaseOf(p, i), "bc">>] = Absent /\ dir[<<BaseOf(p, i), "s">>] = Absent
UnitsRight(p) ==
  /\ pc[p] = "start" => file[p] = 1
  /\ \A i \in 1 .. NumFiles(p) : (Before(p, i) => Compiled(p, i)) /\ (After(p, i) => Untouched(p, i))
  /\ pc[p] = "llc" =>
       /\ IF LlvmGccRefuses(p, file[p]) THEN Shared(p, file[p]) \/ dir[Bc(p)] = Absent
          ELSE dir[Bc(p)] = [kind |-> "bc", source |-> Current(p), version |-> seen[p][file[p]]]
       /\ Shared(p, file[p]) \/ dir[S(p)] = Absent
  /\ pc[p] = "sed" => AsmIs(p, AsmOf(p, file[p], "_ada_main", 0))
  /\ pc[p] = "find" => AsmIs(p, AsmOf(p, file[p], MainName(p), 0))
  /\ pc[p] = "append" =>
       IF Refused(p, file[p]) THEN Shared(p, file[p])
       ELSE /\ dir[S(p)] = AsmOf(p, file[p], MainName(p), 0)
            /\ found[p] <=> Current(p) \in HasElab

(* How the driver will end: with a traceback for what was not compiled.    *)
ExitRight(p) ==
  /\ pc[p] \in Compiling \cup {"start", "msp_gcc"} => exit[p] = 0 /\ object[p] = None
  /\ pc[p] \in {"exists", "remove", "end"} =>
       /\ exit[p] = 1 => \E i \in 1 .. NumFiles(p) : Refused(p, i)
       /\ (\E i \in 1 .. NumFiles(p) : Refused(p, i) /\ ~Shared(p, i)) => exit[p] = 1

(* Only its own files are on a driver's way out, and the one it is about   *)
(* to remove is there.                                                     *)
SweepRight(p) ==
  /\ \A k \in DOMAIN sweep[p] : \E i \in 1 .. NumFiles(p) : sweep[p][k][1] = BaseOf(p, i)
  /\ pc[p] = "remove" => sweep[p] # <<>> /\ dir[Head(sweep[p])] # Absent

(* Every file has a driver that will remove it, or that keeps it.          *)
Owns(p, f) ==
  \/ /\ pc[p] \in Compiling \cup {"msp_gcc"}
     /\ \E i \in 1 .. NumFiles(p) : i <= file[p] /\ f[1] = BaseOf(p, i)
  \/ pc[p] \in {"exists", "remove"} /\ \E k \in DOMAIN sweep[p] : sweep[p][k] = f
  \/ pc[p] \in {"exists", "remove", "end"} /\ Option(p, "keep_intermediates")
  \/ pc[p] = "killed"
FilesHaveOwners == \A f \in Paths : dir[f] # Absent => \E p \in Procs : Owns(p, f)

AdacInv ==
  /\ TypeOK /\ TakeTurns /\ ObjectIsFresh /\ FilesHaveOwners
  /\ \A p \in Procs : OptionsRight(p) /\ UnitsRight(p) /\ ExitRight(p) /\ SweepRight(p)

(* A driver that is not killed comes to its end. *)
EveryDriverEnds == \A p \in Procs : <>Stopped(p)

(* Options for llvm-gcc arrive as they were given, for each Ada file.      *)
(* The code joins the joined string again for the second file.             *)
OptionsArriveAsGiven == \A p \in Procs : form[p].gnat # "garbled"
=============================================================================
