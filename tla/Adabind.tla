------------------------------- MODULE Adabind -------------------------------
(***************************************************************************)
(* The binder msp430-elf-adabind.  gprbuild gives it an exchange file of   *)
(* sections; it replaces the file by one that names an object for each     *)
(* dependency.                                                             *)
(*                                                                         *)
(* A file is a sequence of lines, stripped as the binder strips them: a    *)
(* header with the name of a section, an entry with the base and the       *)
(* extension of a file name, or an empty line.                             *)
(***************************************************************************)
LOCAL INSTANCE Naturals
LOCAL INSTANCE Sequences

Heading(name) == [kind |-> "header", name |-> name]
Entry(base, ext) == [kind |-> "entry", base |-> base, ext |-> ext]
EmptyLine == [kind |-> "empty"]

Line ==
  [kind : {"header"}, name : STRING] \cup [kind : {"entry"}, base : STRING, ext : STRING] \cup {EmptyLine}

\* BexchData: the lines of each section, and the last section; no section and a
\* section without a name are alike for "if self._last_section".
NoData == [sections |-> [name \in {} |-> <<>>], last |-> ""]

\* Fault: a header that comes again does not begin the section anew.
continue_section(data, name) ==
  [sections |-> [n \in DOMAIN data.sections \cup {name} |->
                   IF n \in DOMAIN data.sections THEN data.sections[n] ELSE <<>>],
   last |-> name]

begin_new_section(data, name) ==
  [sections |-> [n \in DOMAIN data.sections \cup {name} |->
                   IF n = name THEN <<>> ELSE data.sections[n]],
   last |-> name]

append_line(data, line) ==
  IF data.last = "" THEN data
  ELSE [sections |-> [data.sections EXCEPT ![data.last] = Append(@, line)], last |-> data.last]

Taken(data, line) ==
  IF line.kind = "header" THEN begin_new_section(data, line.name) ELSE append_line(data, line)

\* line[0] of an empty line raises, so a file with one is never parsed.
Parsed(file) ==
  LET data[k \in 0 .. Len(file)] == IF k = 0 THEN NoData ELSE Taken(data[k - 1], file[k])
  IN  data[Len(file)]

\* os.path.splitext, and the extension of an object.
Object(entry) == Entry(entry.base, ".o")

\* The file of output_data: a dictionary keeps the order of the first headers.
Output(data) ==
  LET dependencies == data.sections["DEPENDENCY FILES"]
  IN  <<Heading("GENERATED OBJECT FILE"), Heading("PROJECT FILES")>>
        \o data.sections["PROJECT FILES"]
        \o <<Heading("BOUND OBJECT FILES")>>
        \o [k \in DOMAIN dependencies |-> Object(dependencies[k])]
        \o <<Heading("GENERATED SOURCE FILES"), Heading("RESULTING OPTIONS"), Heading("RUN PATH OPTION")>>

\* An empty line and a section that is missing raise, before the file is opened
\* for writing.
Raises(file) ==
  \/ \E k \in DOMAIN file : file[k] = EmptyLine
  \/ ~({"PROJECT FILES", "DEPENDENCY FILES"} \subseteq DOMAIN Parsed(file).sections)

\* Fault: the file is opened for writing first.
OpenedFirst(file) ==
  IF Raises(file) THEN [status |-> 1, file |-> <<>>] ELSE [status |-> 0, file |-> Output(Parsed(file))]

Bind(file) ==
  IF Raises(file) THEN [status |-> 1, file |-> file] ELSE [status |-> 0, file |-> Output(Parsed(file))]

\* What a binder that is killed leaves: the file as it was, or, once it is open
\* for writing, what was flushed of the output, the last line whole or cut.
CutLine == Entry("cut", "")
Killed(file) ==
  {file} \cup
    IF Raises(file) THEN {}
    ELSE LET output == Output(Parsed(file))
             written == {SubSeq(output, 1, k) : k \in 0 .. Len(output)}
         IN  written \cup {Append(w, CutLine) : w \in written}
-----------------------------------------------------------------------------
(* What gprbuild relies on.                                                *)

\* The last header of a name stands at start, and end is behind the lines below it.
IsSection(file, name, start, end) ==
  /\ file[start] = Heading(name)
  /\ \A k \in start + 1 .. Len(file) : file[k] # Heading(name)
  /\ \A k \in start + 1 .. end - 1 : file[k].kind # "header"
  /\ end \in DOMAIN file => file[end].kind = "header"

\* The lines below the last header of a name.
Below(file, name) ==
  LET place == CHOOSE p \in (1 .. Len(file)) \X (2 .. Len(file) + 1) :
                 p[1] < p[2] /\ IsSection(file, name, p[1], p[2])
  IN  SubSeq(file, place[1] + 1, place[2] - 1)

\* The binder that succeeds has named one object for each dependency, in their
\* order, and kept the project files; one that fails has left the file alone.
ObjectsAreBound(file) ==
  LET result == Bind(file)
      dependencies == Below(file, "DEPENDENCY FILES")
  IN  IF result.status = 0
        THEN /\ Below(result.file, "PROJECT FILES") = Below(file, "PROJECT FILES")
             /\ Below(result.file, "BOUND OBJECT FILES")
                  = [k \in DOMAIN dependencies |-> Entry(dependencies[k].base, ".o")]
      ELSE result.file = file

\* A binder started on what a killed one left, or on its own output, does what
\* it would have done on the file it was given, or fails.
NoHalfBinding(file) ==
  \A left \in Killed(file) \cup {Bind(file).file} :
    Bind(left).status = 0 => Bind(left) = Bind(file)
=============================================================================
