----------------------------- MODULE AdacProofs -----------------------------
(***************************************************************************)
(* For every set of drivers, sources and command lines with NamesApart and *)
(* whatever llvm-gcc and llc reject: the assembly msp430-elf-gcc reads is  *)
(* that of this run, but for refused files that other drivers compile too, *)
(* nothing is left behind, and the status tells of the refused files.      *)
(* One half of the argument is non-interference: a step of one driver      *)
(* leaves the files of every other alone while that one runs.  The other   *)
(* half follows one driver through its files.                              *)
(***************************************************************************)
EXTENDS Adac, TLAPS

(* The command lines give every driver a finite list of sources. *)
LEMMA Files ==
  ASSUME NEW p \in Procs
  PROVE  /\ NumFiles(p) \in Nat
         /\ \A i \in 1 .. NumFiles(p) : AdaFiles(p)[i] \in Sources
         /\ \A i \in 1 .. NumFiles(p), e \in {"bc", "s", "ali"} : <<BaseOf(p, i), e>> \in Paths
<1>1. AdaFiles(p) \in Seq(Sources)
  BY CommandLineAssumption
<1>2. NumFiles(p) \in Nat /\ \A i \in 1 .. NumFiles(p) : AdaFiles(p)[i] \in Sources
  BY <1>1 DEF NumFiles
<1>. QED
  BY <1>2 DEF BaseOf, Paths

(* What the clean-up visits are the three files of the first n base names. *)
LEMMA VisitedFiles ==
  ASSUME NEW p \in Procs, NEW n \in Nat, n <= NumFiles(p)
  PROVE  /\ Visited(p, n) \in Seq(Paths)
         /\ \A k \in DOMAIN Visited(p, n) :
              \E i \in 1 .. NumFiles(p) : Visited(p, n)[k][1] = BaseOf(p, i)
         /\ ~Option(p, "keep_intermediates") =>
              \A i \in 1 .. n, e \in {"bc", "s", "ali"} :
                \E k \in DOMAIN Visited(p, n) : Visited(p, n)[k] = <<BaseOf(p, i), e>>
<1>1. NumFiles(p) \in Nat
  BY Files
<1>2. CASE Option(p, "keep_intermediates")
  BY <1>2 DEF Visited
<1>3. CASE ~Option(p, "keep_intermediates")
  <2> DEFINE ext == <<"s", "bc", "ali">>
             at(k) == ((k - 1) \div 3) + 1
             of(k) == ((k - 1) % 3) + 1
  <2>1. Visited(p, n) = [k \in 1 .. 3 * n |-> <<BaseOf(p, at(k)), ext[of(k)]>>]
    BY <1>3 DEF Visited
  <2>2. \A k \in 1 .. 3 * n : at(k) \in 1 .. n /\ of(k) \in 1 .. 3
    OBVIOUS
  <2>3. \A j \in 1 .. 3 : ext[j] \in {"bc", "s", "ali"}
    OBVIOUS
  <2>4. \A i \in 1 .. n, j \in 1 .. 3 :
          LET k == 3 * (i - 1) + j IN k \in 1 .. 3 * n /\ at(k) = i /\ of(k) = j
    OBVIOUS
  <2>5. \A e \in {"bc", "s", "ali"} : \E j \in 1 .. 3 : ext[j] = e
    <3>1. ext[1] = "s" /\ ext[2] = "bc" /\ ext[3] = "ali"
      OBVIOUS
    <3>. QED
      BY <3>1
  <2>. HIDE DEF ext, at, of
  <2>6. \A k \in 1 .. 3 * n : <<BaseOf(p, at(k)), ext[of(k)]>> \in Paths
    <3>. TAKE k \in 1 .. 3 * n
    <3>1. at(k) \in 1 .. NumFiles(p) /\ ext[of(k)] \in {"bc", "s", "ali"}
      BY <1>1, <2>2, <2>3
    <3>. QED
      BY <3>1, Files
  <2>7. Visited(p, n) \in Seq(Paths) /\ DOMAIN Visited(p, n) = 1 .. 3 * n
    <3>1. 3 * n \in Nat
      OBVIOUS
    <3>. QED
      BY <2>1, <2>6, <3>1
  <2>8. \A k \in 1 .. 3 * n : \E i \in 1 .. NumFiles(p) : Visited(p, n)[k][1] = BaseOf(p, i)
    <3>. TAKE k \in 1 .. 3 * n
    <3>1. at(k) \in 1 .. NumFiles(p)
      BY <1>1, <2>2
    <3>2. Visited(p, n)[k][1] = BaseOf(p, at(k))
      BY <2>1
    <3>. QED
      BY <3>1, <3>2
  <2>9. ASSUME NEW i \in 1 .. n, NEW e \in {"bc", "s", "ali"}
        PROVE  \E k \in 1 .. 3 * n : Visited(p, n)[k] = <<BaseOf(p, i), e>>
    <3>1. PICK j \in 1 .. 3 : ext[j] = e
      BY <2>5
    <3> DEFINE k == 3 * (i - 1) + j
    <3>2. k \in 1 .. 3 * n /\ at(k) = i /\ of(k) = j
      BY <2>4
    <3>. HIDE DEF k
    <3>3. Visited(p, n)[k] = <<BaseOf(p, at(k)), ext[of(k)]>>
      BY <2>1, <3>2
    <3>. QED
      BY <3>1, <3>2, <3>3
  <2>. QED
    BY <1>3, <2>7, <2>8, <2>9
<1>. QED
  BY <1>2, <1>3
-----------------------------------------------------------------------------
(* What a driver can do to the rest: its own variables, and the files      *)
(* under its own base names while it runs.                                 *)
Mine(q) ==
  /\ version' = version
  /\ \A p \in Procs \ {q} :
       /\ pc'[p] = pc[p] /\ file'[p] = file[p] /\ form'[p] = form[p] /\ found'[p] = found[p]
       /\ sweep'[p] = sweep[p] /\ exit'[p] = exit[p] /\ seen'[p] = seen[p]
       /\ object'[p] = object[p]
  /\ \A f \in Paths :
       dir'[f] # dir[f] => Running(q) /\ \E j \in 1 .. NumFiles(q) : f[1] = BaseOf(q, j)

(* The files of the unit a driver compiles. *)
LEMMA CurrentFile ==
  ASSUME TypeOK, NEW p \in Procs, pc[p] \in Compiling
  PROVE  /\ file[p] \in 1 .. NumFiles(p) /\ Current(p) \in Sources
         /\ Bc(p) = <<BaseOf(p, file[p]), "bc">> /\ Bc(p) \in Paths
         /\ S(p) = <<BaseOf(p, file[p]), "s">> /\ S(p) \in Paths
         /\ Ali(p) = <<BaseOf(p, file[p]), "ali">> /\ Ali(p) \in Paths
         /\ Current(p) = AdaFiles(p)[file[p]]
<1>1. file[p] \in 1 .. NumFiles(p)
  BY Files DEF TypeOK
<1>. QED
  BY <1>1, Files DEF Current, Bc, S, Ali, BaseOf

(* A driver keeps to its own. *)
LEMMA StepIsMine ==
  ASSUME TypeOK, NEW q \in Procs, SweepRight(q), Step(q) \/ Kill(q)
  PROVE  Mine(q)
<1>1. CASE Start(q)
  BY <1>1 DEF Start, Goto, Mine, TypeOK
<1>2. CASE RunLlvmGcc(q)
  <2>1. pc[q] \in Compiling /\ Running(q)
    BY <1>2 DEF RunLlvmGcc, Compiling, Running
  <2>2. \A f \in Paths : dir'[f] # dir[f] => f = Bc(q) \/ f = Ali(q)
    BY <1>2 DEF RunLlvmGcc, TypeOK
  <2>3. \A f \in Paths : dir'[f] # dir[f] => \E j \in 1 .. NumFiles(q) : f[1] = BaseOf(q, j)
    BY <2>1, <2>2, CurrentFile
  <2>4. /\ \A p \in Procs \ {q} : pc'[p] = pc[p] /\ form'[p] = form[p] /\ seen'[p] = seen[p]
        /\ UNCHANGED <<version, file, found, sweep, exit, object>>
    BY <1>2 DEF RunLlvmGcc, Goto, TypeOK
  <2>. QED
    BY <2>1, <2>3, <2>4 DEF Mine
<1>3. CASE RunLlc(q)
  <2>1. pc[q] \in Compiling /\ Running(q)
    BY <1>3 DEF RunLlc, Compiling, Running
  <2>2. \A f \in Paths : dir'[f] # dir[f] => f = S(q)
    BY <1>3 DEF RunLlc, TypeOK
  <2>. QED
    BY <1>3, <2>1, <2>2, CurrentFile DEF RunLlc, Goto, Mine, TypeOK
<1>4. CASE RunSed(q)
  <2>1. pc[q] \in Compiling /\ Running(q)
    BY <1>4 DEF RunSed, Compiling, Running
  <2>2. \A f \in Paths : dir'[f] # dir[f] => f = S(q)
    BY <1>4 DEF RunSed, TypeOK
  <2>. QED
    BY <1>4, <2>1, <2>2, CurrentFile DEF RunSed, Goto, Mine, TypeOK
<1>5. CASE FindConstructors(q)
  BY <1>5 DEF FindConstructors, CleanUp, Goto, Mine, TypeOK
<1>6. CASE Append_init_array(q)
  <2>1. pc[q] \in Compiling /\ Running(q)
    BY <1>6 DEF Append_init_array, Compiling, Running
  <2>2. \A f \in Paths : dir'[f] # dir[f] => f = S(q)
    BY <1>6 DEF Append_init_array, TypeOK
  <2>. QED
    BY <1>6, <2>1, <2>2, CurrentFile DEF Append_init_array, Goto, Mine, TypeOK
<1>7. CASE RunMspGcc(q)
  BY <1>7 DEF RunMspGcc, CleanUp, Goto, Mine, TypeOK
<1>8. CASE CheckExists(q)
  BY <1>8 DEF CheckExists, Goto, Mine, TypeOK
<1>9. CASE RemovePath(q)
  <2>1. Running(q) /\ sweep[q] # <<>> /\ sweep[q] \in Seq(Paths)
    BY <1>9 DEF RemovePath, Running, SweepRight, TypeOK
  <2>2. Head(sweep[q]) = sweep[q][1] /\ 1 \in DOMAIN sweep[q]
    BY <2>1
  <2>3. \A f \in Paths : dir'[f] # dir[f] => f = Head(sweep[q])
    BY <1>9 DEF RemovePath, TypeOK
  <2>4. \E j \in 1 .. NumFiles(q) : Head(sweep[q])[1] = BaseOf(q, j)
    BY <2>2 DEF SweepRight
  <2>. QED
    BY <1>9, <2>1, <2>3, <2>4 DEF RemovePath, Goto, Mine, TypeOK
<1>10. CASE Kill(q)
  BY <1>10 DEF Kill, Goto, Mine, TypeOK
<1>. QED
  BY <1>1, <1>2, <1>3, <1>4, <1>5, <1>6, <1>7, <1>8, <1>9, <1>10 DEF Step

(* So a driver's files stay as they are while it runs, and at any time if  *)
(* no other driver has their base name.                                    *)
LEMMA NotDisturbed ==
  ASSUME NamesApart, TakeTurns, NEW q \in Procs, Mine(q), NEW p \in Procs, p # q,
         NEW i \in 1 .. NumFiles(p), Running(p) \/ ~Shared(p, i)
  PROVE  \A e \in {"bc", "s", "ali"} : dir'[<<BaseOf(p, i), e>>] = dir[<<BaseOf(p, i), e>>]
<1> SUFFICES ASSUME NEW e \in {"bc", "s", "ali"},
                    dir'[<<BaseOf(p, i), e>>] # dir[<<BaseOf(p, i), e>>]
             PROVE  FALSE
  OBVIOUS
<1>1. Running(q) /\ \E j \in 1 .. NumFiles(q) : BaseOf(p, i) = BaseOf(q, j)
  BY Files DEF Mine
<1>2. Shared(p, i)
  BY <1>1 DEF Shared
<1>3. <<p, q>> \in Apart \/ <<q, p>> \in Apart
  BY <1>1 DEF NamesApart
<1>. QED
  BY <1>1, <1>2, <1>3 DEF TakeTurns

(* Whether a file is refused, and what its assembly should be, depends on  *)
(* the version that llvm-gcc was given and on nothing that changes.        *)
LEMMA SameSeen ==
  ASSUME NEW p \in Procs, seen'[p] = seen[p]
  PROVE  /\ FreshAsm(p)' = FreshAsm(p)
         /\ \A i, name, n : AsmOf(p, i, name, n)' = AsmOf(p, i, name, n)
         /\ \A i : /\ LlvmGccRefuses(p, i)' <=> LlvmGccRefuses(p, i)
                   /\ LlcRefuses(p, i)' <=> LlcRefuses(p, i)
                   /\ Refused(p, i)' <=> Refused(p, i)
  BY DEF FreshAsm, AsmOf, Refused, LlvmGccRefuses, LlcRefuses

(* A step of another driver leaves everything the invariant says of p.     *)
LEMMA OthersKeep ==
  ASSUME NamesApart, AdacInv, NEW q \in Procs, Mine(q), NEW p \in Procs, p # q
  PROVE  OptionsRight(p)' /\ UnitsRight(p)' /\ ExitRight(p)' /\ SweepRight(p)'
<1>1. /\ pc'[p] = pc[p] /\ file'[p] = file[p] /\ form'[p] = form[p] /\ found'[p] = found[p]
      /\ sweep'[p] = sweep[p] /\ exit'[p] = exit[p] /\ seen'[p] = seen[p]
      /\ object'[p] = object[p]
  BY DEF Mine
<1>2. TypeOK /\ TakeTurns /\ OptionsRight(p) /\ UnitsRight(p) /\ ExitRight(p) /\ SweepRight(p)
  BY DEF AdacInv
<1>3. OptionsRight(p)'
  BY <1>1, <1>2 DEF OptionsRight
<1>4. ExitRight(p)'
  BY <1>1, <1>2, SameSeen DEF ExitRight
<1>5. SweepRight(p)'
  <2>1. ASSUME pc[p] = "remove"
        PROVE  dir'[Head(sweep[p])] = dir[Head(sweep[p])]
    <3>1. sweep[p] # <<>> /\ sweep[p] \in Seq(Paths) /\ Running(p)
      BY <1>2, <2>1 DEF SweepRight, TypeOK, Running
    <3>2. Head(sweep[p]) = sweep[p][1] /\ 1 \in DOMAIN sweep[p] /\ Head(sweep[p]) \in Paths
      BY <3>1
    <3>3. PICK i \in 1 .. NumFiles(p) : Head(sweep[p])[1] = BaseOf(p, i)
      BY <1>2, <3>2 DEF SweepRight
    <3>4. PICK e \in {"bc", "s", "ali"} : Head(sweep[p]) = <<BaseOf(p, i), e>>
      BY <3>2, <3>3 DEF Paths
    <3>. QED
      BY <1>2, <3>1, <3>4, NotDisturbed
  <2>. QED
    BY <1>1, <1>2, <2>1 DEF SweepRight
<1>6. UnitsRight(p)'
  <2>1. \A i \in 1 .. NumFiles(p) : Before(p, i)' => Compiled(p, i)'
    <3> SUFFICES ASSUME NEW i \in 1 .. NumFiles(p), Before(p, i)' PROVE Compiled(p, i)'
      OBVIOUS
    <3>1. Before(p, i) /\ Running(p)
      BY <1>1 DEF Before, Running, Compiling
    <3>2. Compiled(p, i)
      BY <1>2, <3>1 DEF UnitsRight
    <3>3. dir'[<<BaseOf(p, i), "s">>] = dir[<<BaseOf(p, i), "s">>]
      BY <1>2, <3>1, NotDisturbed
    <3>. QED
      BY <1>1, <3>2, <3>3, SameSeen DEF Compiled
  <2>2. \A i \in 1 .. NumFiles(p) : After(p, i)' => Untouched(p, i)'
    <3> SUFFICES ASSUME NEW i \in 1 .. NumFiles(p), After(p, i)' PROVE Untouched(p, i)'
      OBVIOUS
    <3>1. After(p, i)
      BY <1>1 DEF After
    <3>2. Untouched(p, i)
      BY <1>2, <3>1 DEF UnitsRight
    <3>3. ~Shared(p, i) => /\ dir'[<<BaseOf(p, i), "s">>] = dir[<<BaseOf(p, i), "s">>]
                           /\ dir'[<<BaseOf(p, i), "bc">>] = dir[<<BaseOf(p, i), "bc">>]
      BY <1>2, NotDisturbed
    <3>. QED
      BY <1>1, <3>2, <3>3 DEF Untouched
  <2>3. ASSUME pc[p] \in Compiling
        PROVE  /\ dir'[Bc(p)] = dir[Bc(p)] /\ dir'[S(p)] = dir[S(p)]
               /\ Bc(p)' = Bc(p) /\ S(p)' = S(p) /\ Current(p)' = Current(p)
    <3>1. Running(p)
      BY <2>3 DEF Running, Compiling
    <3>. QED
      BY <1>1, <1>2, <2>3, <3>1, CurrentFile, NotDisturbed DEF Bc, S, Current
  <2>4. pc'[p] = "start" => file'[p] = 1
    BY <1>1, <1>2 DEF UnitsRight
  <2>6. pc'[p] = "llc" =>
          /\ IF LlvmGccRefuses(p, file[p])' THEN Shared(p, file'[p]) \/ dir'[Bc(p)'] = Absent
             ELSE dir'[Bc(p)'] = [kind |-> "bc", source |-> Current(p)', version |-> seen'[p][file'[p]]]
          /\ Shared(p, file'[p]) \/ dir'[S(p)'] = Absent
    BY <1>1, <1>2, <2>3, SameSeen DEF UnitsRight, Compiling
  <2>7. pc'[p] = "sed" => AsmIs(p, AsmOf(p, file[p], "_ada_main", 0))'
    BY <1>1, <1>2, <2>3, SameSeen DEF UnitsRight, Compiling, AsmIs
  <2>8. pc'[p] = "find" => AsmIs(p, AsmOf(p, file[p], MainName(p), 0))'
    BY <1>1, <1>2, <2>3, SameSeen DEF UnitsRight, Compiling, AsmIs
  <2>9. pc'[p] = "append" =>
          IF Refused(p, file[p])' THEN Shared(p, file'[p])
          ELSE /\ dir'[S(p)'] = AsmOf(p, file[p], MainName(p), 0)'
               /\ found'[p] <=> Current(p)' \in HasElab
    BY <1>1, <1>2, <2>3, SameSeen DEF UnitsRight, Compiling
  <2>. QED
    BY <2>1, <2>2, <2>4, <2>6, <2>7, <2>8, <2>9 DEF UnitsRight
<1>. QED
  BY <1>3, <1>4, <1>5, <1>6
-----------------------------------------------------------------------------
(* The conditions on the files of one unit do not meet those on another.   *)
LEMMA OtherUnits ==
  ASSUME NamesApart, NEW p \in Procs, NEW i \in 1 .. NumFiles(p), NEW j \in 1 .. NumFiles(p), i # j
  PROVE  BaseOf(p, i) # BaseOf(p, j)
  BY DEF NamesApart

LEMMA JoinForms ==
  ASSUME NEW f \in Forms, NEW words
  PROVE  Join(f, words) \in Forms
  BY DEF Join, Forms

(* Joining once more is what Joined counts.                                *)
LEMMA JoinedOnceMore ==
  ASSUME NEW words, NEW n \in Nat
  PROVE  Join(Joined(words, n), words) = Joined(words, n + 1)
<1>1. CASE n = 0
  BY <1>1 DEF Join, Joined
<1>2. CASE n > 0
  BY <1>2 DEF Join, Joined
<1>. QED
  BY <1>1, <1>2

(* Every action keeps the types.                                           *)
LEMMA TypesKept ==
  ASSUME TypeOK, NEW p \in Procs, SweepRight(p), Step(p) \/ Kill(p)
  PROVE  TypeOK'
<1>1. NumFiles(p) \in Nat /\ file[p] \in Nat
  BY Files DEF TypeOK
<1>2. CASE Start(p)
  BY <1>1, <1>2 DEF Start, Goto, TypeOK, PC, Compiling
<1>3. CASE RunLlvmGcc(p)
  <2>1. pc[p] = "llvm_gcc" /\ pc[p] \in Compiling
    BY <1>3 DEF RunLlvmGcc, Compiling
  <2>2. Bc(p)[2] = "bc" /\ Ali(p)[2] = "ali"
    BY DEF Bc, Ali
  <2>3. dir' = [f \in Paths |-> dir'[f]] /\ \A f \in Paths : dir'[f] = Absent \/ dir'[f].kind = f[2]
    <3>1. CASE dir' \in {dir, [dir EXCEPT ![Bc(p)] = Absent]}
      BY <3>1 DEF TypeOK
    <3>2. CASE dir' = [dir EXCEPT
              ![Bc(p)] = [kind |-> "bc", source |-> Current(p), version |-> version[Current(p)]],
              ![Ali(p)] = [kind |-> "ali", source |-> Current(p), version |-> version[Current(p)]]]
      BY <2>2, <3>2 DEF TypeOK
    <3>. QED
      BY <1>3, <3>1, <3>2 DEF RunLlvmGcc
  <2>4. form' \in [Procs -> [gnat : Forms, llc : Forms]]
    <3>1. form[p].gnat \in Forms
      BY DEF TypeOK
    <3>2. Join(form[p].gnat, Parsed[p].gnatOptions) \in Forms
      BY <3>1, JoinForms
    <3>. QED
      BY <1>3, <3>2 DEF RunLlvmGcc, TypeOK
  <2>5. seen' = [q \in Procs |-> [i \in 1 .. NumFiles(q) |-> seen'[q][i]]]
    BY <1>3 DEF RunLlvmGcc, TypeOK
  <2>6. pc' \in [Procs -> PC] /\ \A q \in Procs : pc'[q] \in Compiling => pc[q] \in Compiling
    BY <1>3, <2>1 DEF RunLlvmGcc, Goto, TypeOK, PC, Compiling
  <2>7. UNCHANGED <<version, file, found, sweep, exit, object>>
    BY <1>3 DEF RunLlvmGcc
  <2>. QED
    BY <2>3, <2>4, <2>5, <2>6, <2>7 DEF TypeOK
<1>4. CASE RunLlc(p)
  <2>1. pc[p] = "llc" /\ pc[p] \in Compiling
    BY <1>4 DEF RunLlc, Compiling
  <2>2. S(p)[2] = "s"
    BY DEF S
  <2>3. dir' = [f \in Paths |-> dir'[f]] /\ \A f \in Paths : dir'[f] = Absent \/ dir'[f].kind = f[2]
    <3>1. CASE dir' \in {dir, [dir EXCEPT ![S(p)] = Absent]}
      BY <3>1 DEF TypeOK
    <3>2. CASE dir' = [dir EXCEPT ![S(p)] = LlcOutput(p)]
      BY <2>2, <3>2 DEF LlcOutput, TypeOK
    <3>. QED
      BY <1>4, <3>1, <3>2 DEF RunLlc
  <2>4. form' \in [Procs -> [gnat : Forms, llc : Forms]]
    <3>1. form[p].llc \in Forms
      BY DEF TypeOK
    <3>2. Join(form[p].llc, Parsed[p].llcOptions) \in Forms
      BY <3>1, JoinForms
    <3>. QED
      BY <1>4, <3>2 DEF RunLlc, TypeOK
  <2>5. pc' \in [Procs -> PC] /\ \A q \in Procs : pc'[q] \in Compiling => pc[q] \in Compiling
    BY <1>4, <2>1 DEF RunLlc, Goto, TypeOK, PC, Compiling
  <2>6. UNCHANGED <<version, file, found, sweep, exit, seen, object>>
    BY <1>4 DEF RunLlc
  <2>. QED
    BY <2>3, <2>4, <2>5, <2>6 DEF TypeOK
<1>5. CASE RunSed(p)
  <2>1. pc[p] = "sed" /\ pc[p] \in Compiling
    BY <1>5 DEF RunSed, Compiling
  <2>2. S(p)[2] = "s" /\ S(p) \in Paths
    BY <2>1, CurrentFile DEF S
  <2>3. dir' = [f \in Paths |-> dir'[f]] /\ \A f \in Paths : dir'[f] = Absent \/ dir'[f].kind = f[2]
    <3>1. dir[S(p)] # Absent => [dir[S(p)] EXCEPT !.main = "main"].kind = dir[S(p)].kind
      OBVIOUS
    <3>. QED
      BY <1>5, <2>2, <3>1 DEF RunSed, TypeOK
  <2>4. pc' \in [Procs -> PC] /\ \A q \in Procs : pc'[q] \in Compiling => pc[q] \in Compiling
    BY <1>5, <2>1 DEF RunSed, Goto, TypeOK, PC, Compiling
  <2>5. UNCHANGED <<version, file, form, found, sweep, exit, seen, object>>
    BY <1>5 DEF RunSed
  <2>. QED
    BY <2>3, <2>4, <2>5 DEF TypeOK
<1>6. CASE FindConstructors(p)
  <2>1. pc[p] = "find" /\ pc[p] \in Compiling
    BY <1>6 DEF FindConstructors, Compiling
  <2>2. file[p] <= NumFiles(p)
    BY <2>1, CurrentFile
  <2>3. Visited(p, file[p]) \in Seq(Paths)
    BY <1>1, <2>2, VisitedFiles
  <2>4. Constructors(p) \in BOOLEAN
    BY DEF Constructors
  <2>5. pc' \in [Procs -> PC] /\ \A q \in Procs : pc'[q] \in Compiling => pc[q] \in Compiling
    BY <1>6, <2>1 DEF FindConstructors, CleanUp, Goto, TypeOK, PC, Compiling
  <2>6. found' \in [Procs -> BOOLEAN] /\ sweep' \in [Procs -> Seq(Paths)] /\ exit' \in [Procs -> {0, 1}]
    BY <1>6, <2>3, <2>4 DEF FindConstructors, CleanUp, Traceback, TypeOK
  <2>7. UNCHANGED <<version, dir, file, form, seen, object>>
    BY <1>6 DEF FindConstructors
  <2>. QED
    BY <2>5, <2>6, <2>7 DEF TypeOK
<1>7. CASE Append_init_array(p)
  <2>1. pc[p] = "append" /\ pc[p] \in Compiling
    BY <1>7 DEF Append_init_array, Compiling
  <2>2. S(p)[2] = "s" /\ S(p) \in Paths
    BY <2>1, CurrentFile DEF S
  <2>3. dir' = [f \in Paths |-> dir'[f]] /\ \A f \in Paths : dir'[f] = Absent \/ dir'[f].kind = f[2]
    <3>1. WithConstructors(p).kind = "s"
      BY <2>2 DEF TypeOK, WithConstructors, OnlyConstructors
    <3>. QED
      BY <1>7, <2>2, <3>1 DEF TypeOK, Append_init_array
  <2>4. file' \in [Procs -> Nat \ {0}]
    <3>1. NextFile(p) \in Nat \ {0}
      BY <1>1 DEF NextFile
    <3>. QED
      BY <1>7, <3>1 DEF Append_init_array, TypeOK
  <2>5. pc' \in [Procs -> PC]
    <3>1. pc' = [pc EXCEPT ![p] = "llvm_gcc"] \/ pc' = [pc EXCEPT ![p] = "msp_gcc"]
      BY <1>7, Zenon DEF Append_init_array, Goto
    <3>. QED
      BY <3>1 DEF TypeOK, PC, Compiling
  <2>7. \A q \in Procs : file'[q] <= NumFiles(q) \/ (NumFiles(q) = 0 /\ pc'[q] \notin Compiling)
    <3> TAKE q \in Procs
    <3>1. CASE q = p
      BY <1>1, <1>7, <2>1, <3>1, CurrentFile DEF Append_init_array, NextFile, Goto, TypeOK
    <3>2. CASE q # p
      BY <1>7, <3>2 DEF Append_init_array, Goto, TypeOK
    <3>. QED
      BY <3>1, <3>2
  <2>6. UNCHANGED <<version, form, found, sweep, exit, seen, object>>
    BY <1>7 DEF Append_init_array
  <2>. QED
    BY <2>3, <2>4, <2>5, <2>6, <2>7 DEF TypeOK
<1>8. CASE RunMspGcc(p)
  <2>1. Visited(p, NumFiles(p)) \in Seq(Paths)
    BY <1>1, VisitedFiles
  <2>2. pc' \in [Procs -> PC] /\ \A q \in Procs : pc'[q] \in Compiling => pc[q] \in Compiling
    BY <1>8 DEF RunMspGcc, CleanUp, Goto, TypeOK, PC, Compiling
  <2>3. sweep' \in [Procs -> Seq(Paths)]
    BY <1>8, <2>1 DEF RunMspGcc, CleanUp, TypeOK
  <2>4. object' = [q \in Procs |-> object'[q]]
    BY <1>8 DEF RunMspGcc, TypeOK
  <2>5. UNCHANGED <<version, dir, file, form, found, exit, seen>>
    BY <1>8 DEF RunMspGcc
  <2>. QED
    BY <2>2, <2>3, <2>4, <2>5 DEF TypeOK
<1>9. CASE CheckExists(p)
  <2>1. sweep[p] \in Seq(Paths)
    BY DEF TypeOK
  <2>2. pc' \in [Procs -> PC] /\ \A q \in Procs : pc'[q] \in Compiling => pc[q] \in Compiling
    BY <1>9 DEF CheckExists, Goto, TypeOK, PC, Compiling
  <2>3. sweep' \in [Procs -> Seq(Paths)]
    <3>1. sweep[p] # <<>> => Tail(sweep[p]) \in Seq(Paths)
      BY <2>1
    <3>. QED
      BY <1>9, <3>1 DEF CheckExists, TypeOK
  <2>4. UNCHANGED <<version, dir, file, form, found, exit, seen, object>>
    BY <1>9 DEF CheckExists
  <2>. QED
    BY <2>2, <2>3, <2>4 DEF TypeOK
<1>10. CASE RemovePath(p)
  <2>1. sweep[p] \in Seq(Paths) /\ sweep[p] # <<>>
    BY <1>10 DEF TypeOK, RemovePath, SweepRight
  <2>2. pc' \in [Procs -> PC] /\ \A q \in Procs : pc'[q] \in Compiling => pc[q] \in Compiling
    BY <1>10 DEF RemovePath, Goto, TypeOK, PC, Compiling
  <2>3. sweep' \in [Procs -> Seq(Paths)]
    <3>1. Tail(sweep[p]) \in Seq(Paths) /\ <<>> \in Seq(Paths)
      BY <2>1
    <3>. QED
      BY <1>10, <3>1 DEF RemovePath, TypeOK
  <2>4. dir' = [f \in Paths |-> dir'[f]] /\ \A f \in Paths : dir'[f] = Absent \/ dir'[f].kind = f[2]
    BY <1>10 DEF RemovePath, TypeOK
  <2>5. exit' \in [Procs -> {0, 1}]
    BY <1>10 DEF RemovePath, TypeOK, Traceback
  <2>6. UNCHANGED <<version, file, form, found, seen, object>>
    BY <1>10 DEF RemovePath
  <2>. QED
    BY <2>2, <2>3, <2>4, <2>5, <2>6 DEF TypeOK
<1>11. CASE Kill(p)
  <2>1. pc' \in [Procs -> PC] /\ \A q \in Procs : pc'[q] \in Compiling => pc[q] \in Compiling
    BY <1>11 DEF Kill, Goto, TypeOK, PC, Compiling
  <2>. QED
    BY <1>11, <2>1 DEF Kill, TypeOK
<1>. QED
  BY <1>2, <1>3, <1>4, <1>5, <1>6, <1>7, <1>8, <1>9, <1>10, <1>11 DEF Step
-----------------------------------------------------------------------------
(* What the invariant says of one driver, kept by each of its actions.     *)
ObjectRight(p) ==
  object[p] # None =>
    \A i \in 1 .. NumFiles(p) :
      IF Refused(p, i) THEN Shared(p, i) ELSE object[p][1][i] = FreshAsm(p)[i]
Own(p) == OptionsRight(p) /\ UnitsRight(p) /\ ExitRight(p) /\ SweepRight(p) /\ ObjectRight(p)

LEMMA StartKeeps ==
  ASSUME TypeOK, NEW p \in Procs, Own(p), Start(p)
  PROVE  Own(p)'
<1>1. /\ pc[p] = "start" /\ pc'[p] = IF NumFiles(p) > 0 THEN "llvm_gcc" ELSE "msp_gcc"
      /\ UNCHANGED <<version, dir, file, form, found, sweep, exit, seen, object>>
  BY DEF Start, Goto, TypeOK
<1>2. NumFiles(p) \in Nat /\ file[p] = 1
  BY <1>1, Files DEF Own, UnitsRight
<1>3. OptionsRight(p)'
  BY <1>1 DEF Own, OptionsRight, Compiling
<1>4. UnitsRight(p)'
  <2>1. \A i \in 1 .. NumFiles(p) : ~Before(p, i)'
    BY <1>1, <1>2 DEF Before
  <2>2. \A i \in 1 .. NumFiles(p) : Untouched(p, i)'
    BY <1>1 DEF Own, UnitsRight, After, Untouched
  <2>. QED
    BY <1>1, <2>1, <2>2 DEF UnitsRight
<1>5. ExitRight(p)' /\ SweepRight(p)' /\ ObjectRight(p)'
  BY <1>1 DEF Own, ExitRight, SweepRight, ObjectRight, Compiling
<1>. QED
  BY <1>3, <1>4, <1>5 DEF Own

LEMMA RunLlvmGccKeeps ==
  ASSUME NamesApart, TypeOK, NEW p \in Procs, Own(p), RunLlvmGcc(p)
  PROVE  Own(p)'
<1> DEFINE gnat == Join(form[p].gnat, Parsed[p].gnatOptions)
           i0 == file[p]
<1>1. /\ pc[p] = "llvm_gcc" /\ pc'[p] = "llc" /\ pc[p] \in Compiling
      /\ UNCHANGED <<version, file, found, sweep, exit, object>>
  BY DEF RunLlvmGcc, Goto, TypeOK, Compiling
<1>2. /\ i0 \in 1 .. NumFiles(p) /\ NumFiles(p) \in Nat /\ Current(p) \in Sources
      /\ Bc(p) = <<BaseOf(p, i0), "bc">> /\ S(p) = <<BaseOf(p, i0), "s">>
      /\ Ali(p) = <<BaseOf(p, i0), "ali">> /\ {Bc(p), S(p), Ali(p)} \subseteq Paths
      /\ Current(p) = AdaFiles(p)[i0]
      /\ Bc(p)' = Bc(p) /\ S(p)' = S(p) /\ Current(p)' = Current(p)
  BY <1>1, CurrentFile, Files DEF Bc, S, Current
<1>3. /\ form'[p].gnat = gnat /\ form'[p].llc = form[p].llc
      /\ seen'[p][i0] = version[Current(p)] /\ version[Current(p)] \in Nat
      /\ \A i \in 1 .. NumFiles(p) : i # i0 => seen'[p][i] = seen[p][i]
  <2>1. form[p] \in [gnat : Forms, llc : Forms]
    BY DEF TypeOK
  <2>2. form'[p] = [form[p] EXCEPT !.gnat = gnat]
    BY DEF RunLlvmGcc, TypeOK
  <2>3. seen'[p] = [seen[p] EXCEPT ![i0] = version[Current(p)]] /\ DOMAIN seen[p] = 1 .. NumFiles(p)
    BY DEF RunLlvmGcc, TypeOK
  <2>4. version[Current(p)] \in Nat
    BY <1>2, AdacAssumption DEF TypeOK
  <2>. HIDE DEF gnat
  <2>. QED
    BY <1>2, <2>1, <2>2, <2>3, <2>4
<1>4. LlvmGccRefuses(p, i0)' <=> gnat = "garbled" \/ <<p, Current(p), version[Current(p)]>> \in Broken
  <2>1. gnat = Joined(Parsed[p].gnatOptions, i0)
    <3>1. form[p].gnat = Joined(Parsed[p].gnatOptions, i0 - 1) /\ i0 - 1 \in Nat /\ (i0 - 1) + 1 = i0
      BY <1>1, <1>2 DEF Own, OptionsRight
    <3>. QED
      BY <3>1, JoinedOnceMore
  <2>2. gnat = "garbled" <=> i0 > 1 /\ Parsed[p].gnatOptions # <<>>
    BY <1>2, <2>1 DEF Joined
  <2>. HIDE DEF gnat
  <2>. QED
    BY <1>1, <1>2, <1>3, <2>2 DEF LlvmGccRefuses
<1>5. \A f \in Paths : f # Bc(p) /\ f # Ali(p) => dir'[f] = dir[f]
  BY DEF RunLlvmGcc, TypeOK
<1>6. \A i \in 1 .. NumFiles(p), e \in {"bc", "s", "ali"} :
        i # i0 => dir'[<<BaseOf(p, i), e>>] = dir[<<BaseOf(p, i), e>>]
  <2> SUFFICES ASSUME NEW i \in 1 .. NumFiles(p), NEW e \in {"bc", "s", "ali"}, i # i0
               PROVE  dir'[<<BaseOf(p, i), e>>] = dir[<<BaseOf(p, i), e>>]
    OBVIOUS
  <2>. HIDE DEF i0
  <2>1. BaseOf(p, i) # BaseOf(p, i0) /\ <<BaseOf(p, i), e>> \in Paths
    BY <1>2, Files, OtherUnits
  <2>. QED
    BY <1>2, <1>5, <2>1
<1>. HIDE DEF i0
<1>7. OptionsRight(p)'
  <2>1. /\ form[p].gnat = Joined(Parsed[p].gnatOptions, i0 - 1)
        /\ form[p].llc = Joined(Parsed[p].llcOptions, i0 - 1)
    BY <1>1 DEF Own, OptionsRight, i0
  <2>2. gnat = Joined(Parsed[p].gnatOptions, i0)
    <3>1. i0 - 1 \in Nat /\ (i0 - 1) + 1 = i0
      BY <1>2
    <3>. QED
      BY <2>1, <3>1, JoinedOnceMore
  <2>. HIDE DEF gnat
  <2>. QED
    BY <1>1, <1>3, <2>1, <2>2 DEF OptionsRight, i0
<1>8. UnitsRight(p)'
  <2>1. Untouched(p, i0)
    BY <1>1, <1>2 DEF Own, UnitsRight, After, i0
  <2>2. \A i \in 1 .. NumFiles(p) : Before(p, i)' => Compiled(p, i)'
    <3> SUFFICES ASSUME NEW i \in 1 .. NumFiles(p), Before(p, i)' PROVE Compiled(p, i)'
      OBVIOUS
    <3>1. i < i0 /\ i # i0
      BY <1>1, <1>2 DEF Before, i0
    <3>2. Compiled(p, i)
      BY <1>1, <3>1 DEF Own, UnitsRight, Before, i0
    <3>3. seen'[p][i] = seen[p][i] /\ dir'[<<BaseOf(p, i), "s">>] = dir[<<BaseOf(p, i), "s">>]
      BY <1>3, <1>6, <3>1
    <3>. QED
      BY <3>2, <3>3 DEF Compiled, FreshAsm, AsmOf, Refused, LlvmGccRefuses, LlcRefuses
  <2>3. \A i \in 1 .. NumFiles(p) : After(p, i)' => Untouched(p, i)'
    <3> SUFFICES ASSUME NEW i \in 1 .. NumFiles(p), After(p, i)' PROVE Untouched(p, i)'
      OBVIOUS
    <3>1. i > i0 /\ i # i0
      BY <1>1, <1>2 DEF After, i0
    <3>2. Untouched(p, i)
      BY <1>1, <3>1 DEF Own, UnitsRight, After, i0
    <3>. QED
      BY <1>3, <1>6, <3>1, <3>2 DEF Untouched
  <2>4. IF LlvmGccRefuses(p, i0)' THEN Shared(p, i0) \/ dir'[Bc(p)] = Absent
        ELSE dir'[Bc(p)] = [kind |-> "bc", source |-> Current(p), version |-> seen'[p][i0]]
    <3>1. CASE LlvmGccRefuses(p, i0)'
      <4>1. ~Shared(p, i0) => dir[Bc(p)] = Absent
        BY <1>2, <2>1 DEF Untouched
      <4>2. dir' \in {dir, [dir EXCEPT ![Bc(p)] = Absent]}
        BY <1>4, <3>1 DEF RunLlvmGcc
      <4>. QED
        BY <1>2, <3>1, <4>1, <4>2 DEF TypeOK
    <3>2. CASE ~LlvmGccRefuses(p, i0)'
      <4>1. Bc(p) # Ali(p)
        BY <1>2
      <4>2. dir' = [dir EXCEPT
              ![Bc(p)] = [kind |-> "bc", source |-> Current(p), version |-> version[Current(p)]],
              ![Ali(p)] = [kind |-> "ali", source |-> Current(p), version |-> version[Current(p)]]]
        BY <1>4, <3>2 DEF RunLlvmGcc
      <4>. QED
        BY <1>2, <1>3, <3>2, <4>1, <4>2 DEF TypeOK
    <3>. QED
      BY <3>1, <3>2
  <2>5. Shared(p, i0) \/ dir'[S(p)] = Absent
    BY <1>2, <1>5, <2>1 DEF Untouched
  <2>. QED
    BY <1>1, <1>2, <2>2, <2>3, <2>4, <2>5 DEF UnitsRight, i0
<1>9. ExitRight(p)' /\ SweepRight(p)' /\ ObjectRight(p)'
  BY <1>1 DEF Own, ExitRight, SweepRight, ObjectRight, Compiling
<1>. QED
  BY <1>7, <1>8, <1>9 DEF Own

(* A step that writes no file but the current assembly leaves the other    *)
(* units as they are.                                                      *)
LEMMA UnitsKept ==
  ASSUME NamesApart, TypeOK, NEW p \in Procs, pc[p] \in Compiling, seen' = seen,
         \A f \in Paths : f # S(p) => dir'[f] = dir[f]
  PROVE  \A i \in 1 .. NumFiles(p) : i # file[p] =>
           /\ Compiled(p, i) => Compiled(p, i)'
           /\ Untouched(p, i) => Untouched(p, i)'
<1> SUFFICES ASSUME NEW i \in 1 .. NumFiles(p), i # file[p]
             PROVE  /\ Compiled(p, i) => Compiled(p, i)'
                    /\ Untouched(p, i) => Untouched(p, i)'
  OBVIOUS
<1>1. BaseOf(p, i) # BaseOf(p, file[p]) /\ S(p) = <<BaseOf(p, file[p]), "s">>
  BY CurrentFile, OtherUnits
<1>2. <<BaseOf(p, i), "s">> \in Paths /\ <<BaseOf(p, i), "bc">> \in Paths
  BY Files
<1>3. <<BaseOf(p, i), "s">> # S(p) /\ <<BaseOf(p, i), "bc">> # S(p)
  BY <1>1
<1>4. /\ dir'[<<BaseOf(p, i), "s">>] = dir[<<BaseOf(p, i), "s">>]
      /\ dir'[<<BaseOf(p, i), "bc">>] = dir[<<BaseOf(p, i), "bc">>]
  BY <1>2, <1>3
<1>. QED
  BY <1>4, SameSeen DEF Compiled, Untouched

LEMMA RunLlcKeeps ==
  ASSUME NamesApart, TypeOK, NEW p \in Procs, Own(p), RunLlc(p)
  PROVE  Own(p)'
<1> DEFINE llc == Join(form[p].llc, Parsed[p].llcOptions)
           i0 == file[p]
<1>1. /\ pc[p] = "llc" /\ pc'[p] = "sed" /\ pc[p] \in Compiling
      /\ UNCHANGED <<version, file, found, sweep, exit, seen, object>>
  BY DEF RunLlc, Goto, TypeOK, Compiling
<1>2. /\ i0 \in 1 .. NumFiles(p) /\ NumFiles(p) \in Nat
      /\ Bc(p) = <<BaseOf(p, i0), "bc">> /\ S(p) = <<BaseOf(p, i0), "s">>
      /\ Bc(p) \in Paths /\ S(p) \in Paths /\ S(p)' = S(p)
      /\ Current(p) = AdaFiles(p)[i0] /\ Current(p)' = Current(p)
  BY <1>1, CurrentFile, Files DEF S, Current
<1>3. form'[p].gnat = form[p].gnat /\ form'[p].llc = llc
  <2>1. form[p] \in [gnat : Forms, llc : Forms] /\ form'[p] = [form[p] EXCEPT !.llc = llc]
    BY DEF TypeOK, RunLlc
  <2>. HIDE DEF llc
  <2>. QED
    BY <2>1
<1>4. \A f \in Paths : f # S(p) => dir'[f] = dir[f]
  BY DEF RunLlc, TypeOK
<1>5. llc = Joined(Parsed[p].llcOptions, i0) /\ OptionsRight(p)'
  <2>1. /\ form[p].gnat = Joined(Parsed[p].gnatOptions, i0)
        /\ form[p].llc = Joined(Parsed[p].llcOptions, i0 - 1)
    BY <1>1 DEF Own, OptionsRight
  <2>2. llc = Joined(Parsed[p].llcOptions, i0)
    <3>1. i0 - 1 \in Nat /\ (i0 - 1) + 1 = i0
      BY <1>2
    <3>. QED
      BY <2>1, <3>1, JoinedOnceMore
  <2>. HIDE DEF llc
  <2>. QED
    BY <1>1, <1>3, <2>1, <2>2 DEF OptionsRight
<1>6. UnitsRight(p)'
  <2>. DEFINE bc == dir[Bc(p)]
              asm == AsmOf(p, i0, "_ada_main", 0)
              fails == llc = "garbled" \/ bc = Absent \/ <<p, bc.source, bc.version>> \in LlcFails
  <2>1. /\ IF LlvmGccRefuses(p, i0) THEN Shared(p, i0) \/ bc = Absent
           ELSE bc = [kind |-> "bc", source |-> Current(p), version |-> seen[p][i0]]
        /\ Shared(p, i0) \/ dir[S(p)] = Absent
    BY <1>1 DEF Own, UnitsRight
  <2>2. llc = "garbled" <=> i0 > 1 /\ Parsed[p].llcOptions # <<>>
    BY <1>2, <1>5 DEF Joined
  <2>3. asm = [kind |-> "s", source |-> Current(p), version |-> seen[p][i0],
               main |-> "_ada_main", ctors |-> 0]
    BY <1>2 DEF AsmOf
  <2>4. IF fails THEN dir' \in {dir, [dir EXCEPT ![S(p)] = Absent]}
        ELSE dir' = [dir EXCEPT ![S(p)] = LlcOutput(p)]
    BY DEF RunLlc
  <2>5. IF Refused(p, i0) THEN Shared(p, i0) \/ dir'[S(p)] = Absent ELSE dir'[S(p)] = asm
    <3>1. CASE LlvmGccRefuses(p, i0)
      <4>1. Shared(p, i0) \/ fails
        BY <2>1, <3>1
      <4>. HIDE DEF fails
      <4>2. Shared(p, i0) \/ dir'[S(p)] = Absent
        BY <1>2, <2>1, <2>4, <4>1 DEF TypeOK
      <4>. QED
        BY <3>1, <4>2 DEF Refused
    <3>2. CASE ~LlvmGccRefuses(p, i0)
      <4>1. bc = [kind |-> "bc", source |-> Current(p), version |-> seen[p][i0]]
        BY <2>1, <3>2
      <4>2. bc # Absent /\ bc.source = Current(p) /\ bc.version = seen[p][i0]
        BY <4>1 DEF Absent
      <4>3. LlcRefuses(p, i0) <=> fails
        BY <1>2, <2>2, <4>2 DEF LlcRefuses
      <4>4. LlcOutput(p) = asm
        BY <2>3, <4>2 DEF LlcOutput
      <4>. HIDE DEF fails, asm
      <4>5. CASE LlcRefuses(p, i0)
        <5>1. Shared(p, i0) \/ dir'[S(p)] = Absent
          BY <1>2, <2>1, <2>4, <4>3, <4>5 DEF TypeOK
        <5>. QED
          BY <4>5, <5>1 DEF Refused
      <4>6. CASE ~LlcRefuses(p, i0)
        <5>1. dir'[S(p)] = asm
          BY <1>2, <2>4, <4>3, <4>4, <4>6 DEF TypeOK
        <5>. QED
          BY <3>2, <4>6, <5>1 DEF Refused
      <4>. QED
        BY <4>5, <4>6
    <3>. QED
      BY <3>1, <3>2
  <2>6. \A i \in 1 .. NumFiles(p) : /\ Before(p, i)' => i # i0 /\ Before(p, i)
                                    /\ After(p, i)' => i # i0 /\ After(p, i)
    BY <1>1, <1>2 DEF Before, After, Compiling
  <2>7. \A i \in 1 .. NumFiles(p) : /\ Before(p, i)' => Compiled(p, i)'
                                    /\ After(p, i)' => Untouched(p, i)'
    <3>1. \A i \in 1 .. NumFiles(p) : i # i0 =>
            (Compiled(p, i) => Compiled(p, i)') /\ (Untouched(p, i) => Untouched(p, i)')
      BY <1>1, <1>4, UnitsKept
    <3>2. \A i \in 1 .. NumFiles(p) : (Before(p, i) => Compiled(p, i)) /\ (After(p, i) => Untouched(p, i))
      BY DEF Own, UnitsRight
    <3>. QED
      BY <2>6, <3>1, <3>2
  <2>8. pc'[p] = "sed" => AsmIs(p, AsmOf(p, file[p], "_ada_main", 0))'
    BY <1>1, <1>2, <2>5, SameSeen DEF AsmIs
  <2>. QED
    BY <1>1, <2>7, <2>8 DEF UnitsRight
<1>7. ExitRight(p)' /\ SweepRight(p)' /\ ObjectRight(p)'
  BY <1>1 DEF Own, ExitRight, SweepRight, ObjectRight, Compiling
<1>. QED
  BY <1>5, <1>6, <1>7 DEF Own

LEMMA RunSedKeeps ==
  ASSUME NamesApart, TypeOK, NEW p \in Procs, Own(p), RunSed(p)
  PROVE  Own(p)'
<1> DEFINE i0 == file[p]
<1>1. /\ pc[p] = "sed" /\ pc'[p] = "find" /\ pc[p] \in Compiling
      /\ UNCHANGED <<version, file, form, found, sweep, exit, seen, object>>
  BY DEF RunSed, Goto, TypeOK, Compiling
<1>2. /\ i0 \in 1 .. NumFiles(p) /\ NumFiles(p) \in Nat /\ S(p) \in Paths
      /\ S(p)' = S(p) /\ Current(p) = AdaFiles(p)[i0]
  BY <1>1, CurrentFile, Files DEF S, Current
<1>3. \A f \in Paths : f # S(p) => dir'[f] = dir[f]
  BY DEF RunSed, TypeOK
<1>4. OptionsRight(p)'
  BY <1>1 DEF Own, OptionsRight, Compiling
<1>5. UnitsRight(p)'
  <2>. DEFINE before == AsmOf(p, i0, "_ada_main", 0)
              asm == AsmOf(p, i0, MainName(p), 0)
  <2>2. IF Refused(p, i0) THEN Shared(p, i0) \/ dir[S(p)] = Absent ELSE dir[S(p)] = before
    BY <1>1 DEF Own, UnitsRight, AsmIs
  <2>3. before # Absent /\ asm = IF Option(p, "keep_ada_main") THEN before ELSE [before EXCEPT !.main = "main"]
    BY DEF AsmOf, MainName, Absent
  <2>4. IF Refused(p, i0) THEN Shared(p, i0) \/ dir'[S(p)] = Absent ELSE dir'[S(p)] = asm
    <3>1. CASE Refused(p, i0)
      BY <2>2, <3>1 DEF RunSed
    <3>2. CASE ~Refused(p, i0)
      <4>1. dir[S(p)] = before /\ dir[S(p)] # Absent
        BY <2>2, <2>3, <3>2
      <4>2. dir' = IF Option(p, "keep_ada_main") THEN dir
                   ELSE [dir EXCEPT ![S(p)] = [before EXCEPT !.main = "main"]]
        BY <4>1 DEF RunSed
      <4>. HIDE DEF before, asm
      <4>. QED
        BY <1>2, <2>3, <3>2, <4>1, <4>2 DEF TypeOK
    <3>. QED
      BY <3>1, <3>2
  <2>5. \A i \in 1 .. NumFiles(p) : /\ Before(p, i)' => i # i0 /\ Before(p, i)
                                    /\ After(p, i)' => i # i0 /\ After(p, i)
    BY <1>1, <1>2 DEF Before, After, Compiling
  <2>6. \A i \in 1 .. NumFiles(p) : /\ Before(p, i)' => Compiled(p, i)'
                                    /\ After(p, i)' => Untouched(p, i)'
    <3>1. \A i \in 1 .. NumFiles(p) : i # i0 =>
            (Compiled(p, i) => Compiled(p, i)') /\ (Untouched(p, i) => Untouched(p, i)')
      BY <1>1, <1>3, UnitsKept
    <3>2. \A i \in 1 .. NumFiles(p) : (Before(p, i) => Compiled(p, i)) /\ (After(p, i) => Untouched(p, i))
      BY DEF Own, UnitsRight
    <3>. QED
      BY <2>5, <3>1, <3>2
  <2>7. pc'[p] = "find" => AsmIs(p, AsmOf(p, file[p], MainName(p), 0))'
    BY <1>1, <1>2, <2>4, SameSeen DEF AsmIs
  <2>. QED
    BY <1>1, <2>6, <2>7 DEF UnitsRight
<1>6. ExitRight(p)' /\ SweepRight(p)' /\ ObjectRight(p)'
  BY <1>1 DEF Own, ExitRight, SweepRight, ObjectRight, Compiling
<1>. QED
  BY <1>4, <1>5, <1>6 DEF Own

LEMMA FindConstructorsKeeps ==
  ASSUME NamesApart, TypeOK, NEW p \in Procs, Own(p), FindConstructors(p)
  PROVE  Own(p)'
<1> DEFINE i0 == file[p]
           asm == AsmOf(p, i0, MainName(p), 0)
<1>1. /\ pc[p] = "find" /\ pc[p] \in Compiling
      /\ UNCHANGED <<version, dir, file, form, seen, object>>
  BY DEF FindConstructors, Compiling
<1>2. /\ i0 \in 1 .. NumFiles(p) /\ NumFiles(p) \in Nat
      /\ S(p)' = S(p) /\ Current(p) = AdaFiles(p)[i0] /\ Current(p)' = Current(p)
  BY <1>1, CurrentFile, Files DEF S, Current
<1>3. IF Refused(p, i0) THEN Shared(p, i0) \/ dir[S(p)] = Absent ELSE dir[S(p)] = asm
  BY <1>1 DEF Own, UnitsRight, AsmIs
<1>4. asm # Absent /\ asm.source = AdaFiles(p)[i0]
  BY DEF AsmOf, Absent
<1>5. \A i \in 1 .. NumFiles(p) : Refused(p, i)' <=> Refused(p, i)
  BY <1>1, SameSeen
<1>6. \A i \in 1 .. NumFiles(p) : (Compiled(p, i)' <=> Compiled(p, i)) /\ (Untouched(p, i)' <=> Untouched(p, i))
  BY <1>1, SameSeen DEF Compiled, Untouched
<1>7. ObjectRight(p)'
  BY <1>1, SameSeen DEF Own, ObjectRight
<1>8. CASE dir[S(p)] = Absent
  <2>1. /\ exit'[p] = 1 /\ pc'[p] = "exists" /\ sweep'[p] = Visited(p, file[p])
    BY <1>8 DEF FindConstructors, CleanUp, Goto, Traceback, TypeOK
  <2>2. Refused(p, i0)
    BY <1>3, <1>4, <1>8
  <2>3. OptionsRight(p)'
    BY <2>1 DEF OptionsRight, Compiling
  <2>4. UnitsRight(p)'
    BY <2>1 DEF UnitsRight, Before, After, Compiling
  <2>5. ExitRight(p)'
    BY <1>2, <1>5, <2>1, <2>2 DEF ExitRight, Compiling
  <2>6. SweepRight(p)'
    BY <1>2, <2>1, VisitedFiles DEF SweepRight
  <2>. QED
    BY <1>7, <2>3, <2>4, <2>5, <2>6 DEF Own
<1>9. CASE dir[S(p)] # Absent
  <2>1. /\ pc'[p] = "append" /\ found'[p] = Constructors(p) /\ UNCHANGED <<exit, sweep>>
    BY <1>9 DEF FindConstructors, Goto, TypeOK
  <2>2. IF Refused(p, i0) THEN Shared(p, i0) ELSE dir[S(p)] = asm
    BY <1>3, <1>9
  <2>3. OptionsRight(p)'
    BY <1>1, <2>1 DEF Own, OptionsRight, Compiling
  <2>4. UnitsRight(p)'
    <3>1. \A i \in 1 .. NumFiles(p) : (Before(p, i)' <=> Before(p, i)) /\ (After(p, i)' <=> After(p, i))
      BY <1>1, <2>1 DEF Before, After, Compiling
    <3>2. \A i \in 1 .. NumFiles(p) : (Before(p, i)' => Compiled(p, i)') /\ (After(p, i)' => Untouched(p, i)')
      BY <1>6, <3>1 DEF Own, UnitsRight
    <3>3. Refused(p, i0)' => Shared(p, i0)
      BY <1>1, <1>2, <1>5, <2>2
    <3>4. ASSUME ~Refused(p, i0)'
          PROVE  /\ dir'[S(p)'] = AsmOf(p, file[p], MainName(p), 0)'
                 /\ found'[p] <=> Current(p)' \in HasElab
      <4>1. dir[S(p)] = asm
        BY <1>1, <1>2, <1>5, <2>2, <3>4
      <4>2. found'[p] <=> Current(p) \in HasElab
        BY <1>2, <1>4, <2>1, <4>1 DEF Constructors
      <4>. QED
        BY <1>1, <1>2, <4>1, <4>2, SameSeen
    <3>. QED
      BY <1>1, <2>1, <3>2, <3>3, <3>4 DEF UnitsRight
  <2>5. ExitRight(p)' /\ SweepRight(p)'
    BY <1>1, <2>1 DEF Own, ExitRight, SweepRight, Compiling
  <2>. QED
    BY <1>7, <2>3, <2>4, <2>5 DEF Own
<1>. QED
  BY <1>8, <1>9

LEMMA AppendKeeps ==
  ASSUME NamesApart, TypeOK, NEW p \in Procs, Own(p), Append_init_array(p)
  PROVE  Own(p)'
<1> DEFINE i0 == file[p]
<1>1. /\ pc[p] = "append" /\ pc[p] \in Compiling
      /\ UNCHANGED <<version, form, found, sweep, exit, seen, object>>
  BY DEF Append_init_array, Compiling
<1>2. /\ i0 \in 1 .. NumFiles(p) /\ NumFiles(p) \in Nat /\ S(p) \in Paths
      /\ S(p) = <<BaseOf(p, i0), "s">> /\ Current(p) = AdaFiles(p)[i0]
  BY <1>1, CurrentFile, Files
<1>3. \/ pc'[p] = "llvm_gcc" /\ file'[p] = i0 + 1 /\ i0 < NumFiles(p)
      \/ pc'[p] = "msp_gcc" /\ file'[p] = i0 /\ i0 = NumFiles(p)
  <2>1. CASE i0 < NumFiles(p)
    BY <2>1 DEF Append_init_array, NextFile, Goto, TypeOK
  <2>2. CASE ~(i0 < NumFiles(p))
    BY <1>2, <2>2 DEF Append_init_array, Goto, TypeOK
  <2>. QED
    BY <2>1, <2>2
<1>4. \A f \in Paths : f # S(p) => dir'[f] = dir[f]
  BY DEF Append_init_array, TypeOK
<1>5. OptionsRight(p)'
  BY <1>1, <1>2, <1>3 DEF Own, OptionsRight, Compiling
<1>6. ExitRight(p)' /\ SweepRight(p)' /\ ObjectRight(p)'
  BY <1>1, <1>3 DEF Own, ExitRight, SweepRight, ObjectRight, Compiling
<1>7. ASSUME NEW i \in 1 .. NumFiles(p), i = file[p]
      PROVE  Compiled(p, i)'
  <2> SUFFICES ASSUME ~Refused(p, i)
               PROVE  Compiled(p, i)'
    BY <1>1, <1>7, SameSeen DEF Own, UnitsRight, Compiled
  <2>1. dir[S(p)] = AsmOf(p, i, MainName(p), 0) /\ (found[p] <=> Current(p) \in HasElab)
    BY <1>1, <1>7 DEF Own, UnitsRight
  <2>2. dir'[S(p)] = AsmOf(p, i, MainName(p), IF AdaFiles(p)[i] \in HasElab THEN 1 ELSE 0)
    <3>1. CASE found[p]
      <4>1. WithConstructors(p) = AsmOf(p, i, MainName(p), 1)
        <5>1. dir[S(p)] # Absent
          BY <2>1 DEF AsmOf, Absent
        <5>. QED
          BY <2>1, <5>1 DEF WithConstructors, AsmOf
      <4>2. dir'[S(p)] = WithConstructors(p)
        BY <1>2, <3>1 DEF Append_init_array, TypeOK
      <4>. QED
        BY <1>2, <1>7, <2>1, <3>1, <4>1, <4>2
    <3>2. CASE ~found[p]
      BY <1>2, <1>7, <2>1, <3>2 DEF Append_init_array
    <3>. QED
      BY <3>1, <3>2
  <2>3. FreshAsm(p)'[i] = AsmOf(p, i, MainName(p), IF AdaFiles(p)[i] \in HasElab THEN 1 ELSE 0)
    BY <1>1, <1>2 DEF FreshAsm, AsmOf
  <2>5. dir'[<<BaseOf(p, i), "s">>] = FreshAsm(p)'[i]
    BY <1>2, <1>7, <2>2, <2>3
  <2>. QED
    BY <1>1, <2>5, SameSeen DEF Compiled
<1>8. UnitsRight(p)'
  <2>1. \A i \in 1 .. NumFiles(p) : i # i0 =>
          (Compiled(p, i) => Compiled(p, i)') /\ (Untouched(p, i) => Untouched(p, i)')
    BY <1>1, <1>4, UnitsKept
  <2>2. \A i \in 1 .. NumFiles(p) : (Before(p, i) => Compiled(p, i)) /\ (After(p, i) => Untouched(p, i))
    BY DEF Own, UnitsRight
  <2>3. \A i \in 1 .. NumFiles(p) : (Before(p, i)' => i = i0 \/ Before(p, i))
                                  /\ (After(p, i)' => i # i0 /\ After(p, i))
    BY <1>1, <1>2, <1>3 DEF Before, After, Compiling
  <2>4. \A i \in 1 .. NumFiles(p) : Before(p, i)' => Compiled(p, i)'
    <3> SUFFICES ASSUME NEW i \in 1 .. NumFiles(p), Before(p, i)' PROVE Compiled(p, i)'
      OBVIOUS
    <3>1. CASE i # i0
      BY <2>1, <2>2, <2>3, <3>1
    <3>2. CASE i = i0
      BY <1>7, <3>2
    <3>. QED
      BY <3>1, <3>2
  <2>5. \A i \in 1 .. NumFiles(p) : After(p, i)' => Untouched(p, i)'
    BY <2>1, <2>2, <2>3
  <2>. QED
    BY <1>3, <2>4, <2>5 DEF UnitsRight
<1>. QED
  BY <1>5, <1>6, <1>8 DEF Own

LEMMA RunMspGccKeeps ==
  ASSUME NamesApart, TypeOK, NEW p \in Procs, Own(p), RunMspGcc(p)
  PROVE  Own(p)'
<1>1. /\ pc[p] = "msp_gcc" /\ pc'[p] = "exists" /\ sweep'[p] = Visited(p, NumFiles(p))
      /\ UNCHANGED <<version, dir, file, form, found, exit, seen>>
  BY DEF RunMspGcc, CleanUp, Goto, TypeOK
<1>2. \A i \in 1 .. NumFiles(p) : Compiled(p, i)
  BY <1>1 DEF Own, UnitsRight, Before
<1>3. OptionsRight(p)' /\ UnitsRight(p)'
  BY <1>1 DEF OptionsRight, UnitsRight, Before, After, Compiling
<1>4. SweepRight(p)'
  <2>1. NumFiles(p) \in Nat /\ NumFiles(p) <= NumFiles(p)
    BY Files
  <2>2. \A k \in DOMAIN Visited(p, NumFiles(p)) :
          \E i \in 1 .. NumFiles(p) : Visited(p, NumFiles(p))[k][1] = BaseOf(p, i)
    BY <2>1, VisitedFiles
  <2>. QED
    BY <1>1, <2>2 DEF SweepRight
<1>5. ExitRight(p)'
  <2>1. exit[p] = 0 /\ \A i \in 1 .. NumFiles(p) : Refused(p, i) => Shared(p, i)
    BY <1>1, <1>2 DEF Compiled, Own, ExitRight
  <2>. QED
    BY <1>1, <2>1, SameSeen DEF ExitRight, Compiling
<1>6. ObjectRight(p)'
  <2> DEFINE asm == [i \in 1 .. NumFiles(p) |-> dir[<<BaseOf(p, i), "s">>]]
  <2>1. \A i \in 1 .. NumFiles(p) : IF Refused(p, i) THEN Shared(p, i) ELSE asm[i] = FreshAsm(p)[i]
    BY <1>2 DEF Compiled
  <2>2. object'[p] = <<asm>> \/ object'[p] = object[p]
    BY DEF RunMspGcc, TypeOK
  <2>. HIDE DEF asm
  <2>. QED
    BY <1>1, <2>1, <2>2, SameSeen DEF Own, ObjectRight
<1>. QED
  BY <1>3, <1>4, <1>5, <1>6 DEF Own

LEMMA TailOf ==
  ASSUME NEW s \in Seq(Paths), s # <<>>
  PROVE  /\ Head(s) = s[1] /\ 1 \in DOMAIN s
         /\ \A k \in DOMAIN Tail(s) : k + 1 \in DOMAIN s /\ Tail(s)[k] = s[k + 1]
         /\ \A k \in DOMAIN s : k # 1 => k - 1 \in DOMAIN Tail(s) /\ Tail(s)[k - 1] = s[k]
  OBVIOUS

LEMMA CheckExistsKeeps ==
  ASSUME TypeOK, NEW p \in Procs, Own(p), CheckExists(p)
  PROVE  Own(p)'
<1>1. /\ pc[p] = "exists" /\ pc'[p] \in {"exists", "remove", "end"}
      /\ UNCHANGED <<version, dir, file, form, found, exit, seen, object>>
  BY DEF CheckExists, Goto, TypeOK
<1>2. OptionsRight(p)' /\ UnitsRight(p)'
  BY <1>1 DEF Own, OptionsRight, UnitsRight, Before, After, Compiling
<1>3. ExitRight(p)' /\ ObjectRight(p)'
  BY <1>1, SameSeen DEF Own, ExitRight, ObjectRight, Compiling
<1>4. SweepRight(p)'
  <2>1. sweep[p] \in Seq(Paths)
    BY DEF TypeOK
  <2>2. CASE sweep'[p] = sweep[p]
    <3>1. pc'[p] = "remove" => sweep[p] # <<>> /\ dir[Head(sweep[p])] # Absent
      BY <1>1 DEF CheckExists, Goto, TypeOK
    <3>. QED
      BY <1>1, <2>2, <3>1 DEF Own, SweepRight
  <2>3. CASE sweep'[p] # sweep[p]
    <3>1. sweep[p] # <<>> /\ sweep'[p] = Tail(sweep[p]) /\ pc'[p] = "exists"
      BY <1>1, <2>3 DEF CheckExists, TypeOK
    <3>. QED
      BY <2>1, <3>1, TailOf DEF Own, SweepRight
  <2>. QED
    BY <2>2, <2>3
<1>. QED
  BY <1>2, <1>3, <1>4 DEF Own

LEMMA RemovePathKeeps ==
  ASSUME TypeOK, NEW p \in Procs, Own(p), RemovePath(p)
  PROVE  /\ Own(p)'
         /\ dir' = [dir EXCEPT ![Head(sweep[p])] = Absent]
         /\ pc'[p] = "exists" /\ sweep'[p] = Tail(sweep[p])
<1>1. /\ pc[p] = "remove" /\ sweep[p] # <<>> /\ dir[Head(sweep[p])] # Absent
      /\ sweep[p] \in Seq(Paths)
  BY DEF RemovePath, Own, SweepRight, TypeOK
<1>2. /\ dir' = [dir EXCEPT ![Head(sweep[p])] = Absent]
      /\ pc'[p] = "exists" /\ sweep'[p] = Tail(sweep[p])
      /\ UNCHANGED <<version, file, form, found, exit, seen, object>>
  BY <1>1 DEF RemovePath, Goto, TypeOK
<1>3. OptionsRight(p)' /\ UnitsRight(p)'
  BY <1>2 DEF Own, OptionsRight, UnitsRight, Before, After, Compiling
<1>4. ExitRight(p)' /\ ObjectRight(p)'
  BY <1>1, <1>2, SameSeen DEF Own, ExitRight, ObjectRight, Compiling
<1>5. SweepRight(p)'
  BY <1>1, <1>2, TailOf DEF Own, SweepRight
<1>. QED
  BY <1>2, <1>3, <1>4, <1>5 DEF Own

LEMMA KillKeeps ==
  ASSUME TypeOK, NEW p \in Procs, Own(p), Kill(p)
  PROVE  Own(p)'
<1>1. pc'[p] = "killed" /\ UNCHANGED <<version, dir, file, form, found, sweep, exit, seen, object>>
  BY DEF Kill, Goto, TypeOK
<1>2. OptionsRight(p)' /\ UnitsRight(p)'
  BY <1>1 DEF Own, OptionsRight, UnitsRight, Before, After, Compiling
<1>3. ExitRight(p)' /\ SweepRight(p)' /\ ObjectRight(p)'
  BY <1>1, SameSeen DEF Own, ExitRight, SweepRight, ObjectRight, Compiling
<1>. QED
  BY <1>2, <1>3 DEF Own

LEMMA ActorKeeps ==
  ASSUME NamesApart, TypeOK, NEW p \in Procs, Own(p), Step(p) \/ Kill(p)
  PROVE  Own(p)'
  BY StartKeeps, RunLlvmGccKeeps, RunLlcKeeps, RunSedKeeps, FindConstructorsKeeps, AppendKeeps,
     RunMspGccKeeps, CheckExistsKeeps, RemovePathKeeps, KillKeeps DEF Step
-----------------------------------------------------------------------------
(* Drivers kept apart go on taking turns: one starts when the other is not *)
(* running, and no other step makes a driver run.                          *)
LEMMA TurnsKept ==
  ASSUME TypeOK, TakeTurns, NEW p \in Procs, Mine(p), Step(p) \/ Kill(p)
  PROVE  TakeTurns'
<1>1. \A q \in Procs : q # p => (Running(q)' <=> Running(q))
  BY DEF Mine, Running
<1>2. CASE Start(p)
  <2>1. \A q \in Procs : <<p, q>> \in Apart \/ <<q, p>> \in Apart => ~Running(q)
    BY <1>2 DEF Start, Running
  <2>. QED
    BY <1>1, <2>1 DEF TakeTurns
<1>3. CASE ~Start(p)
  <2>1. Running(p)
    BY <1>3 DEF Step, Kill, RunLlvmGcc, RunLlc, RunSed, FindConstructors, Append_init_array,
                RunMspGcc, CheckExists, RemovePath, Running
  <2>. QED
    BY <1>1, <2>1 DEF TakeTurns
<1>. QED
  BY <1>2, <1>3

(* Every file goes on having a driver that removes it or keeps it.         *)
LEMMA OwnersKept ==
  ASSUME TypeOK, FilesHaveOwners, NEW p \in Procs, Own(p), Mine(p), Step(p) \/ Kill(p)
  PROVE  FilesHaveOwners'
<1> SUFFICES ASSUME NEW f \in Paths, dir'[f] # Absent
             PROVE  \E q \in Procs : Owns(q, f)'
  BY DEF FilesHaveOwners
<1>1. \A q \in Procs : q # p /\ Owns(q, f) => Owns(q, f)'
  BY DEF Mine, Owns
<1>2. /\ NumFiles(p) \in Nat /\ file[p] \in Nat /\ sweep[p] \in Seq(Paths)
      /\ f[2] \in {"bc", "s", "ali"} /\ f = <<f[1], f[2]>>
  BY Files DEF TypeOK, Paths
<1>3. Owns(p, f) => Owns(p, f)'
  <2> SUFFICES ASSUME Owns(p, f) PROVE Owns(p, f)'
    OBVIOUS
  <2>1. CASE Start(p)
    BY <2>1 DEF Owns, Start, Compiling
  <2>2. CASE RunLlvmGcc(p)
    BY <2>2 DEF Owns, RunLlvmGcc, Goto, TypeOK, Compiling
  <2>3. CASE RunLlc(p)
    BY <2>3 DEF Owns, RunLlc, Goto, TypeOK, Compiling
  <2>4. CASE RunSed(p)
    BY <2>4 DEF Owns, RunSed, Goto, TypeOK, Compiling
  <2>5. CASE FindConstructors(p)
    <3>1. PICK i \in 1 .. NumFiles(p) : i <= file[p] /\ f[1] = BaseOf(p, i)
      BY <2>5 DEF Owns, FindConstructors
    <3>2. CASE dir[S(p)] = Absent
      <4>1. /\ pc'[p] = "exists" /\ sweep'[p] = Visited(p, file[p]) /\ file[p] <= NumFiles(p)
        BY <2>5, <3>2, CurrentFile DEF FindConstructors, CleanUp, Goto, TypeOK, Compiling
      <4>2. ~Option(p, "keep_intermediates") =>
              \E k \in DOMAIN Visited(p, file[p]) : Visited(p, file[p])[k] = <<BaseOf(p, i), f[2]>>
        <5>1. i \in 1 .. file[p]
          BY <1>2, <3>1
        <5>. QED
          BY <1>2, <4>1, <5>1, VisitedFiles
      <4>. QED
        BY <1>2, <3>1, <4>1, <4>2 DEF Owns
    <3>3. CASE dir[S(p)] # Absent
      <4>1. pc'[p] = "append" /\ file' = file
        BY <2>5, <3>3 DEF FindConstructors, Goto, TypeOK
      <4>. QED
        BY <3>1, <4>1 DEF Owns, Compiling
    <3>. QED
      BY <3>2, <3>3
  <2>6. CASE Append_init_array(p)
    <3>1. PICK i \in 1 .. NumFiles(p) : i <= file[p] /\ f[1] = BaseOf(p, i)
      BY <2>6 DEF Owns, Append_init_array
    <3>2. pc'[p] \in {"llvm_gcc", "msp_gcc"} /\ (file'[p] = file[p] \/ file'[p] = file[p] + 1)
      <4>1. CASE file[p] < NumFiles(p)
        BY <2>6, <4>1 DEF Append_init_array, NextFile, Goto, TypeOK
      <4>2. CASE ~(file[p] < NumFiles(p))
        BY <2>6, <4>2 DEF Append_init_array, Goto, TypeOK
      <4>. QED
        BY <4>1, <4>2
    <3>3. i <= file'[p]
      BY <1>2, <3>1, <3>2
    <3>. QED
      BY <3>1, <3>2, <3>3 DEF Owns, Compiling
  <2>7. CASE RunMspGcc(p)
    <3>1. PICK i \in 1 .. NumFiles(p) : f[1] = BaseOf(p, i)
      BY <2>7 DEF Owns, RunMspGcc
    <3>2. pc'[p] = "exists" /\ sweep'[p] = Visited(p, NumFiles(p))
      BY <2>7 DEF RunMspGcc, CleanUp, Goto, TypeOK
    <3>3. ~Option(p, "keep_intermediates") =>
            \E k \in DOMAIN Visited(p, NumFiles(p)) : Visited(p, NumFiles(p))[k] = <<BaseOf(p, i), f[2]>>
      <4>1. NumFiles(p) <= NumFiles(p)
        BY <1>2
      <4>. QED
        BY <1>2, <4>1, VisitedFiles
    <3>. QED
      BY <1>2, <3>1, <3>2, <3>3 DEF Owns
  <2>8. CASE CheckExists(p)
    <3>1. pc[p] = "exists" /\ pc'[p] \in {"exists", "remove", "end"} /\ dir' = dir
      BY <2>8 DEF CheckExists, Goto, TypeOK
    <3>2. CASE Option(p, "keep_intermediates")
      BY <3>1, <3>2 DEF Owns
    <3>3. CASE ~Option(p, "keep_intermediates")
      <4>1. PICK k \in DOMAIN sweep[p] : sweep[p][k] = f
        BY <3>1, <3>3 DEF Owns, Compiling
      <4>2. sweep[p] # <<>>
        BY <1>2, <4>1
      <4>3. CASE dir[Head(sweep[p])] = Absent
        <5>1. sweep'[p] = Tail(sweep[p]) /\ pc'[p] = "exists"
          BY <2>8, <4>2, <4>3 DEF CheckExists, TypeOK
        <5>2. k # 1
          BY <1>2, <3>1, <4>1, <4>2, <4>3, TailOf
        <5>3. k - 1 \in DOMAIN Tail(sweep[p]) /\ Tail(sweep[p])[k - 1] = f
          BY <1>2, <4>1, <4>2, <5>2, TailOf
        <5>. QED
          BY <5>1, <5>3 DEF Owns
      <4>4. CASE dir[Head(sweep[p])] # Absent
        <5>1. sweep' = sweep /\ pc'[p] = "remove"
          BY <2>8, <4>2, <4>4 DEF CheckExists, Goto, TypeOK
        <5>. QED
          BY <4>1, <5>1 DEF Owns
      <4>. QED
        BY <4>3, <4>4
    <3>. QED
      BY <3>2, <3>3
  <2>9. CASE RemovePath(p)
    <3>1. /\ dir' = [dir EXCEPT ![Head(sweep[p])] = Absent] /\ pc[p] = "remove" /\ sweep[p] # <<>>
          /\ pc'[p] = "exists" /\ sweep'[p] = Tail(sweep[p])
      BY <2>9, RemovePathKeeps DEF RemovePath, Own, SweepRight
    <3>2. CASE Option(p, "keep_intermediates")
      BY <3>1, <3>2 DEF Owns
    <3>3. CASE ~Option(p, "keep_intermediates")
      <4>1. PICK k \in DOMAIN sweep[p] : sweep[p][k] = f
        BY <3>1, <3>3 DEF Owns, Compiling
      <4>2. k # 1
        BY <1>2, <3>1, <4>1, TailOf DEF TypeOK
      <4>3. k - 1 \in DOMAIN Tail(sweep[p]) /\ Tail(sweep[p])[k - 1] = f
        BY <1>2, <3>1, <4>1, <4>2, TailOf
      <4>. QED
        BY <3>1, <4>3 DEF Owns
    <3>. QED
      BY <3>2, <3>3
  <2>10. CASE Kill(p)
    BY <2>10 DEF Kill, Goto, TypeOK, Owns
  <2>. QED
    BY <2>1, <2>2, <2>3, <2>4, <2>5, <2>6, <2>7, <2>8, <2>9, <2>10 DEF Step
<1>4. CASE dir[f] # Absent
  BY <1>1, <1>3, <1>4 DEF FilesHaveOwners
<1>5. CASE dir[f] = Absent
  <2>1. dir'[f] # dir[f]
    BY <1>5
  <2>2. RunLlvmGcc(p) \/ RunLlc(p) \/ RunSed(p) \/ Append_init_array(p)
    <3>1. CASE RemovePath(p)
      BY <1>2, <1>5, <2>1, <3>1, RemovePathKeeps DEF TypeOK
    <3>2. CASE Start(p) \/ FindConstructors(p) \/ RunMspGcc(p) \/ CheckExists(p) \/ Kill(p)
      BY <2>1, <3>2 DEF Start, FindConstructors, RunMspGcc, CheckExists, Kill
    <3>. QED
      BY <3>1, <3>2 DEF Step
  <2>3. pc[p] \in Compiling
    BY <2>2 DEF RunLlvmGcc, RunLlc, RunSed, Append_init_array, Compiling
  <2>4. /\ file[p] \in 1 .. NumFiles(p) /\ Bc(p)[1] = BaseOf(p, file[p])
        /\ S(p)[1] = BaseOf(p, file[p]) /\ Ali(p)[1] = BaseOf(p, file[p])
    BY <2>3, CurrentFile
  <2>5. f = Bc(p) \/ f = Ali(p) \/ f = S(p)
    <3>1. CASE RunLlvmGcc(p)
      BY <2>1, <3>1 DEF RunLlvmGcc, TypeOK
    <3>2. CASE RunLlc(p) \/ RunSed(p) \/ Append_init_array(p)
      BY <2>1, <3>2 DEF RunLlc, RunSed, Append_init_array, TypeOK
    <3>. QED
      BY <2>2, <3>1, <3>2
  <2>6. pc'[p] \in Compiling \cup {"msp_gcc"} /\ (file'[p] = file[p] \/ file'[p] = file[p] + 1)
    <3>1. CASE RunLlvmGcc(p)
      BY <3>1 DEF RunLlvmGcc, Goto, TypeOK, Compiling
    <3>2. CASE RunLlc(p) \/ RunSed(p)
      BY <3>2 DEF RunLlc, RunSed, Goto, TypeOK, Compiling
    <3>3. CASE Append_init_array(p) /\ file[p] < NumFiles(p)
      BY <3>3 DEF Append_init_array, NextFile, Goto, TypeOK, Compiling
    <3>4. CASE Append_init_array(p) /\ ~(file[p] < NumFiles(p))
      BY <3>4 DEF Append_init_array, Goto, TypeOK, Compiling
    <3>. QED
      BY <2>2, <3>1, <3>2, <3>3, <3>4
  <2>7. file[p] <= file'[p] /\ f[1] = BaseOf(p, file[p])
    BY <1>2, <2>4, <2>5, <2>6
  <2>. QED
    BY <2>4, <2>6, <2>7 DEF Owns
<1>. QED
  BY <1>4, <1>5
-----------------------------------------------------------------------------
LEMMA AdacInvInit == Init => AdacInv
<1> SUFFICES ASSUME Init PROVE AdacInv
  OBVIOUS
<1>1. \A p \in Procs : /\ pc[p] = "start" /\ file[p] = 1 /\ exit[p] = 0 /\ sweep[p] = <<>>
                       /\ form[p].gnat = "list" /\ form[p].llc = "list" /\ object[p] = None
  BY DEF Init
<1>2. TypeOK
  <2>1. \A p \in Procs : NumFiles(p) \in Nat
    BY Files
  <2>2. version \in [Sources -> 1 .. MaxVersion]
    BY AdacAssumption DEF Init
  <2>3. dir = [f \in Paths |-> dir[f]] /\ \A f \in Paths : dir[f] = Absent \/ dir[f].kind = f[2]
    BY DEF Init
  <2>4. /\ pc \in [Procs -> PC] /\ file \in [Procs -> Nat \ {0}] /\ found \in [Procs -> BOOLEAN]
        /\ form \in [Procs -> [gnat : Forms, llc : Forms]] /\ exit \in [Procs -> {0, 1}]
    BY DEF Init, PC, Forms, Compiling
  <2>5. sweep \in [Procs -> Seq(Paths)]
    <3>1. <<>> \in Seq(Paths)
      OBVIOUS
    <3>. QED
      BY <3>1 DEF Init
  <2>6. \A p \in Procs : file[p] <= NumFiles(p) \/ (NumFiles(p) = 0 /\ pc[p] \notin Compiling)
    BY <1>1, <2>1 DEF Compiling
  <2>7. /\ seen = [p \in Procs |-> [i \in 1 .. NumFiles(p) |-> seen[p][i]]]
        /\ object = [p \in Procs |-> object[p]]
    BY DEF Init
  <2>. QED
    BY <2>2, <2>3, <2>4, <2>5, <2>6, <2>7 DEF TypeOK
<1>3. TakeTurns /\ ObjectIsFresh /\ FilesHaveOwners
  BY <1>1 DEF TakeTurns, Running, ObjectIsFresh, FilesHaveOwners, Init
<1>4. ASSUME NEW p \in Procs
      PROVE  OptionsRight(p) /\ UnitsRight(p) /\ ExitRight(p) /\ SweepRight(p)
  <2>1. \A i \in 1 .. NumFiles(p) : Untouched(p, i)
    <3> TAKE i \in 1 .. NumFiles(p)
    <3>1. <<BaseOf(p, i), "bc">> \in Paths /\ <<BaseOf(p, i), "s">> \in Paths
      BY Files
    <3>. QED
      BY <3>1 DEF Init, Untouched
  <2>2. UnitsRight(p)
    BY <1>1, <2>1 DEF UnitsRight, Before, Compiling
  <2>3. OptionsRight(p) /\ ExitRight(p) /\ SweepRight(p)
    BY <1>1 DEF OptionsRight, Joined, ExitRight, SweepRight, Compiling
  <2>. QED
    BY <2>2, <2>3
<1>. QED
  BY <1>2, <1>3, <1>4 DEF AdacInv

(* An edit changes no file a driver made, and a driver compares what it    *)
(* made with the version it gave to llvm-gcc.                              *)
LEMMA EditKeeps ==
  ASSUME AdacInv, UNCHANGED vars \/ \E s \in Sources : Edit(s)
  PROVE  AdacInv'
<1>1. /\ UNCHANGED <<dir, pc, file, form, found, sweep, exit, seen, object>>
      /\ version' \in [Sources -> 1 .. MaxVersion]
  <2>1. MaxVersion \in Nat /\ version \in [Sources -> 1 .. MaxVersion]
    BY AdacAssumption DEF AdacInv, TypeOK
  <2>2. CASE UNCHANGED vars
    BY <2>1, <2>2 DEF vars
  <2>3. CASE \E s \in Sources : Edit(s)
    BY <2>1, <2>3 DEF Edit
  <2>. QED
    BY <2>2, <2>3
<1>2. TypeOK' /\ TakeTurns' /\ FilesHaveOwners'
  BY <1>1 DEF AdacInv, TypeOK, TakeTurns, Running, FilesHaveOwners, Owns
<1>3. ObjectIsFresh'
  BY <1>1, SameSeen DEF AdacInv, ObjectIsFresh
<1>4. ASSUME NEW p \in Procs
      PROVE  OptionsRight(p)' /\ UnitsRight(p)' /\ ExitRight(p)' /\ SweepRight(p)'
  <2>1. OptionsRight(p) /\ UnitsRight(p) /\ ExitRight(p) /\ SweepRight(p)
    BY DEF AdacInv
  <2>2. OptionsRight(p)' /\ ExitRight(p)' /\ SweepRight(p)'
    BY <1>1, <2>1, SameSeen DEF OptionsRight, ExitRight, SweepRight
  <2>3. UnitsRight(p)'
    BY <1>1, <2>1, SameSeen DEF UnitsRight, Before, After, Compiled, Untouched, AsmIs, Bc, S, Current
  <2>. QED
    BY <2>2, <2>3
<1>. QED
  BY <1>2, <1>3, <1>4 DEF AdacInv

LEMMA AdacInvStep ==
  ASSUME NamesApart, AdacInv, [Next]_vars
  PROVE  AdacInv'
<1>1. ASSUME NEW q \in Procs, Step(q) \/ Kill(q)
      PROVE  AdacInv'
  <2>1. TypeOK /\ TakeTurns /\ FilesHaveOwners /\ SweepRight(q)
    BY DEF AdacInv
  <2>2. \A p \in Procs : Own(p)
    BY DEF AdacInv, Own, ObjectRight, ObjectIsFresh
  <2>3. Mine(q)
    BY <1>1, <2>1, StepIsMine
  <2>4. Own(q)'
    BY <1>1, <2>1, <2>2, ActorKeeps
  <2>5. ASSUME NEW p \in Procs, p # q
        PROVE  Own(p)'
    <3>1. OptionsRight(p)' /\ UnitsRight(p)' /\ ExitRight(p)' /\ SweepRight(p)'
      BY <2>3, <2>5, OthersKeep
    <3>2. object'[p] = object[p] /\ seen'[p] = seen[p]
      BY <2>3, <2>5 DEF Mine
    <3>3. ObjectRight(p)'
      BY <2>2, <3>2, SameSeen DEF Own, ObjectRight
    <3>. QED
      BY <3>1, <3>3 DEF Own
  <2>6. TypeOK' /\ TakeTurns' /\ FilesHaveOwners'
    BY <1>1, <2>1, <2>2, <2>3, TypesKept, TurnsKept, OwnersKept
  <2>7. \A p \in Procs : Own(p)'
    BY <2>4, <2>5
  <2>. QED
    BY <2>6, <2>7 DEF AdacInv, Own, ObjectRight, ObjectIsFresh
<1>2. CASE UNCHANGED vars \/ \E s \in Sources : Edit(s)
  BY <1>2, EditKeeps
<1>. QED
  BY <1>1, <1>2 DEF Next, AllStopped

(* The invariant: drivers take turns where they share a name, every file   *)
(* has an owner, and each driver is as far with its files, its options and *)
(* its exit status as its program counter says (adac:142-161).             *)
THEOREM AdacInvariant ==
  ASSUME NamesApart
  PROVE  Spec => []AdacInv
<1>1. Init => AdacInv
  BY AdacInvInit
<1>2. AdacInv /\ [Next]_vars => AdacInv'
  BY AdacInvStep
<1>. QED
  BY <1>1, <1>2, PTL DEF Spec

(* For any number of drivers, files and edits and whatever llvm-gcc and    *)
(* llc reject, msp430-elf-gcc reads the assembly this run made of the      *)
(* sources as llvm-gcc read them, with every constructor entered once; it  *)
(* reads another driver's only for a refused file they share (adac:67).    *)
THEOREM ObjectsAreFresh ==
  ASSUME NamesApart
  PROVE  Spec => []ObjectIsFresh
<1>1. AdacInv => ObjectIsFresh
  BY DEF AdacInv
<1>. QED
  BY <1>1, AdacInvariant, PTL

(* When every driver has come to its end by itself, and none was told to   *)
(* keep them, no intermediate file is left (README: keep_intermediates).   *)
THEOREM NothingIsLeftBehind ==
  ASSUME NamesApart
  PROVE  Spec => []NothingLeftBehind
<1>1. AdacInv => NothingLeftBehind
  BY DEF AdacInv, NothingLeftBehind, FilesHaveOwners, Owns, Compiling
<1>. QED
  BY <1>1, AdacInvariant, PTL

(* A driver fails only if llvm-gcc or llc refused one of its files, and    *)
(* fails whenever they refused one that no other driver compiles.          *)
THEOREM StatusIsTrue ==
  ASSUME NamesApart
  PROVE  Spec => []StatusTells
<1>1. AdacInv => StatusTells
  BY DEF AdacInv, ExitRight, StatusTells
<1>. QED
  BY <1>1, AdacInvariant, PTL
=============================================================================
