---------------------------- MODULE DriverProofs ----------------------------
(***************************************************************************)
(* Proofs of the properties of Driver, for every set of paths and every    *)
(* number of sources.                                                      *)
(***************************************************************************)
EXTENDS Driver, TLAPS

----------------------------------------------------------------------------
(* The inductive invariant.                                                *)

\* The exit code is set at the end; the sources before src are processed.
Control ==
  /\ (exit = -1) <=> (pc # "done")
  /\ pc = "main" => src = 1
  /\ pc \in {"build", "open", "print"} => src <= cmd.sources
  /\ pc = "print" => out \in Output /\ CanOpen(out)
  /\ \A s \in failed \cup skipped : s < src

\* A file is as it was, or was written for an option that names it.
Provenance ==
  \A p \in Path :
    \/ file[p] = Old
    \/ /\ file[p].by # 0
       /\ p \in cmd.openable
       /\ cmd.path[file[p].out] = p

\* A file is not ahead of the program.
NotAhead ==
  \A p \in Path :
    /\ file[p].by <= src
    /\ file[p].by = src =>
         /\ pc \in {"open", "print", "done"}
         /\ pc = "open" => file[p].out < out
         /\ pc = "print" => file[p].out <= out

\* The outputs before n of the source s are written, or reported.
WrittenUpTo(s, n) ==
  \A o \in Output : o < n =>
    /\ CanOpen(o) => file[cmd.path[o]].by = s /\ file[cmd.path[o]].out >= o
    /\ Wanted(o) /\ ~CanOpen(o) => cmd.path[o] \in reported

\* What the current source has written, and the one before it.
Progress ==
  /\ pc \in {"open", "print"} => WrittenUpTo(src, out)
  /\ pc = "print" =>
       file[cmd.path[out]].by = src /\ file[cmd.path[out]].out = out
  /\ pc = "parse" /\ src # 1 /\ (src - 1) \notin failed \cup skipped =>
       WrittenUpTo(src - 1, 5)

\* Only the file that is printed is unfinished; TornOnlyByDeath without the exit
\* code of a run that goes on.
Torn ==
  \A p \in Path : ~file[p].complete =>
    /\ p = cmd.path[out]
    /\ pc = "print" \/ (pc = "done" /\ exit = 1)

IInv ==
  /\ TypeOK
  /\ Control
  /\ Provenance
  /\ NotAhead
  /\ Progress
  /\ Torn
  /\ OnlyTranslationsWritten
  /\ EarlierOutputsFresh
  /\ SuccessMeansWritten

----------------------------------------------------------------------------
(* The initial states.                                                     *)

\* Before main starts every file is as it was.
LEMMA InitIInv == Init => IInv
<1> SUFFICES ASSUME Init PROVE IInv
  OBVIOUS
<1> USE DriverAssumption DEF Init, Old
<1>1. cmd.sources \in Nat /\ cmd.sources >= 1
  BY DEF Command
<1>2. TypeOK
  BY <1>1 DEF TypeOK, Content, Output
<1>3. Control
  BY DEF Control
<1>4. Provenance /\ NotAhead /\ Torn
  BY DEF Provenance, NotAhead, Torn
<1>5. Progress
  BY DEF Progress
<1>6. OnlyTranslationsWritten /\ EarlierOutputsFresh /\ SuccessMeansWritten
  BY DEF OnlyTranslationsWritten, EarlierOutputsFresh, SuccessMeansWritten
<1> QED
  BY <1>2, <1>3, <1>4, <1>5, <1>6 DEF IInv

----------------------------------------------------------------------------
(* Steps that do not write.                                                *)

\* What TypeOK says of the numbers.
LEMMA Numbers ==
  ASSUME TypeOK
  PROVE  /\ cmd.sources \in Nat /\ cmd.sources >= 1
         /\ src \in Nat /\ out \in Nat
         /\ \A p \in Path : /\ file[p].by \in Nat /\ file[p].out \in Output
                            /\ file[p].complete \in BOOLEAN
         /\ \A o \in Output : cmd.path[o] \in Path \cup {NoPath}
         /\ cmd.openable \subseteq Path
BY DriverAssumption DEF TypeOK, Command, Content, Output

\* die(), and the returns of main that follow no source, end a run without success.
LEMMA ReturnStep ==
  ASSUME IInv, NEW code \in {0, 1}, Return(code),
         \/ code = 1 /\ pc \in {"main", "parse", "build", "print"}
         \/ code = 0 /\ pc = "main" /\ cmd.version
  PROVE  IInv'
<1> USE DEF IInv, Return
<1>1. TypeOK'
  BY DEF TypeOK
<1>2. Control'
  BY DEF Control, CanOpen
<1>3. Provenance' /\ NotAhead'
  BY DEF Provenance, NotAhead
<1>4. Progress'
  BY DEF Progress
<1>5. Torn'
  BY DEF Torn
<1>6. OnlyTranslationsWritten' /\ EarlierOutputsFresh'
  BY DEF OnlyTranslationsWritten, EarlierOutputsFresh, CanOpen
<1>7. SuccessMeansWritten'
  BY DEF SuccessMeansWritten
<1> QED
  BY <1>1, <1>2, <1>3, <1>4, <1>5, <1>6, <1>7

\* The end of the run: what the last source has written is what success promises.
LEMMA ExitStep ==
  ASSUME IInv, Exit
  PROVE  IInv'
<1> USE DEF IInv, Exit, Return
<1>0. /\ cmd.sources \in Nat /\ cmd.sources >= 1 /\ src = cmd.sources + 1
      /\ pc = "parse" /\ pc' = "done"
  BY Numbers DEF TypeOK
<1>1. TypeOK'
  BY DEF TypeOK
<1>2. Control'
  BY DEF Control
<1>3. Provenance' /\ NotAhead'
  BY DEF Provenance, NotAhead
<1>4. Progress'
  BY DEF Progress
<1>5. Torn'
  BY DEF Torn
<1>6. OnlyTranslationsWritten' /\ EarlierOutputsFresh'
  BY DEF OnlyTranslationsWritten, EarlierOutputsFresh, CanOpen
<1>7. SuccessMeansWritten'
  <2> SUFFICES ASSUME exit' = 0, NEW p \in Path
               PROVE  IF Writers(p) # {} /\ p \in cmd.openable
                      THEN /\ file[p].by = cmd.sources
                           /\ file[p].complete
                           /\ file[p].out \in Writers(p)
                           /\ \A o \in Writers(p) : o <= file[p].out
                      ELSE file[p] = Old /\ (Writers(p) # {} => p \in reported)
    BY DEF SuccessMeansWritten, Writers
  <2>1. failed = {} /\ skipped = {}
    OBVIOUS
  <2>2. WrittenUpTo(cmd.sources, 5)
    BY <1>0, <2>1 DEF Progress
  <2>3. \A o \in Writers(p) : o \in Output /\ cmd.path[o] = p /\ o < 5
    BY DEF Writers, Output
  <2>4. CASE Writers(p) # {} /\ p \in cmd.openable
    <3>1. \A o \in Writers(p) : file[p].by = cmd.sources /\ file[p].out >= o
      BY <2>2, <2>3, <2>4 DEF WrittenUpTo, CanOpen
    <3>2. file[p].by = cmd.sources /\ file[p].by # 0
      BY <1>0, <2>4, <3>1
    <3>3. file[p].out \in Writers(p)
      BY <3>2, Numbers DEF Provenance, Writers, Old
    <3>4. file[p].complete
      BY <1>0 DEF Torn
    <3> QED
      BY <2>3, <2>4, <3>1, <3>2, <3>3, <3>4, Numbers DEF Output
  <2>5. CASE ~(Writers(p) # {} /\ p \in cmd.openable)
    <3>1. file[p] = Old
      BY <2>5, Numbers DEF Provenance, Writers
    <3>2. Writers(p) # {} => p \in reported
      BY <2>2, <2>3, <2>5, DriverAssumption DEF WrittenUpTo, CanOpen, Wanted
    <3> QED
      BY <2>5, <3>1, <3>2
  <2> QED
    BY <2>4, <2>5
<1> QED
  BY <1>1, <1>2, <1>3, <1>4, <1>5, <1>6, <1>7

\* A source that is rejected or skipped.
LEMMA PassOverStep ==
  ASSUME IInv, pc = "parse", pc' = "parse", src <= cmd.sources, src' = src + 1,
         \/ failed' = failed \cup {src} /\ skipped' = skipped
         \/ skipped' = skipped \cup {src} /\ failed' = failed,
         UNCHANGED <<cmd, out, file, reported, exit>>
  PROVE  IInv'
<1> USE DEF IInv
<1>0. /\ cmd.sources \in Nat /\ src \in Nat /\ src \in 1..cmd.sources
      /\ \A p \in Path : file[p].by \in Nat /\ file[p].by < src
      /\ src \in failed' \cup skipped'
  <2>1. /\ cmd.sources \in Nat /\ src \in Nat /\ src >= 1
        /\ \A p \in Path : file[p].by \in Nat
    BY Numbers DEF TypeOK
  <2>2. \A p \in Path : file[p].by < src
    BY <2>1 DEF NotAhead
  <2> QED
    BY <2>1, <2>2
<1>1. TypeOK'
  <2>1. src' \in 1..(cmd.sources + 1)
    BY <1>0
  <2>2. failed' \subseteq 1..cmd.sources /\ skipped' \subseteq 1..cmd.sources
    BY <1>0 DEF TypeOK
  <2> QED
    BY <2>1, <2>2 DEF TypeOK
<1>2. Control'
  <2>1. \A s \in failed' \cup skipped' : s < src'
    BY <1>0 DEF Control, TypeOK
  <2> QED
    BY <2>1 DEF Control
<1>3. Provenance' /\ Torn'
  BY DEF Provenance, Torn
<1>4. NotAhead'
  BY <1>0 DEF NotAhead
<1>5. Progress'
  BY <1>0 DEF Progress
<1>6. OnlyTranslationsWritten'
  BY <1>0 DEF OnlyTranslationsWritten
<1>7. EarlierOutputsFresh' /\ SuccessMeansWritten'
  BY DEF EarlierOutputsFresh, CanOpen, SuccessMeansWritten, Control
<1> QED
  BY <1>1, <1>2, <1>3, <1>4, <1>5, <1>6, <1>7

\* The program goes on to parse, to build the module, or to the first output.
LEMMA AdvanceStep ==
  ASSUME IInv,
         \/ Run
         \/ pc = "parse" /\ src <= cmd.sources /\ pc' = "build" /\ out' = out
         \/ pc = "build" /\ pc' = "open" /\ out' = 1,
         UNCHANGED <<cmd, src, file, failed, skipped, reported, exit>>
  PROVE  IInv'
<1> USE DEF IInv, Run
<1>0. /\ pc \in {"main", "parse", "build"} /\ pc' \in {"parse", "build", "open"}
      /\ pc' = "parse" => src = 1
      /\ pc' = "open" => out' = 1
      /\ out' \in {out, 1}
  BY DEF Control
<1>1. TypeOK'
  BY <1>0 DEF TypeOK
<1>2. Control'
  BY <1>0 DEF Control
<1>3. Provenance' /\ NotAhead'
  BY <1>0, Numbers DEF Provenance, NotAhead
<1>4. Progress'
  BY <1>0 DEF Progress, WrittenUpTo, Output
<1>5. Torn'
  BY <1>0 DEF Torn
<1>6. OnlyTranslationsWritten' /\ EarlierOutputsFresh' /\ SuccessMeansWritten'
  BY <1>0 DEF OnlyTranslationsWritten, EarlierOutputsFresh, SuccessMeansWritten,
              CanOpen, Control
<1> QED
  BY <1>1, <1>2, <1>3, <1>4, <1>5, <1>6

\* An output that is not asked for, or whose path cannot be opened.
LEMMA OmitStep ==
  ASSUME IInv, Omit \/ CannotOpen
  PROVE  IInv'
<1> USE DEF IInv, Omit, CannotOpen
<1>0. /\ pc = "open" /\ pc' = "open" /\ out \in Output /\ out' = out + 1
      /\ UNCHANGED <<cmd, src, file, failed, skipped, exit>>
      /\ reported \subseteq reported'
      /\ ~CanOpen(out)
      /\ Wanted(out) => cmd.path[out] \in reported'
  BY Numbers, DriverAssumption DEF CanOpen, Wanted
<1>1. TypeOK'
  BY <1>0, Numbers DEF TypeOK, Output, Wanted
<1>2. Control'
  BY <1>0 DEF Control
<1>3. Provenance'
  BY <1>0 DEF Provenance
<1>4. NotAhead'
  BY <1>0, Numbers DEF NotAhead, Output
<1>5. Progress'
  BY <1>0 DEF Progress, WrittenUpTo, Output, CanOpen, Wanted
<1>6. Torn'
  BY <1>0 DEF Torn
<1>7. OnlyTranslationsWritten' /\ EarlierOutputsFresh' /\ SuccessMeansWritten'
  BY <1>0 DEF OnlyTranslationsWritten, EarlierOutputsFresh, SuccessMeansWritten,
              CanOpen, Control
<1> QED
  BY <1>1, <1>2, <1>3, <1>4, <1>5, <1>6, <1>7

----------------------------------------------------------------------------
(* Steps that write.                                                       *)

\* A file is opened and truncated.
LEMMA OpenStep ==
  ASSUME IInv, Open
  PROVE  IInv'
<1> USE DEF IInv, Open
<1> DEFINE q == cmd.path[out]
           new == [by |-> src, out |-> out, complete |-> FALSE]
<1>0. /\ q \in Path /\ q \in cmd.openable /\ out \in Output /\ src \in Nat /\ src # 0
      /\ file' = [p \in Path |-> IF p = q THEN new ELSE file[p]]
      /\ src \notin failed \cup skipped
  <2>1. q \in Path /\ q \in cmd.openable /\ out \in Output
    BY Numbers DEF CanOpen
  <2>2. src \in Nat /\ src # 0
    BY Numbers DEF TypeOK
  <2>3. file' = [p \in Path |-> IF p = q THEN new ELSE file[p]]
    BY DEF TypeOK
  <2>4. src \notin failed \cup skipped
    BY <2>2 DEF Control
  <2> QED
    BY <2>1, <2>2, <2>3, <2>4
<1>1. TypeOK'
  BY <1>0 DEF TypeOK, Content
<1>2. Control'
  BY <1>0 DEF Control, CanOpen
<1>3. Provenance'
  BY <1>0 DEF Provenance
<1>4. NotAhead'
  BY <1>0, Numbers DEF NotAhead, Output
<1>5. Progress'
  <2>1. WrittenUpTo(src, out)'
    BY <1>0 DEF Progress, WrittenUpTo, Output, CanOpen, Wanted, TypeOK, Command
  <2>2. file'[q].by = src' /\ file'[q].out = out'
    BY <1>0
  <2> QED
    BY <2>1, <2>2 DEF Progress
<1>6. Torn'
  BY <1>0 DEF Torn
<1>7. OnlyTranslationsWritten'
  BY <1>0 DEF OnlyTranslationsWritten
<1>8. EarlierOutputsFresh'
  <2> SUFFICES ASSUME NEW p \in Path, NEW o \in Output, file'[p].by # 0,
                      o <= file'[p].out, CanOpen(o)
               PROVE  /\ file'[cmd.path[o]].by >= file'[p].by
                      /\ file'[cmd.path[o]].by = file'[p].by =>
                           file'[cmd.path[o]].out >= o
    BY <1>0 DEF EarlierOutputsFresh, CanOpen
  <2>0. cmd.path[o] \in Path
    BY Numbers DEF CanOpen
  <2>1. CASE p = q
    BY <1>0, <2>0, <2>1 DEF Progress, WrittenUpTo, Output
  <2>2. CASE p # q /\ cmd.path[o] = q
    BY <1>0, <2>0, <2>2, Numbers DEF NotAhead, Output
  <2>3. CASE p # q /\ cmd.path[o] # q
    BY <1>0, <2>0, <2>3 DEF EarlierOutputsFresh
  <2> QED
    BY <2>1, <2>2, <2>3
<1>9. SuccessMeansWritten'
  BY DEF SuccessMeansWritten, Control
<1> QED
  BY <1>1, <1>2, <1>3, <1>4, <1>5, <1>6, <1>7, <1>8, <1>9

\* The output is finished.
LEMMA FinishStep ==
  ASSUME IInv, Finish
  PROVE  IInv'
<1> USE DEF IInv, Finish
<1> DEFINE q == cmd.path[out]
<1>0. /\ q \in Path /\ out \in Output /\ out' = out + 1
      /\ pc = "print" /\ pc' = "open"
      /\ file[q].by = src /\ file[q].out = out
  BY Numbers DEF CanOpen, Control, Progress
<1>1. /\ file' \in [Path -> Content]
      /\ \A p \in Path : /\ file'[p].by = file[p].by
                         /\ file'[p].out = file[p].out
                         /\ p # q => file'[p] = file[p]
      /\ file'[q].complete = TRUE
  BY <1>0 DEF TypeOK, Content
<1>2. TypeOK'
  BY <1>0, <1>1 DEF TypeOK, Output
<1>3. Control'
  BY <1>0 DEF Control
<1>4. Provenance'
  <2>1. file[q].by # 0 /\ q \in cmd.openable
    BY <1>0 DEF TypeOK, Control, CanOpen
  <2> QED
    BY <1>0, <1>1, <2>1 DEF Provenance
<1>5. NotAhead'
  BY <1>0, <1>1, Numbers DEF NotAhead, Output
<1>6. Progress'
  <2>1. WrittenUpTo(src, out)'
    <3> SUFFICES ASSUME NEW o \in Output, o < out + 1
                 PROVE  /\ CanOpen(o) => /\ file'[cmd.path[o]].by = src
                                         /\ file'[cmd.path[o]].out >= o
                        /\ Wanted(o) /\ ~CanOpen(o) => cmd.path[o] \in reported
      BY <1>0 DEF WrittenUpTo, CanOpen, Wanted
    <3>1. CASE o = out
      BY <1>0, <1>1, <3>1 DEF Control, Output, CanOpen
    <3>2. CASE o < out
      BY <1>0, <1>1, <3>2, Numbers DEF Progress, WrittenUpTo, CanOpen
    <3> QED
      BY <1>0, <3>1, <3>2 DEF Output
  <2> QED
    BY <1>0, <2>1 DEF Progress
<1>7. Torn'
  BY <1>0, <1>1 DEF Torn
<1>8. OnlyTranslationsWritten'
  BY <1>1 DEF OnlyTranslationsWritten
<1>9. EarlierOutputsFresh'
  BY <1>1, Numbers DEF EarlierOutputsFresh, CanOpen
<1>10. SuccessMeansWritten'
  BY <1>0 DEF SuccessMeansWritten, Control
<1> QED
  BY <1>2, <1>3, <1>4, <1>5, <1>6, <1>7, <1>8, <1>9, <1>10

\* toCoqModule returns: the source has written all its outputs.
LEMMA NextSourceStep ==
  ASSUME IInv, NextSource
  PROVE  IInv'
<1> USE DEF IInv, NextSource
<1>0. /\ out = 5 /\ out' = 5 /\ src \in Nat /\ src' = src + 1
      /\ cmd.sources \in Nat /\ src \in 1..cmd.sources
      /\ \A p \in Path : file[p].by \in Nat
  BY Numbers DEF TypeOK, Control, Output
<1>1. TypeOK'
  BY <1>0 DEF TypeOK
<1>2. Control'
  BY <1>0 DEF Control, TypeOK
<1>3. Provenance' /\ Torn'
  BY DEF Provenance, Torn
<1>4. NotAhead'
  BY <1>0 DEF NotAhead
<1>5. Progress'
  <2>1. WrittenUpTo(src, 5)
    BY <1>0 DEF Progress
  <2>2. src' - 1 = src
    BY <1>0
  <2>3. WrittenUpTo(src - 1, 5)'
    BY <2>1, <2>2 DEF WrittenUpTo, CanOpen, Wanted
  <2> QED
    BY <2>3 DEF Progress
<1>6. OnlyTranslationsWritten' /\ EarlierOutputsFresh' /\ SuccessMeansWritten'
  BY DEF OnlyTranslationsWritten, EarlierOutputsFresh, SuccessMeansWritten,
         CanOpen, Control
<1> QED
  BY <1>1, <1>2, <1>3, <1>4, <1>5, <1>6

----------------------------------------------------------------------------
(* The theorems.                                                           *)

\* Every step of the driver preserves the invariant.
LEMMA NextIInv == IInv /\ [Next]_vars => IInv'
<1> SUFFICES ASSUME IInv, [Next]_vars PROVE IInv'
  OBVIOUS
<1>1. CASE BadOptions
  BY <1>1, ReturnStep DEF BadOptions
<1>2. CASE PrintVersion
  BY <1>2, ReturnStep DEF PrintVersion
<1>3. CASE Run
  BY <1>3, AdvanceStep DEF Run
<1>4. CASE Exit
  BY <1>4, ExitStep
<1>5. CASE Skip
  BY <1>5, PassOverStep DEF Skip
<1>6. CASE HandleTranslationUnit
  BY <1>6, PassOverStep, AdvanceStep DEF HandleTranslationUnit
<1>7. CASE Build
  BY <1>7, AdvanceStep DEF Build
<1>8. CASE Omit \/ CannotOpen
  BY <1>8, OmitStep
<1>9. CASE Open
  BY <1>9, OpenStep
<1>10. CASE Finish
  BY <1>10, FinishStep
<1>11. CASE NextSource
  BY <1>11, NextSourceStep
<1>12. CASE Die
  BY <1>12, ReturnStep DEF Die
<1>13. CASE UNCHANGED vars
  BY <1>13 DEF vars, IInv, TypeOK, Control, Provenance, NotAhead, Progress,
     WrittenUpTo, Torn, OnlyTranslationsWritten, EarlierOutputsFresh,
     SuccessMeansWritten, CanOpen, Wanted, Writers
<1> QED
  BY <1>1, <1>2, <1>3, <1>4, <1>5, <1>6, <1>7, <1>8, <1>9, <1>10, <1>11, <1>12,
     <1>13 DEF Next

\* The invariant holds in every run of the program.
THEOREM Inductive == Spec => []IInv
BY InitIInv, NextIInv, PTL DEF Spec

\* The state of the driver is of its type.
THEOREM TypeCorrect == Spec => []TypeOK
<1>1. IInv => TypeOK
  BY DEF IInv
<1> QED
  BY <1>1, Inductive, PTL

\* Exit code 0 means that every file that could be opened is the finished output
\* of the last source: with_open_file, toCoqModule and main together.
THEOREM Success == Spec => []SuccessMeansWritten
<1>1. IInv => SuccessMeansWritten
  BY DEF IInv
<1> QED
  BY <1>1, Inductive, PTL

\* Only die() leaves an unfinished file, and at most one.
THEOREM TornByDeath == Spec => []TornOnlyByDeath
<1>1. IInv => TornOnlyByDeath
  BY DEF IInv, Torn, TornOnlyByDeath
<1> QED
  BY <1>1, Inductive, PTL

\* HandleTranslationUnit writes nothing for a source with errors.
THEOREM TranslationsOnly == Spec => []OnlyTranslationsWritten
<1>1. IInv => OnlyTranslationsWritten
  BY DEF IInv
<1> QED
  BY <1>1, Inductive, PTL

\* toCoqModule's outputs are written in order, so that what an interrupted run
\* leaves is a prefix of them.
THEOREM PrefixWritten == Spec => []EarlierOutputsFresh
<1>1. IInv => EarlierOutputsFresh
  BY DEF IInv
<1> QED
  BY <1>1, Inductive, PTL
=============================================================================
