------------------------------- MODULE Driver -------------------------------
(***************************************************************************)
(* The run of the program: main (cpp2v.cpp) hands the sources to clang's   *)
(* ClangTool, which parses them one after the other; at the end of a       *)
(* source without errors toCoqModule (ToCoq.cpp) builds the module and     *)
(* writes up to four files, in this order:                                 *)
(*   1 --module    2 --names    3 --templates    4 --name-test             *)
(* Every source writes to the same paths, and two options may name the     *)
(* same path.  Opening a file truncates it.  logging::die() ends the       *)
(* process in the middle of whatever it does.                              *)
(*                                                                         *)
(* A file is described by who wrote it last: the source, the output, and   *)
(* whether the output was finished.                                        *)
(***************************************************************************)
EXTENDS Integers

CONSTANTS
  Path,        \* the paths of files
  NoPath,      \* an option that is not given, or is empty
  MaxSources   \* the most sources on a command line

ASSUME DriverAssumption ==
  /\ NoPath \notin Path
  /\ MaxSources \in Nat \ {0}

Output == 1..4

\* The command line, and the paths raw_fd_ostream can open.
Command == [path     : [Output -> Path \cup {NoPath}],
            version  : BOOLEAN,
            sources  : 1..MaxSources,
            openable : SUBSET Path]

Content == [by : Nat, out : Output, complete : BOOLEAN]

\* What an earlier run of the program, or nobody, has left.
Old == [by |-> 0, out |-> 1, complete |-> TRUE]

VARIABLES
  cmd,       \* the command line (never changes)
  pc,        \* what is done next
  src,       \* the source that is processed
  out,       \* the output that is written next
  file,      \* the files
  failed,    \* the sources with errors
  skipped,   \* the sources for which there is no compile command
  reported,  \* the paths reported on stderr
  exit       \* the exit code, or -1 while the program runs

vars == <<cmd, pc, src, out, file, failed, skipped, reported, exit>>

Wanted(o) == cmd.path[o] # NoPath

CanOpen(o) == cmd.path[o] \in cmd.openable

Init ==
  /\ cmd \in Command
  /\ pc = "main"
  /\ src = 1
  /\ out = 1
  /\ file = [p \in Path |-> Old]
  /\ failed = {}
  /\ skipped = {}
  /\ reported = {}
  /\ exit = -1

Return(code) ==
  /\ pc' = "done"
  /\ exit' = code
  /\ UNCHANGED <<cmd, src, out, file, failed, skipped, reported>>

----------------------------------------------------------------------------
(* main.                                                                   *)

\* The options cannot be parsed.
BadOptions == pc = "main" /\ Return(1)

PrintVersion == pc = "main" /\ cmd.version /\ Return(0)

Run ==
  /\ pc = "main"
  /\ ~cmd.version
  /\ pc' = "parse"
  /\ UNCHANGED <<cmd, src, out, file, failed, skipped, reported, exit>>

\* Mutant: the exit code is not that of ClangTool::run.
ExitZero ==
  /\ pc = "parse"
  /\ src > cmd.sources
  /\ Return(0)

\* ClangTool::run has processed the last source.
Exit ==
  /\ pc = "parse"
  /\ src > cmd.sources
  /\ Return(IF failed # {} THEN 1 ELSE IF skipped # {} THEN 2 ELSE 0)

\* A source for which there is no compile command.
Skip ==
  /\ pc = "parse"
  /\ src <= cmd.sources
  /\ skipped' = skipped \cup {src}
  /\ src' = src + 1
  /\ UNCHANGED <<cmd, pc, out, file, failed, reported, exit>>

----------------------------------------------------------------------------
(* ToCoqConsumer.                                                          *)

\* Mutant: getNumErrors is not asked.
HandleAnyTranslationUnit ==
  /\ pc = "parse"
  /\ src <= cmd.sources
  /\ pc' = "build"
  /\ \E e \in BOOLEAN : failed' = IF e THEN failed \cup {src} ELSE failed
  /\ UNCHANGED <<cmd, src, out, file, skipped, reported, exit>>

\* The translation unit has been parsed, with or without errors.
HandleTranslationUnit ==
  /\ pc = "parse"
  /\ src <= cmd.sources
  /\ \/ pc' = "build" /\ UNCHANGED <<src, failed>>
     \/ src' = src + 1 /\ failed' = failed \cup {src} /\ UNCHANGED pc
  /\ UNCHANGED <<cmd, out, file, skipped, reported, exit>>

\* Mutant: the module file is only written for the first source.
BuildOnce ==
  /\ pc = "build"
  /\ pc' = "open"
  /\ out' = IF src = 1 THEN 1 ELSE 2
  /\ UNCHANGED <<cmd, src, file, failed, skipped, reported, exit>>

\* build_module.
Build ==
  /\ pc = "build"
  /\ pc' = "open"
  /\ out' = 1
  /\ UNCHANGED <<cmd, src, file, failed, skipped, reported, exit>>

\* with_open_file: no path, a path that cannot be opened, and the rest.
Omit ==
  /\ pc = "open"
  /\ out \in Output
  /\ ~Wanted(out)
  /\ out' = out + 1
  /\ UNCHANGED <<cmd, pc, src, file, failed, skipped, reported, exit>>

\* Mutant: path.has_value() is not asked.
CannotOpenUnasked ==
  /\ pc = "open"
  /\ out \in Output
  /\ ~CanOpen(out)
  /\ reported' = reported \cup {cmd.path[out]}
  /\ out' = out + 1
  /\ UNCHANGED <<cmd, pc, src, file, failed, skipped, exit>>

CannotOpen ==
  /\ pc = "open"
  /\ out \in Output
  /\ Wanted(out)
  /\ ~CanOpen(out)
  /\ reported' = reported \cup {cmd.path[out]}
  /\ out' = out + 1
  /\ UNCHANGED <<cmd, pc, src, file, failed, skipped, exit>>

Open ==
  /\ pc = "open"
  /\ out \in Output
  /\ CanOpen(out)
  /\ file' = [file EXCEPT ![cmd.path[out]] =
                [by |-> src, out |-> out, complete |-> FALSE]]
  /\ pc' = "print"
  /\ UNCHANGED <<cmd, src, out, failed, skipped, reported, exit>>

\* Mutant: an output that is not finished is left behind, as if die() returned.
FinishOrGiveUp ==
  /\ pc = "print"
  /\ \/ file' = [file EXCEPT ![cmd.path[out]].complete = TRUE]
     \/ file' = file
  /\ pc' = "open"
  /\ out' = out + 1
  /\ UNCHANGED <<cmd, src, failed, skipped, reported, exit>>

\* The closure has printed everything; the destructor flushes and closes the file.
Finish ==
  /\ pc = "print"
  /\ file' = [file EXCEPT ![cmd.path[out]].complete = TRUE]
  /\ pc' = "open"
  /\ out' = out + 1
  /\ UNCHANGED <<cmd, src, failed, skipped, reported, exit>>

\* toCoqModule returns.
NextSource ==
  /\ pc = "open"
  /\ out \notin Output
  /\ pc' = "parse"
  /\ src' = src + 1
  /\ UNCHANGED <<cmd, out, file, failed, skipped, reported, exit>>

\* logging::die(): an always_assert of Elaborate or BuildModule, or a printer.
Die ==
  /\ \/ pc = "parse" /\ src <= cmd.sources
     \/ pc \in {"build", "print"}
  /\ Return(1)

Next ==
  \/ BadOptions \/ PrintVersion \/ Run \/ Exit \/ Skip
  \/ HandleTranslationUnit \/ Build \/ Omit \/ CannotOpen \/ Open \/ Finish
  \/ NextSource \/ Die

Spec == Init /\ [][Next]_vars

----------------------------------------------------------------------------
(* Properties.                                                             *)

TypeOK ==
  /\ cmd \in Command
  /\ pc \in {"main", "parse", "build", "open", "print", "done"}
  /\ src \in 1..(cmd.sources + 1)
  /\ out \in 1..5
  /\ file \in [Path -> Content]
  /\ failed \in SUBSET (1..cmd.sources)
  /\ skipped \in SUBSET (1..cmd.sources)
  /\ reported \in SUBSET Path
  /\ exit \in {-1, 0, 1, 2}

\* The outputs that are written to the path p.
Writers(p) == {o \in Output : cmd.path[o] = p}

\* Exit code 0 of a run that is not for --cpp2v-version: a file that an option
\* names is the finished output of the last source for the last of the options
\* that name it, whatever was left there before, unless it could not be opened and
\* stderr says so; other files are untouched.  with_open_file has no other way
\* to say that an output is missing, and main only returns ClangTool's verdict.
SuccessMeansWritten ==
  exit = 0 /\ ~cmd.version =>
    \A p \in Path :
      IF Writers(p) # {} /\ p \in cmd.openable
      THEN /\ file[p].by = cmd.sources
           /\ file[p].complete
           /\ file[p].out \in Writers(p)
           /\ \A o \in Writers(p) : o <= file[p].out
      ELSE file[p] = Old /\ (Writers(p) # {} => p \in reported)

\* However the run ends, a file whose output was not finished is the one die()
\* interrupted: the exit code is 1, and there is at most one such file.
TornOnlyByDeath ==
  \A p \in Path : ~file[p].complete =>
    /\ pc = "print" \/ exit = 1
    /\ p = cmd.path[out]

\* A source that clang rejects or skips has not written to any file, so what a
\* file holds is the translation of a program.
OnlyTranslationsWritten ==
  \A p \in Path : file[p].by \notin failed \cup skipped

\* Whenever the run is interrupted, what is on disk is a prefix of the outputs: if
\* an output of a source is in a file, the outputs before it are of this source
\* too, or of a later one.  So a templates file is never ahead of the module it
\* was printed with.
EarlierOutputsFresh ==
  \A p \in Path : \A o \in Output :
    file[p].by # 0 /\ o <= file[p].out /\ CanOpen(o) =>
      /\ file[cmd.path[o]].by >= file[p].by
      /\ file[cmd.path[o]].by = file[p].by => file[cmd.path[o]].out >= o
=============================================================================
