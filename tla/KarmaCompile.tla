---------------------------- MODULE KarmaCompile ----------------------------
(***************************************************************************)
(* One call of Compiler::MustCompile (src/karma/include/compiler): the     *)
(* main thread lists the files, divides them between worker threads, joins *)
(* the workers, merges their results and writes the executable.            *)
(***************************************************************************)
EXTENDS KarmaData

CONSTANT WorkerCounts   \* the values of n_workers considered

ASSUME WorkersAssumption == WorkerCounts \subseteq Nat

VARIABLES
    phase,          \* what the main thread is doing, or how the call ended
    n_workers,
    all_includes_,  \* the files entered so far
    visiting,       \* the calls of ProcessFileIncludes, the outermost first
    files_,         \* the files in the order of inclusion
    files_data,     \* the slot of each file for its result
    workers,        \* the worker threads started so far
    data,           \* the result of MergeAll so far
    merged,         \* the number of results merged
    exec            \* the executable

vars == <<source, phase, n_workers, all_includes_, visiting, files_,
          files_data, workers, data, merged, exec>>

\* "failed": an error of the program was reported to the caller, "terminated":
\* it ended the process; "unable" and "killed": the same for a file or a thread
\* that the system did not give; "crashed": the division by zero
Ended == {"written", "failed", "terminated", "unable", "killed", "crashed"}

\* A worker compiles files next .. last of files_.  While a file is open, line
\* is the number of the current line and label the one that waits for its
\* item (latest_label_ under latest_word_was_label_); line is 0 otherwise.
Worker(first, last) ==
    [next |-> first, last |-> last, line |-> 0, label |-> NoLabel,
     data |-> EmptyData]

WorkerType == [next : Nat \ {0}, last : Nat, line : Nat, label : MaybeLabel,
               data : DataType]

TypeOK ==
    /\ source \in [Files -> SourceFile]
    /\ phase \in {"start", "includes", "spawn", "join", "merge", "write"}
                   \cup Ended
    /\ n_workers \in Nat
    /\ all_includes_ \subseteq Files
    /\ visiting \in Seq([file : Files, rest : Seq(Files)])
    /\ files_ \in Seq(Files)
    /\ files_data \in Seq(DataType)
    /\ workers \in Seq(WorkerType)
    /\ \A w \in DOMAIN workers :
          /\ workers[w].next <= workers[w].last + 1
          /\ workers[w].last <= Len(files_)
    /\ data \in DataType
    /\ merged \in 0 .. Len(files_)
    /\ exec \in [entrypoint : Nat, code : Seq(Cell), constants : Seq(Cell)]

Init ==
    /\ source \in Sources
    /\ phase = "start"
    /\ n_workers \in WorkerCounts
    /\ all_includes_ = {}
    /\ visiting = <<>>
    /\ files_ = <<>>
    /\ files_data = <<>>
    /\ workers = <<>>
    /\ data = EmptyData
    /\ merged = 0
    /\ exec = NoImage
-----------------------------------------------------------------------------
(* IncludesManager, in the main thread. *)

includesVars == <<all_includes_, visiting, files_>>
resultVars   == <<n_workers, files_data, workers, data, merged, exec>>

\* The file is recorded before its own includes are; GetIncludes throws for a
\* file that cannot be opened and for a directive without a filename.
ProcessFileIncludes(f, callers) ==
    /\ all_includes_' = all_includes_ \cup {f}
    /\ IF CanInclude(f)
       THEN /\ visiting' = Append(callers, [file |-> f,
                                            rest |-> source[f].includes])
            /\ phase' = "includes"
       ELSE /\ phase' = "failed"
            /\ UNCHANGED visiting
    /\ UNCHANGED <<source, files_, resultVars>>

GetFiles == phase = "start" /\ ProcessFileIncludes(Root, <<>>)

Current == Last(visiting)
NextInclude == Head(Current.rest)
WithoutNext == Append(Front(visiting), [Current EXCEPT !.rest = Tail(@)])

SkipInclude ==
    /\ phase = "includes"
    /\ Current.rest # <<>>
    /\ NextInclude \in all_includes_
    /\ visiting' = WithoutNext
    /\ UNCHANGED <<source, phase, all_includes_, files_, resultVars>>

FollowInclude ==
    /\ phase = "includes"
    /\ Current.rest # <<>>
    /\ NextInclude \notin all_includes_
    /\ ProcessFileIncludes(NextInclude, WithoutNext)

\* Mutant: an including file stands before those it includes.
LeaveFileFirst ==
    /\ phase = "includes"
    /\ Current.rest = <<>>
    /\ files_' = <<Current.file>> \o files_
    /\ visiting' = Front(visiting)
    /\ phase' = IF visiting' = <<>> THEN "spawn" ELSE phase
    /\ UNCHANGED <<source, all_includes_, resultVars>>

\* the call returns, and its file follows those it includes
LeaveFile ==
    /\ phase = "includes"
    /\ Current.rest = <<>>
    /\ files_' = Append(files_, Current.file)
    /\ visiting' = Front(visiting)
    /\ phase' = IF visiting' = <<>> THEN "spawn" ELSE phase
    /\ UNCHANGED <<source, all_includes_, resultVars>>
-----------------------------------------------------------------------------
(* PrepareExecData: starting the workers and waiting for them. *)

mainVars == <<n_workers, includesVars, merged>>

NWorkers == IF n_workers < Len(files_) THEN n_workers ELSE Len(files_)

\* files.size() / n_workers
DivideByZero ==
    /\ phase = "spawn"
    /\ NWorkers = 0
    /\ phase' = "crashed"
    /\ UNCHANGED <<source, mainVars, files_data, workers, data, exec>>

\* Mutant: the remainder goes to one worker too many.
SliceSizeOneMore(idx) ==
    Len(files_) \div NWorkers + (IF idx <= Len(files_) % NWorkers THEN 1 ELSE 0)

\* the files of the worker that is started after idx others
SliceSize(idx) ==
    Len(files_) \div NWorkers + (IF idx < Len(files_) % NWorkers THEN 1 ELSE 0)

\* where its slice starts: the slices follow one another
SliceStart == IF workers = <<>> THEN 1 ELSE Last(workers).last + 1

StartWorker ==
    /\ phase = "spawn"
    /\ Len(workers) < NWorkers
    /\ files_data' = IF workers = <<>> THEN [i \in DOMAIN files_ |-> EmptyData]
                                       ELSE files_data
    /\ workers' = Append(workers,
                         Worker(SliceStart,
                                SliceStart + SliceSize(Len(workers)) - 1))
    /\ phase' = IF Len(workers') = NWorkers THEN "join" ELSE phase
    /\ UNCHANGED <<source, mainVars, data, exec>>

\* The constructor of std::thread throws: the threads that run are destroyed
\* unjoined, which is std::terminate; without any the error is reported.
CannotStartWorker ==
    /\ phase = "spawn"
    /\ Len(workers) < NWorkers
    /\ phase' = IF workers = <<>> THEN "unable" ELSE "killed"
    /\ UNCHANGED <<source, mainVars, files_data, workers, data, exec>>

IsDone(w) == workers[w].next > workers[w].last

JoinWorkers ==
    /\ phase = "join"
    /\ \A w \in DOMAIN workers : IsDone(w)
    /\ phase' = "merge"
    /\ UNCHANGED <<source, mainVars, files_data, workers, data, exec>>
-----------------------------------------------------------------------------
(* CompileRoutine and FileCompiler, in worker w.  The workers run from the  *)
(* moment they are started.                                                 *)

Runs(w) == phase \in {"spawn", "join"} /\ w \in DOMAIN workers /\ ~IsDone(w)

File(w)  == files_[workers[w].next]
Lines(w) == source[File(w)].lines

Becomes(w, state) ==
    /\ workers' = [workers EXCEPT ![w] = state]
    /\ UNCHANGED <<source, phase, mainVars, files_data, data, exec>>

\* An exception that leaves the function of a thread ends the process.
Terminate ==
    /\ phase' = "terminated"
    /\ UNCHANGED <<source, mainVars, files_data, workers, data, exec>>

FirstLines(w) == {n \in DOMAIN Lines(w) : ~IsBlank(Lines(w)[n])}

\* Open and SkipIncludes: stops at the first line that is neither an include
\* directive nor blank.
OpenFile(w) ==
    /\ Runs(w)
    /\ workers[w].line = 0
    /\ FirstLines(w) # {}
    /\ Becomes(w, [workers[w] EXCEPT !.line = Min(FirstLines(w)),
                                     !.data = EmptyData])

\* Without such a line ProcessCurrLine is given the last token that was read,
\* the include directive or no word at all, and throws for either.
OpenEmptyFile(w) ==
    /\ Runs(w)
    /\ workers[w].line = 0
    /\ FirstLines(w) = {}
    /\ Terminate

\* The file was opened for its includes but cannot be opened again.
CannotReopen(w) ==
    /\ Runs(w)
    /\ workers[w].line = 0
    /\ phase' = "killed"
    /\ UNCHANGED <<source, mainVars, files_data, workers, data, exec>>

CurrLine(w) == Lines(w)[workers[w].line]

\* the label that stands before the item, after TryProcessLabel
LabelBefore(w) == IF CurrLine(w).label # NoLabel THEN CurrLine(w).label
                                                 ELSE workers[w].label

ConsecutiveLabels(w) == CurrLine(w).label # NoLabel /\ workers[w].label # NoLabel

\* The worker is at a line with an item of the kind.
AtItem(w, item) ==
    /\ Runs(w)
    /\ workers[w].line \in DOMAIN Lines(w)
    /\ CurrLine(w).item = item

NextLine(w, label, d) ==
    Becomes(w, [workers[w] EXCEPT !.line = @ + 1, !.label = label, !.data = d])

\* a blank line, or a label alone
ProcessLabel(w) ==
    /\ AtItem(w, "none")
    /\ ~ConsecutiveLabels(w)
    /\ NextLine(w, LabelBefore(w), workers[w].data)

NewLabel(w) == LabelBefore(w) \notin SeenLabels(workers[w].data)

ProcessCommand(w) ==
    /\ AtItem(w, "command")
    /\ ~ConsecutiveLabels(w)
    /\ NewLabel(w)
    /\ NextLine(w, NoLabel, AddCommand(workers[w].data, LabelBefore(w),
                                       File(w), workers[w].line))

ProcessConstant(w) ==
    /\ AtItem(w, "constant")
    /\ ~ConsecutiveLabels(w)
    /\ NewLabel(w)
    /\ NextLine(w, NoLabel, AddConstant(workers[w].data, LabelBefore(w),
                                        File(w), workers[w].line))

\* no label before it, and the first one of the file
ProcessEntrypoint(w) ==
    /\ AtItem(w, "end")
    /\ LabelBefore(w) = NoLabel
    /\ workers[w].data.entrypoint = NoAddress
    /\ NextLine(w, NoLabel, AddEntrypoint(workers[w].data, CurrLine(w)))

\* ConsecutiveLabels, LabelRedefinition, LabelBeforeEntrypoint,
\* SecondEntrypoint, and the errors of a single line
RejectLine(w) ==
    /\ \E item \in Items : AtItem(w, item)
    /\ \/ CurrLine(w).item = "bad"
       \/ ConsecutiveLabels(w)
       \/ CurrLine(w).item \in {"command", "constant"} /\ ~NewLabel(w)
       \/ /\ CurrLine(w).item = "end"
          /\ \/ LabelBefore(w) # NoLabel
             \/ workers[w].data.entrypoint # NoAddress
    /\ Terminate

AtEnd(w) == Runs(w) /\ workers[w].line > Len(Lines(w))

FileEndsWithLabel(w) ==
    /\ AtEnd(w)
    /\ workers[w].label # NoLabel
    /\ Terminate

\* Mutant: the loop over the files does not advance.
FinishFileAgain(w) ==
    /\ AtEnd(w)
    /\ workers[w].label = NoLabel
    /\ files_data' = [files_data EXCEPT ![workers[w].next] = workers[w].data]
    /\ workers' = [workers EXCEPT ![w].line = 0]
    /\ UNCHANGED <<source, phase, mainVars, data, exec>>

\* Mutant: every worker writes from the first slot on.
FinishFileInFirstSlots(w) ==
    /\ AtEnd(w)
    /\ workers[w].label = NoLabel
    /\ files_data' = [files_data EXCEPT
          ![workers[w].next - (IF w = 1 THEN 0 ELSE workers[w - 1].last)] =
              workers[w].data]
    /\ workers' = [workers EXCEPT ![w].next = @ + 1, ![w].line = 0]
    /\ UNCHANGED <<source, phase, mainVars, data, exec>>

\* the result is moved to the slot of the file; the worker takes its next one
FinishFile(w) ==
    /\ AtEnd(w)
    /\ workers[w].label = NoLabel
    /\ files_data' = [files_data EXCEPT ![workers[w].next] = workers[w].data]
    /\ workers' = [workers EXCEPT ![w].next = @ + 1, ![w].line = 0]
    /\ UNCHANGED <<source, phase, mainVars, data, exec>>
-----------------------------------------------------------------------------
(* MergeAll, ToExecData and Exec::Write, in the main thread. *)

mergeVars == <<source, n_workers, includesVars, files_data, workers>>

MergeFile ==
    /\ phase = "merge"
    /\ merged < Len(files_)
    /\ CanMerge(data, files_data[merged + 1])
    /\ data' = Merge(data, files_data[merged + 1])
    /\ merged' = merged + 1
    /\ UNCHANGED <<mergeVars, phase, exec>>

\* SecondEntrypoint or LabelRedefinition
MergeFails ==
    /\ phase = "merge"
    /\ merged < Len(files_)
    /\ ~CanMerge(data, files_data[merged + 1])
    /\ phase' = "failed"
    /\ UNCHANGED <<mergeVars, data, merged, exec>>

Substitute ==
    /\ phase = "merge"
    /\ merged = Len(files_)
    /\ IF CanSubstitute(data) THEN phase' = "write" /\ exec' = ToExecData(data)
                              ELSE phase' = "failed" /\ UNCHANGED exec
    /\ UNCHANGED <<mergeVars, data, merged>>

Write ==
    /\ phase = "write"
    /\ phase' \in {"written", "unable"}
    /\ UNCHANGED <<mergeVars, data, merged, exec>>

Stopped == phase \in Ended /\ UNCHANGED vars
-----------------------------------------------------------------------------
MainStep == \/ GetFiles \/ SkipInclude \/ FollowInclude \/ LeaveFile
            \/ DivideByZero \/ StartWorker \/ CannotStartWorker
            \/ JoinWorkers \/ MergeFile \/ MergeFails \/ Substitute \/ Write

WorkerStep(w) == \/ OpenFile(w) \/ OpenEmptyFile(w) \/ CannotReopen(w)
                 \/ ProcessLabel(w)
                 \/ ProcessCommand(w) \/ ProcessConstant(w)
                 \/ ProcessEntrypoint(w) \/ RejectLine(w)
                 \/ FileEndsWithLabel(w) \/ FinishFile(w)

Next == MainStep \/ (\E w \in DOMAIN workers : WorkerStep(w)) \/ Stopped

Spec == Init /\ [][Next]_vars

\* Every thread that can run is scheduled sooner or later.
FairSpec == /\ Spec
            /\ WF_vars(MainStep)
            /\ \A w \in 1 .. Cardinality(Files) : WF_vars(WorkerStep(w))
-----------------------------------------------------------------------------
(* Properties *)

\* Every file of the program is compiled once, and after the files it includes
\* unless they include it in turn: what lets the main file use the labels of
\* its includes, and what single entering has to keep for shared includes and
\* for cycles (ProcessFileIncludes).
IncludedFirst ==
    LET open == {visiting[i].file : i \in DOMAIN visiting}
    IN  /\ IsInjective(files_)
        /\ phase = "includes" => /\ open \cap ToSet(files_) = {}
                                 /\ all_includes_ = open \cup ToSet(files_)
        /\ \A i \in DOMAIN files_ : \A g \in ToSet(source[files_[i]].includes) :
              \/ \E j \in 1 .. i : files_[j] = g
              \/ files_[i] \in Reachable(g)
        /\ phase \in {"spawn", "join", "merge", "write"} =>
              ToSet(files_) = Reachable(Root) /\ Last(files_) = Root

\* the lines of a file that give words
ItemLines(f) == {<<f, n>> : n \in {k \in DOMAIN source[f].lines :
                    source[f].lines[k].item \in {"command", "constant"}}}

LinesIn(d) == {<<c.origin[1], c.origin[2]>> : c \in ToSet(d.code \o d.constants)}

\* When the workers are joined each slot holds the whole result of its own
\* file, however the threads were scheduled: the slices neither overlap nor
\* leave a file out (PrepareExecData, CompileRoutine).
JoinedResultsAreComplete ==
    phase \in {"merge", "write"} =>
        \A i \in DOMAIN files_ : LinesIn(files_data[i]) = ItemLines(files_[i])

Outcome ==
    CASE phase = "written" -> "assembled"
      [] phase \in {"failed", "terminated"} -> "refused"
      [] phase \in {"unable", "killed", "crashed"} -> "abandoned"
      [] OTHER -> "none"

Abstract == INSTANCE Assembler WITH
    outcome <- Outcome,
    image   <- IF phase = "written" THEN exec ELSE NoImage

\* Whatever the number of workers and their schedule, a compilation writes the
\* executable of the whole program with each label at its item, and it is
\* refused exactly if the program is not valid or one of its files has no line
\* but include directives (FileCompiler, Data::MergeAll, Data::ToExecData).
ImplementsAssembler == Abstract!Spec

\* Every compilation ends: the search for includes in cyclic programs, the
\* workers and the join.
CompilationEnds == <>(phase \in Ended)

\* "an exception thrown by the public methods of the karma library is ... of
\* type karma::errors::Error" (src/karma/include/README.md:141): a compilation
\* does not end the process of its caller.
ErrorsReachTheCaller == phase # "terminated"

\* "the files specified by them are compiled with the code from the root file as
\* if their contents were copied to the beginning of the root file in the order
\* of inclusion" (src/karma/docs/src/sections/standard/07_directives.tex:47): a
\* program that is valid when its files are put together is not refused, a file
\* that adds nothing to it included.
ValidProgramsAreCompiled == phase \in {"failed", "terminated"} => ~Abstract!Valid
=============================================================================
