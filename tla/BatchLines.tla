----------------------------- MODULE BatchLines -----------------------------
(***************************************************************************)
(* Which line goes with which, from the data of a batch run to the run     *)
(* that evaluates it: FlowExecutor merging its inputs by line number,      *)
(* collecting the lines for the reduce nodes and returning outputs         *)
(* (executor/flow_executor.py), LocalStorageOperations writing, reading and*)
(* padding them, RunOperations.get_details and RunSubmitter._resolve_data  *)
(* (_sdk/operations).                                                      *)
(*                                                                         *)
(* A row stands for a dict of values: its line_number or None, whose row it*)
(* is, and whether its values are real or the prompt "(Failed)".  Lines    *)
(* finish in any order and may fail (LinePool).                            *)
(***************************************************************************)
EXTENDS Naturals, FiniteSets, SequencesExt

CONSTANTS DataFiles,  \* data files: per row, its line_number or None
          None        \* Python's None

ASSUME DataAssumption ==
  /\ DataFiles \subseteq Seq(Nat) \cup Seq({None})  \* a column holds for all rows
  /\ None \notin Nat

VARIABLES
  pc,          \* start, executing, ended or rejected
  batch,       \* the mapped inputs, which are stored as they are
  finished,    \* the results of lines in the order they came
  results,     \* the results exec_bulk works with
  aggregated,  \* the lines given to the reduce nodes: inputs and outputs
  view         \* what was made of the run: details or inputs of an evaluation

vars == <<pc, batch, finished, results, aggregated, view>>

Row(line, of, real) == [line |-> line, of |-> of, real |-> real]
DataRows(file) == [i \in DOMAIN file |-> Row(file[i], i, TRUE)]
Source(key, rows) == [key |-> key, rows |-> rows]
NoView == [what |-> "none", sources |-> <<>>, rows |-> <<>>]

Init ==
  /\ pc = "start"
  /\ batch = <<>> /\ finished = <<>> /\ results = <<>> /\ aggregated = <<>>
  /\ view = NoView

-----------------------------------------------------------------------------
(* Merging by line *)

HasNumbers(rows) == \E i \in DOMAIN rows : rows[i].line # None

\* The line of a row; without line numbers the rows are lines 0, 1, ...
\* (Mutant: they start from 1.)
MutantLineAt(rows, i) == IF HasNumbers(rows) THEN rows[i].line ELSE i
LineAt(rows, i) == IF HasNumbers(rows) THEN rows[i].line ELSE i - 1

At(rows, line) == {i \in DOMAIN rows : LineAt(rows, i) = line}

\* The numbers of a finite set in ascending order.
InOrder(S) ==
  CHOOSE s \in [1 .. Cardinality(S) -> S] : \A i, j \in DOMAIN s : i < j => s[i] < s[j]

\* The elements of s at the positions in S, in the order of s.
Picked(s, S) == LET at == InOrder(S) IN [p \in DOMAIN at |-> s[at[p]]]

\* The lines in the order in which the dict that collects them is filled.
AllLines(sources) ==
  FlattenSeq([k \in DOMAIN sources |->
    [i \in DOMAIN sources[k].rows |-> LineAt(sources[k].rows, i)]])

\* A later row of a line replaces an earlier one.  (Mutant: the first one stays.)
MutantRowOf(rows, line) == rows[Min(At(rows, line))]
RowOf(rows, line) == rows[Max(At(rows, line))]

\* The rows collected for a line, by source.
RowsOf(sources, line) ==
  [key \in {sources[k].key : k \in DOMAIN sources} |->
     LET k == CHOOSE j \in DOMAIN sources : sources[j].key = key
     IN RowOf(sources[k].rows, line)]

MergedLine(sources, line) == [line |-> line, row |-> RowsOf(sources, line)]

\* A dict keeps its keys where they were seen first; lines that miss in one of the
\* sources are left out.
Merge(sources) ==
  LET lines == AllLines(sources)
      New(p) == \A q \in 1 .. p - 1 : lines[q] # lines[p]
      Complete(line) == \A k \in DOMAIN sources : At(sources[k].rows, line) # {}
      keys == Picked(lines, {p \in DOMAIN lines : lines[p] # None /\ New(p) /\ Complete(lines[p])})
  IN [i \in DOMAIN keys |-> MergedLine(sources, keys[i])]

\* EmptyInputListError, LineNumberNotAlign, EmptyInputAfterMapping.
Rejected(sources) ==
  \/ \E k \in DOMAIN sources : sources[k].rows = <<>>
  \/ \E j, k \in DOMAIN sources :
       /\ ~ HasNumbers(sources[j].rows) /\ ~ HasNumbers(sources[k].rows)
       /\ Len(sources[j].rows) # Len(sources[k].rows)
  \/ Merge(sources) = <<>>

-----------------------------------------------------------------------------
(* The batch run *)

MapInputs(file) ==
  LET sources == <<Source("data", DataRows(file))>> IN
  /\ pc = "start"
  /\ IF Rejected(sources)
     THEN pc' = "rejected" /\ UNCHANGED batch
     ELSE pc' = "executing" /\ batch' = Merge(sources)
  /\ UNCHANGED <<finished, results, aggregated, view>>

BatchLinesOf == {batch[i].line : i \in DOMAIN batch}
FinishedLines == {finished[i].line : i \in DOMAIN finished}

FinishLine(line, ok) ==
  /\ pc = "executing"
  /\ line \in BatchLinesOf \ FinishedLines
  /\ finished' = Append(finished, [line |-> line, ok |-> ok])
  /\ UNCHANGED <<pc, batch, results, aggregated, view>>

\* Rows of different lines, sorted by line.
ByLine(rows) ==
  LET lines == InOrder({rows[i].line : i \in DOMAIN rows})
  IN [p \in DOMAIN lines |-> rows[CHOOSE i \in DOMAIN rows : rows[i].line = lines[p]]]

\* (Mutant: the results stay in the order they came.)
MutantSorted == finished
Sorted == ByLine(finished)

Oks(rows) == {i \in DOMAIN rows : rows[i].ok}

\* The values for the reduce nodes: the flow's inputs from the batch, the nodes'
\* outputs from the results, picked by the positions of the results that completed.
Aggregated(sorted) ==
  LET inputs == Picked(batch, Oks(sorted))
      outputs == Picked(sorted, Oks(sorted))
  IN [j \in DOMAIN inputs |-> [input |-> inputs[j].line, output |-> outputs[j].line]]

\* exec_bulk goes on when each line has its result.
BulkEnds ==
  /\ pc = "executing"
  /\ FinishedLines = BatchLinesOf
  /\ results' = Sorted
  /\ aggregated' = Aggregated(Sorted)
  /\ pc' = "ended"
  /\ UNCHANGED <<batch, finished, view>>

-----------------------------------------------------------------------------
(* Reading the run back, once: what was read changes nothing *)

StoredOutputs == Picked(results, Oks(results))

OutputLines == {StoredOutputs[i].line : i \in DOMAIN StoredOutputs}

\* Rows for the lines without an output, out of as many lines as there were inputs.
Padding ==
  LET missing == InOrder((0 .. Len(batch) - 1) \ OutputLines)
  IN [i \in DOMAIN missing |-> [line |-> missing[i], ok |-> FALSE]]

\* The frame is sorted only if something was missing.  (Mutant: it never is.)
MutantPadded == StoredOutputs \o Padding
Padded ==
  LET padding == Padding
  IN IF padding = <<>> THEN StoredOutputs ELSE ByLine(StoredOutputs \o padding)

\* load_outputs; a failed line's row holds "(Failed)", and the number of a line ends
\* as the index of the frame, which is not among its columns.
LoadOutputs ==
  LET frame == IF StoredOutputs = <<>> THEN <<>> ELSE Padded
  IN [i \in DOMAIN frame |-> Row(None, frame[i].line, frame[i].ok)]

LoadInputs == [i \in DOMAIN batch |-> Row(batch[i].line, batch[i].line, TRUE)]

\* The columns of inputs and outputs side by side; if all lines failed there are
\* no outputs, and columns of two lengths raise.
Details ==
  LET outputs == LoadOutputs
      inputs == LoadInputs
  IN IF outputs # <<>> /\ Len(outputs) # Len(inputs)
     THEN [NoView EXCEPT !.what = "no details"]
     ELSE [NoView EXCEPT !.what = "details",
             !.rows = [i \in DOMAIN outputs |-> [input |-> inputs[i], output |-> outputs[i]]]]

GetDetails ==
  /\ pc = "ended" /\ view = NoView
  /\ view' = Details
  /\ UNCHANGED <<pc, batch, finished, results, aggregated>>

\* _resolve_data of a run that refers to this one, with or without data.
EvaluationSources(data) ==
  data \o <<Source("run.outputs", LoadOutputs), Source("run.inputs", LoadInputs)>>

\* Without any output reverse_transpose raises, as the merge would.
Evaluation(data) ==
  LET sources == EvaluationSources(data)
  IN IF Rejected(sources) THEN [NoView EXCEPT !.what = "no evaluation"]
     ELSE [what |-> "evaluation", sources |-> sources, rows |-> Merge(sources)]

Evaluate(data) ==
  /\ pc = "ended" /\ view = NoView
  /\ view' = Evaluation(data)
  /\ UNCHANGED <<pc, batch, finished, results, aggregated>>

-----------------------------------------------------------------------------
Next ==
  \/ \E file \in DataFiles : MapInputs(file)
  \/ \E line \in BatchLinesOf, ok \in BOOLEAN : FinishLine(line, ok)
  \/ BulkEnds
  \/ GetDetails
  \/ Evaluate(<<>>)
  \/ \E file \in DataFiles : Evaluate(<<Source("data", DataRows(file))>>)

Spec == Init /\ [][Next]_vars

-----------------------------------------------------------------------------
(* Properties *)

Ascending == \A i, j \in DOMAIN batch : i < j => batch[i].line < batch[j].line
Dense == BatchLinesOf = 0 .. Len(batch) - 1

\* The reduce nodes get the inputs and the outputs of the same lines, in whatever
\* order the lines finished and whichever of them failed, if the lines of the batch
\* are in ascending order.
AggregationAligned ==
  Ascending => \A i \in DOMAIN aggregated : aggregated[i].input = aggregated[i].output

Failed(line) == \E i \in DOMAIN results : results[i].line = line /\ ~ results[i].ok

\* There are details of a run of lines 0, 1, ... in order; they show each line, its
\* inputs beside its outputs, or beside "(Failed)" if just that line failed.
DetailsAligned ==
  Ascending /\ Dense =>
    /\ view.what # "no details"
    /\ view.what = "details" =>
         /\ Len(view.rows) = (IF StoredOutputs = <<>> THEN 0 ELSE Len(batch))
         /\ \A i \in DOMAIN view.rows :
              /\ view.rows[i].input.of = view.rows[i].output.of
              /\ view.rows[i].output.real = ~ Failed(view.rows[i].input.of)

\* A run that evaluates a run of lines 0, 1, ..., stored in any order, sees each
\* line's inputs with its own outputs.
EvaluationAligned ==
  view.what = "evaluation" /\ Dense =>
    \A i \in DOMAIN view.rows :
      LET line == view.rows[i].line
          row == view.rows[i].row IN
      /\ row["run.outputs"].of = line /\ row["run.inputs"].of = line
      /\ row["run.outputs"].real = ~ Failed(line)

\* The inputs of an evaluation are the join of its sources by line: a line is there,
\* once, exactly if every source has it, with the last row each has for it.
EvaluationIsJoin ==
  view.what = "evaluation" =>
    LET lines(k) == {LineAt(view.sources[k].rows, i) : i \in DOMAIN view.sources[k].rows}
        rows == view.rows IN
    /\ {rows[i].line : i \in DOMAIN rows} =
         {n \in lines(1) : \A k \in DOMAIN view.sources : n \in lines(k)}
    /\ \A i, j \in DOMAIN rows : rows[i].line = rows[j].line => i = j
    /\ \A i \in DOMAIN rows, k \in DOMAIN view.sources :
         LET from == view.sources[k].rows IN
         \E p \in DOMAIN from :
           /\ rows[i].row[view.sources[k].key] = from[p]
           /\ LineAt(from, p) = rows[i].line
           /\ \A q \in p + 1 .. Len(from) : LineAt(from, q) # rows[i].line
=============================================================================
