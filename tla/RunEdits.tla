------------------------------ MODULE RunEdits ------------------------------
(***************************************************************************)
(* Editing the row of a run: RunInfo.archive, restore and update           *)
(* (_sdk/_orm/run_info.py) under the decorator sqlite_retry                *)
(* (_sdk/_orm/retry.py), as RunOperations calls them.                      *)
(*                                                                         *)
(* An editor gets the run as an object, edits the object and writes the    *)
(* edited column with an UPDATE.  The commit fails when another connection *)
(* keeps the database locked; the decorator then calls the method again,   *)
(* on the same object.                                                     *)
(***************************************************************************)
EXTENDS Naturals

CONSTANTS Editors, \* processes or threads, each with an object of its own
          Tries,   \* the decorator's tries
          Nobody   \* the name is nobody's

ASSUME EditAssumption == Tries \in Nat \ {0} /\ Nobody \notin Editors

VARIABLES
  row,      \* the run's row: archived, and who set the display name last
  object,   \* each editor's RunInfo
  op,       \* the method it calls
  editPc,   \* where it is in it
  left,     \* mtries of the decorator
  attempts, \* how often the method was called
  applied   \* whether the row has been as the call wants it since it was read

editVars == <<row, object, op, editPc, left, attempts, applied>>

Rows == [archived : BOOLEAN, name : Editors \cup {Nobody}]
Ops == {"archive", "restore", "update"}
EditPlaces == {"idle", "called", "commit", "returned", "raised"}

\* What editor e wants of the row when it calls o.
Wanted(e, o, r) ==
  \/ o = "archive" /\ r.archived
  \/ o = "restore" /\ ~ r.archived
  \/ o = "update" /\ r.name = e

EditInit ==
  /\ row = [archived |-> FALSE, name |-> Nobody]
  /\ object = [e \in Editors |-> row]
  /\ op = [e \in Editors |-> "update"]
  /\ editPc = [e \in Editors |-> "idle"]
  /\ left = [e \in Editors |-> Tries]
  /\ attempts = [e \in Editors |-> 0]
  /\ applied = [e \in Editors |-> FALSE]

EditGoto(e, place) == editPc' = [editPc EXCEPT ![e] = place]

-----------------------------------------------------------------------------
\* RunOperations: ORMRun.get, then the method.
GetRun(e, o) ==
  /\ editPc[e] \in {"idle", "returned", "raised"}
  /\ object' = [object EXCEPT ![e] = row]
  /\ op' = [op EXCEPT ![e] = o]
  /\ left' = [left EXCEPT ![e] = Tries]
  /\ attempts' = [attempts EXCEPT ![e] = 1]
  /\ applied' = [applied EXCEPT ![e] = Wanted(e, o, row)]
  /\ EditGoto(e, "called")
  /\ UNCHANGED row

\* archive and restore return if the object already is as they would make it.
NothingToDo(e) == op[e] # "update" /\ Wanted(e, op[e], object[e])

Skip(e) ==
  /\ editPc[e] = "called"
  /\ NothingToDo(e)
  /\ EditGoto(e, "returned")
  /\ UNCHANGED <<row, object, op, left, attempts, applied>>

\* The object as the method leaves it.
Edited(e, r) ==
  IF op[e] = "update" THEN [r EXCEPT !.name = e]
  ELSE [r EXCEPT !.archived = (op[e] = "archive")]

EditObject(e) ==
  /\ editPc[e] = "called"
  /\ ~ NothingToDo(e)
  /\ object' = [object EXCEPT ![e] = Edited(e, @)]
  /\ EditGoto(e, "commit")
  /\ UNCHANGED <<row, op, left, attempts, applied>>

\* The UPDATE names the edited column.
Written(e) == Edited(e, row)

Commit(e) ==
  /\ editPc[e] = "commit"
  /\ row' = Written(e)
  /\ applied' = [x \in Editors |-> applied[x] \/ Wanted(x, op[x], row')]
  /\ EditGoto(e, "returned")
  /\ UNCHANGED <<object, op, left, attempts>>

\* The decorator's loop.
MayRetry(e) == left[e] > 1

\* OperationalError within the loop: the method is called again, on the object as the
\* failed call left it.
Retry(e) ==
  /\ editPc[e] = "commit"
  /\ MayRetry(e)
  /\ left' = [left EXCEPT ![e] = @ - 1]
  /\ attempts' = [attempts EXCEPT ![e] = @ + 1]
  /\ EditGoto(e, "called")
  /\ UNCHANGED <<row, object, op, applied>>

\* The call after the loop raises to the caller.  (Mutant: there is no such call, and
\* the decorator returns.)
MutantGivesUp == "returned"
GivesUp == "raised"

LastTryFails(e) ==
  /\ editPc[e] = "commit"
  /\ ~ MayRetry(e)
  /\ EditGoto(e, GivesUp)
  /\ UNCHANGED <<row, object, op, left, attempts, applied>>

EditNext ==
  \E e \in Editors :
    \/ \E o \in Ops : GetRun(e, o)
    \/ Skip(e) \/ EditObject(e) \/ Commit(e) \/ Retry(e) \/ LastTryFails(e)

EditSpec == EditInit /\ [][EditNext]_editVars

-----------------------------------------------------------------------------
(* Properties *)

\* Every variable has its type.
EditTypeOK ==
  /\ row \in Rows
  /\ object \in [Editors -> Rows]
  /\ op \in [Editors -> Ops]
  /\ editPc \in [Editors -> EditPlaces]
  /\ left \in [Editors -> 1 .. Tries]
  /\ attempts \in [Editors -> 0 .. Tries]
  /\ applied \in [Editors -> BOOLEAN]

\* A call that returns has had its effect on the row at some moment since it read the
\* run, whatever others did to the row and however often an update was retried; of
\* archive and restore it holds of calls that met no locked database.
EditTakesEffectUnlessRetried ==
  \A e \in Editors :
    editPc[e] = "returned" /\ (op[e] = "update" \/ attempts[e] = 1) => applied[e]

\* "number of times to try (not retry) before giving up": a call raises after exactly
\* that many tries.
RaisesAfterAllTries ==
  \A e \in Editors : editPc[e] = "raised" => attempts[e] = Tries

\* Editors of different columns, each with an object that may be stale, undo nothing
\* of each other's.
EditsKeepOtherColumns ==
  [][\A e \in Editors : editPc[e] = "commit" /\ editPc'[e] = "returned" =>
       IF op[e] = "update" THEN row'.archived = row.archived
       ELSE row'.name = row.name]_editVars
=============================================================================
