------------------------------ MODULE LineFile ------------------------------
(***************************************************************************)
(* EnsureLineInFileStateChanger (fs/ensure_line_in_file.py) and its         *)
(* rollback: a chain of nodes that each insert one line into the same text  *)
(* file, by reading the whole file, emptying it and writing it back.        *)
(*                                                                         *)
(* A file is the sequence of its lines; a regular expression is the set of  *)
(* lines it matches.  An INVALID for a path that is no writable file, a     *)
(* line with a newline or a malformed expression is the "read" fault.       *)
(***************************************************************************)
EXTENDS Naturals, FiniteSets, SequencesExt, NodeLife

CONSTANTS
  Line,     \* the lines of a file
  Params,   \* the parameters a program may give a node
  Files     \* what the file may hold at first

ASSUME NodeAssumption  == Node \subseteq Nat
ASSUME FilesAssumption == Files \subseteq Seq(Line)

Placement == [at : {"start", "end", "after", "before"}, matches : SUBSET Line]

ASSUME ParamsAssumption ==
  Params \subseteq [line : Line, placement : Placement, strict : BOOLEAN]

VARIABLES
  faults,    \* what may go wrong on this host: "read" and "write"
  params,    \* self._params of each node's changer
  text,      \* the lines of the file
  original,  \* the lines it had at first
  buffer     \* new_lines, between the read and the write of a node

setVars  == <<faults, params>>
fileVars == <<text, original>>
vars     == <<faults, params, text, original, buffer, lifeVars>>

Init ==
  /\ faults \in SUBSET {"read", "write"}
  /\ params \in [Node -> Params]
  /\ text \in Files
  /\ original = text
  /\ buffer = [n \in Node |-> << >>]
  /\ LifeInit

-----------------------------------------------------------------------------
(* Where the line belongs.  Positions count from 1.                         *)

Anchored(place) == place.at \in {"after", "before"}

\* _find_anchor_indices
Anchors(place, lines) == {i \in DOMAIN lines : lines[i] \in place.matches}

\* _resolve_anchor without an issue: the anchor of `place` is unique.
Resolved(place, lines) ==
  Anchored(place) => \E i \in DOMAIN lines : Anchors(place, lines) = {i}

Anchor(place, lines) == CHOOSE i \in DOMAIN lines : Anchors(place, lines) = {i}

\* _expected_line_present_at_placement, for a resolved anchor.
ExpectedPresent(place, line, lines) ==
  CASE place.at = "start"  -> Len(lines) > 0 /\ lines[1] = line
    [] place.at = "end"    -> Len(lines) > 0 /\ lines[Len(lines)] = line
    [] place.at = "after"  -> LET a == Anchor(place, lines)
                              IN a < Len(lines) /\ lines[a + 1] = line
    [] place.at = "before" -> LET a == Anchor(place, lines)
                              IN a > 1 /\ lines[a - 1] = line

\* Mutant: after the anchor is taken for before it.
InsertionIndexBefore(place, lines) ==
  CASE place.at = "start" -> 1
    [] place.at = "end"   -> Len(lines) + 1
    [] Anchored(place)    -> Anchor(place, lines)

\* _insertion_index: the position the inserted line will have.
InsertionIndex(place, lines) ==
  CASE place.at = "start"  -> 1
    [] place.at = "end"    -> Len(lines) + 1
    [] place.at = "after"  -> Anchor(place, lines) + 1
    [] place.at = "before" -> Anchor(place, lines)

\* Mutant: the rollback looks for the line anywhere in the file.
PlacementLineAnywhere(place, line, lines) ==
  {i \in DOMAIN lines : lines[i] = line \/ lines[i] \in place.matches}

\* _placement_line_index: the positions at which the rollback finds the line
\* (at most one).
PlacementLine(place, line, lines) ==
  {i \in DOMAIN lines :
     /\ lines[i] = line
     /\ CASE place.at = "start"  -> i = 1
          [] place.at = "end"    -> i = Len(lines)
          [] place.at = "after"  -> i > 1 /\ Anchors(place, lines) = {i - 1}
          [] place.at = "before" -> Anchors(place, lines) = {i + 1}}

-----------------------------------------------------------------------------
(* The changer of node n.                                                   *)

Place(n) == params[n].placement

\* Mutant: a line that is elsewhere in the file does not count.
VerdictHereOnly(n) ==
  IF ~Resolved(Place(n), text) THEN "INVALID"
  ELSE IF ExpectedPresent(Place(n), params[n].line, text) THEN "ALREADY_APPLIED"
  ELSE "READY"

Verdict(n) ==
  IF ~Resolved(Place(n), text) THEN "INVALID"
  ELSE IF ExpectedPresent(Place(n), params[n].line, text) THEN "ALREADY_APPLIED"
  ELSE IF params[n].line \notin ToSet(text) THEN "READY"
  ELSE IF params[n].strict THEN "INVALID"
  ELSE "ALREADY_APPLIED"

\* Mutant: the engine does not wait for the nodes a node depends on.
ReleasedAlways(n) == TRUE

\* Every node depends on those before it, and the engine runs it after them.
Released(n) ==
  \A m \in Node : m < n =>
    outcome[m] \in {"SUCCESS", "SKIPPED_ALREADY_APPLIED", "SKIPPED_BY_TRANSITION"}

AssessState(n) ==
  /\ Released(n)
  /\ \E state \in {Verdict(n)} \cup {s \in {"INVALID"} : "read" \in faults} :
       Assess(n, state) \/ Verify(n, state)
  /\ UNCHANGED <<setVars, fileVars, buffer>>

ReadLines(n) ==
  /\ phase[n] = "transition"
  /\ Resolved(Place(n), text)
  /\ buffer' = [buffer EXCEPT ![n] =
                  InsertAt(text, InsertionIndex(Place(n), text), params[n].line)]
  /\ Goto(n, "open")
  /\ UNCHANGED <<setVars, fileVars, outcome, result, undo>>

\* ANCHOR_VANISHED or READ_FAILED
ReadFails(n) ==
  /\ phase[n] = "transition"
  /\ ~Resolved(Place(n), text) \/ "read" \in faults
  /\ Returns(n, "FAILURE")
  /\ UNCHANGED <<setVars, fileVars, buffer>>

\* write_text_file returns to the transition of the changer, or of its inverse.
Written(n, status) ==
  /\ IF result[n] = "NONE" THEN Returns(n, status) ELSE Undone(n, status)
  /\ buffer' = [buffer EXCEPT ![n] = << >>]

\* open(path, "w") empties the file ...
OpenFile(n) ==
  /\ phase[n] = "open"
  /\ \/ /\ text' = << >>
        /\ Goto(n, "flush")
        /\ UNCHANGED <<buffer, outcome, result, undo>>
     \/ "write" \in faults /\ Written(n, "FAILURE") /\ UNCHANGED text
  /\ UNCHANGED <<setVars, original>>

\* ... and the lines follow, or the first of them.
WriteLines(n) ==
  /\ phase[n] = "flush"
  /\ \/ text' = buffer[n] /\ Written(n, "SUCCESS")
     \/ "write" \in faults /\ text' \in Prefixes(buffer[n]) /\ Written(n, "FAILURE")
  /\ UNCHANGED <<setVars, original>>

\* Mutant: where there is nothing to remove the rollback reports an assessment.
RollbackReadAssesses(n) ==
  LET found == PlacementLine(Place(n), params[n].line, text)
  IN /\ phase[n] = "rollback"
     /\ \/ found = {} /\ Undone(n, "ALREADY_APPLIED") /\ UNCHANGED buffer
        \/ \E i \in found :
             /\ buffer' = [buffer EXCEPT ![n] = RemoveAt(text, i)]
             /\ Goto(n, "open")
             /\ UNCHANGED <<outcome, result, undo>>
     /\ UNCHANGED <<setVars, fileVars>>

\* EnsureLineInFileRollbackStateChanger.transition
RollbackRead(n) ==
  LET found == PlacementLine(Place(n), params[n].line, text)
  IN /\ phase[n] = "rollback"
     /\ \/ /\ found = {}
           /\ Undone(n, "SKIPPED")
           /\ UNCHANGED buffer
        \/ \E i \in found :
             /\ buffer' = [buffer EXCEPT ![n] = RemoveAt(text, i)]
             /\ Goto(n, "open")
             /\ UNCHANGED <<outcome, result, undo>>
        \/ "read" \in faults /\ Undone(n, "FAILURE") /\ UNCHANGED buffer
     /\ UNCHANGED <<setVars, fileVars>>

Run(n) ==
  \/ AssessState(n) \/ ReadLines(n) \/ ReadFails(n) \/ RollbackRead(n)
  \/ OpenFile(n) \/ WriteLines(n)

Next == \E n \in Node : Run(n)

Spec == Init /\ [][Next]_vars

-----------------------------------------------------------------------------
(* Properties.                                                              *)

TypeOK ==
  /\ LifeTypeOK
  /\ phase \in [Node -> {"assess", "transition", "open", "flush", "verify",
                         "rollback", "done"}]
  /\ faults \subseteq {"read", "write"}
  /\ params \in [Node -> Params]
  /\ text \in Seq(Line)
  /\ buffer \in [Node -> Seq(Line)]

\* All of `part` is in `whole`, in its order.
Within(part, whole) ==
  \E f \in [DOMAIN part -> DOMAIN whole] :
    /\ \A i \in DOMAIN part : whole[f[i]] = part[i]
    /\ \A i, j \in DOMAIN part : i < j => f[i] < f[j]

\* A line that was there before is never lost silently, nor the order of those
\* lines: only a node that reports a failed transition leaves a damaged file.
NoSilentLoss ==
  (\A n \in Node : phase[n] # "flush") =>
    Within(original, text) \/ \E n \in Node : "FAILURE" \in {result[n], undo[n]}

\* As long as no write fails, a line that a node inserted or found stays in the
\* file, whatever the nodes after it insert or roll back.
SucceededLinePresent ==
  "write" \notin faults /\ (\A n \in Node : phase[n] # "flush") =>
    \A n \in Node :
      outcome[n] \in {"SUCCESS", "SKIPPED_ALREADY_APPLIED"} =>
        params[n].line \in ToSet(text)

Occurrences(line, lines) == Cardinality({i \in DOMAIN lines : lines[i] = line})

\* A line that is in the file already is never inserted a second time, whatever
\* the nodes look for and wherever they put it.
LineOnce ==
  \A l \in Line : Occurrences(l, text) <= 1 \/ Occurrences(l, text) <= Occurrences(l, original)

\* The three functions that look for a position agree: without faults, the second
\* assessment finds the line where the transition has put it, for every placement,
\* unless its anchor matches the line itself; and the rollback finds a line just
\* when assess_state does.
PositionsAgree ==
  \A n \in Node :
    /\ faults = {} /\ outcome[n] = "FAILED_TRANSITION" => params[n].line \in Place(n).matches
    /\ Resolved(Place(n), text) =>
         (ExpectedPresent(Place(n), params[n].line, text)
            <=> PlacementLine(Place(n), params[n].line, text) # {})
=============================================================================
