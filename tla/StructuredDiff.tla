--------------------------- MODULE StructuredDiff ---------------------------
(***************************************************************************)
(* kadiff: the program that "kubectl diff" calls to compare each object as *)
(* the server has it with the object as an apply would make it             *)
(* (pkg/cluster/diff/diff.go, cmd/kadiff).  What it does not report, the   *)
(* plan does not show.                                                     *)
(*                                                                         *)
(* A file is a sequence of lines and a line a sequence of tokens.  Three   *)
(* tokens stand for what the reader of a file looks at: the text           *)
(* "  managedFields:", an item of a list in the metadata ("  -") and an    *)
(* indentation of three or more blanks.  Every other token counts as one   *)
(* character.  The context lines, the clipping of a whole diff at MaxSize  *)
(* and the line counts are display and are left out.                       *)
(***************************************************************************)
EXTENDS Naturals, Sequences, FiniteSets, TLC

CONSTANTS
    Names,          \* Files in the two directories, in their order.
    Files,          \* What a file may hold.
    NoFile,         \* A name that one of the directories lacks.
    MaxLineLength,  \* max_diff_line_length.
    MaxScan         \* The longest line that the scanner takes.

ASSUME DiffAssumption ==
    /\ Names \subseteq Nat
    /\ IsFiniteSet(Names)
    /\ MaxLineLength \in Nat
    /\ MaxScan \in Nat
    /\ NoFile \notin Files

VARIABLES
    old,            \* The directory with the objects of the server.
    new,            \* The directory with the objects to be.
    todo,           \* Names still to be compared.
    results,        \* What has been found to differ.
    status          \* "running", "done" or "error".

vars == <<old, new, todo, results, status>>

-----------------------------------------------------------------------------
(* Reading a file: getFileLines.                                           *)

StartsWith(line, tokens) == line # <<>> /\ line[1] \in tokens
OpensManaged(line) == StartsWith(line, {"managedFields"})
StaysManaged(line) == StartsWith(line, {"item", "deep"})

\* A line longer than the limit ends in the number of characters it lost.
Trim(line) ==
    IF Len(line) <= MaxLineLength
    THEN line
    ELSE SubSeq(line, 1, MaxLineLength)
            \o <<"omitted " \o ToString(Len(line) - MaxLineLength)>>

\* Mutant of ReadLine: an indented line never ends the chunk, nor any other.
ReadLineForever(state, line) ==
    IF OpensManaged(line) \/ state.inside
    THEN [state EXCEPT !.inside = TRUE]
    ELSE [inside |-> FALSE, lines |-> Append(state.lines, Trim(line))]

\* Mutant of ReadLine: list items are taken for the end of the chunk.
ReadLineItems(state, line) ==
    IF OpensManaged(line) \/ (state.inside /\ StartsWith(line, {"deep"}))
    THEN [state EXCEPT !.inside = TRUE]
    ELSE [inside |-> FALSE, lines |-> Append(state.lines, Trim(line))]

\* The metadata.managedFields chunk is dropped: the server changes it on
\* every request.
ReadLine(state, line) ==
    IF OpensManaged(line) \/ (state.inside /\ StaysManaged(line))
    THEN [state EXCEPT !.inside = TRUE]
    ELSE [inside |-> FALSE, lines |-> Append(state.lines, Trim(line))]

\* What has been kept after each number of lines.
ReadUpTo(file) ==
    LET state[i \in 0..Len(file)] ==
            IF i = 0
            THEN [inside |-> FALSE, lines |-> <<>>]
            ELSE ReadLine(state[i - 1], file[i])
    IN  state

Lines(file) == IF file = NoFile THEN <<>> ELSE ReadUpTo(file)[Len(file)].lines

\* The bytes of the first lines, without what separates them.
JoinedUpTo(lines) ==
    LET text[i \in 0..Len(lines)] ==
            IF i = 0 THEN <<>> ELSE text[i - 1] \o lines[i]
    IN  text

\* The hash covers the bytes of all lines.  A missing file has no hash, and
\* that is not the hash of an empty file.
Hash(file) ==
    IF file = NoFile
    THEN <<"no hash">>
    ELSE JoinedUpTo(Lines(file))[Len(Lines(file))]

Scannable(file) ==
    file # NoFile => \A i \in DOMAIN file : Len(file[i]) <= MaxScan

-----------------------------------------------------------------------------
(* evalDiffs and DiffKube.                                                 *)

\* What is reported for a name: nothing if the hashes agree, and nothing if
\* the unified diff is empty.
EvalDiffs(name) ==
    LET was == Lines(old[name])
        becomes == Lines(new[name])
    IN  IF Hash(old[name]) = Hash(new[name]) \/ was = becomes
        THEN {}
        ELSE {[name |-> name,
               operation |-> IF was = <<>> THEN "create"
                             ELSE IF becomes = <<>> THEN "delete"
                             ELSE "update"]}

Init ==
    /\ old \in [Names -> Files \cup {NoFile}]
    /\ new \in [Names -> Files \cup {NoFile}]
    /\ todo = {name \in Names : old[name] # NoFile \/ new[name] # NoFile}
    /\ results = {}
    /\ status = "running"

IsNext(name) == \A other \in todo : name <= other

\* Mutant of CompareNext: a file that cannot be read is passed over.
CompareReadable ==
    /\ status = "running"
    /\ \E name \in todo :
          /\ IsNext(name)
          /\ results' = results \cup EvalDiffs(name)
          /\ todo' = todo \ {name}
    /\ UNCHANGED <<old, new, status>>

CompareNext ==
    /\ status = "running"
    /\ \E name \in todo :
          /\ IsNext(name)
          /\ Scannable(old[name])
          /\ Scannable(new[name])
          /\ results' = results \cup EvalDiffs(name)
          /\ todo' = todo \ {name}
    /\ UNCHANGED <<old, new, status>>

\* An error, of either file, is all that DiffKube returns.
ReadFails ==
    /\ status = "running"
    /\ \E name \in todo :
          /\ IsNext(name)
          /\ ~(Scannable(old[name]) /\ Scannable(new[name]))
    /\ results' = {}
    /\ status' = "error"
    /\ UNCHANGED <<old, new, todo>>

Return ==
    /\ status = "running"
    /\ todo = {}
    /\ status' = "done"
    /\ UNCHANGED <<old, new, todo, results>>

Next == CompareNext \/ ReadFails \/ Return

Spec == Init /\ [][Next]_vars

-----------------------------------------------------------------------------
(* Properties.                                                             *)

Reported(name) == \E result \in results : result.name = name

\* A line belongs to the managed fields if one above it opens them and every
\* line from there on stays in them.
IsManaged(file, i) ==
    \E m \in 1..i :
        /\ OpensManaged(file[m])
        /\ \A k \in (m + 1)..i : OpensManaged(file[k]) \/ StaysManaged(file[k])

\* The lines outside the managed fields, in order.
OwnLines(file) ==
    IF file = NoFile THEN {} ELSE {i \in 1..Len(file) : ~IsManaged(file, i)}

Own(file) ==
    [k \in 1..Cardinality(OwnLines(file)) |->
        file[CHOOSE i \in OwnLines(file) :
                Cardinality(OwnLines(file) \cap 1..i) = k]]

\* No spurious diffs: what is reported differs in more than the fields that
\* the server manages.  (getFileLines; its comment on managedFields.)
NoSpuriousDiff ==
    \A name \in Names : Reported(name) => Own(old[name]) # Own(new[name])

\* The change of a single line that is short enough to be shown is always
\* reported, wherever the line stands.  (getFileLines and the comparison of
\* hashes in evalDiffs.)
LineChangeReported ==
    status = "done" =>
        \A name \in Names :
            LET was == Own(old[name])
                becomes == Own(new[name])
            IN  (/\ Len(was) = Len(becomes)
                 /\ \E i \in DOMAIN was :
                       /\ was[i] # becomes[i]
                       /\ Len(was[i]) <= MaxLineLength
                       /\ Len(becomes[i]) <= MaxLineLength
                       /\ \A k \in DOMAIN was \ {i} : was[k] = becomes[k])
                => Reported(name)

\* A result is about every file or there is none: a file that cannot be read
\* in full leaves no plan that looks complete.  (The error returns of
\* DiffKube and evalDiffs.)
CompleteOrFailed ==
    /\ status = "done" =>
          \A name \in Names : Scannable(old[name]) /\ Scannable(new[name])
    /\ status = "error" => results = {}

=============================================================================
