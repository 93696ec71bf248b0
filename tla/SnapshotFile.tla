---------------------------- MODULE SnapshotFile ----------------------------
(***************************************************************************)
(* The file of L2 state snapshots (src/l2/L2State.cpp): each is appended   *)
(* as a header, one line per record and an end line, and the last one is   *)
(* read back by the verification tool.                                     *)
(*                                                                         *)
(* Snapshot n holds the records <<n, 1>> .. <<n, SnapshotRecords>>; what a *)
(* record says is left out.  A crash or a full disk cuts an append at any  *)
(* character.  The part of a line that was written then joins with the     *)
(* first line of the next append: one line that is neither.                *)
(***************************************************************************)
EXTENDS Integers, Sequences

CONSTANTS
  SnapshotRecords,   \* lines between header and end
  MaxSnapshots       \* bound on the appends

ASSUME SnapshotAssumption == SnapshotRecords \in Nat /\ MaxSnapshots \in Nat

VARIABLES
  file,       \* the complete lines
  torn,       \* what follows them: the beginning of a line, or "none"
  loaded,     \* what ailee_l2_verify read last
  appended,   \* history: the number of appends
  intact      \* history: the last append is complete and began on a line of its own

fileVars == <<file, torn, loaded, appended, intact>>

Header == [tag |-> "SNAPSHOT"]
End == [tag |-> "END_SNAPSHOT"]
Record(n, i) == [tag |-> "record", record |-> <<n, i>>]

\* A record whose number was cut: it is read, with what is left of the number.
Misread == [tag |-> "record", record |-> <<0, 0>>]
\* Any other line that is cut or joined, which no test of the reader matches.
Junk == [tag |-> "junk"]

\* appendSnapshotToFile, as captureSnapshot filled it.
Captured(n) == [i \in 1 .. SnapshotRecords |-> <<n, i>>]
Lines(n) == <<Header>> \o [i \in 1 .. SnapshotRecords |-> Record(n, i)] \o <<End>>

FileInit == file = <<>> /\ torn = "none" /\ loaded = <<>> /\ appended = 0 /\ intact = FALSE

-----------------------------------------------------------------------------
(* The reader.                                                             *)

Nothing == [inSnapshot |-> FALSE, current |-> <<>>, latest |-> <<>>]

\* Fault: the header does not start a new snapshot.
StartedOn(state) ==
  [inSnapshot |-> TRUE, current |-> state.current, latest |-> state.latest]

\* Fault: a header forgets the snapshot before it.
StartedFresh(state) == [inSnapshot |-> TRUE, current |-> <<>>, latest |-> <<>>]

\* What a header, an end line and a record make of the reader's state.
Started(state) == [inSnapshot |-> TRUE, current |-> <<>>, latest |-> state.latest]
Ended(state) == [inSnapshot |-> FALSE, current |-> state.current, latest |-> state.current]
Extended(state, record) ==
  [inSnapshot |-> TRUE, current |-> Append(state.current, record), latest |-> state.latest]

\* One turn of the loop of loadLatestSnapshotFromFile.
ReadLine(state, line) ==
  CASE line.tag = "SNAPSHOT" -> Started(state)
    [] line.tag = "END_SNAPSHOT" /\ state.inSnapshot -> Ended(state)
    [] line.tag = "record" /\ state.inSnapshot -> Extended(state, line.record)
    [] OTHER -> state

\* The whole loop.
ReadThrough(lines) ==
  LET after[n \in 0 .. Len(lines)] ==
        IF n = 0 THEN Nothing ELSE ReadLine(after[n - 1], lines[n])
  IN  after[Len(lines)]

\* <<>> when there is none.  A last line without its newline is read as well.
LoadLatestSnapshot ==
  LET rest == CASE torn = "none" -> <<>>
                [] torn = "number" -> <<Misread>>
                [] torn = "end" -> <<End>>
                [] torn = "other" -> <<Junk>>
  IN  ReadThrough(file \o rest).latest

-----------------------------------------------------------------------------
\* What the lines of the next append become: its first one joins the torn line.
Joined(lines) ==
  CASE torn = "none" -> lines
    [] torn = "number" -> <<Misread>> \o Tail(lines)
    [] torn \in {"end", "other"} -> <<Junk>> \o Tail(lines)

AppendSnapshot ==
  /\ appended < MaxSnapshots
  /\ appended' = appended + 1
  /\ file' = file \o Joined(Lines(appended'))
  /\ torn' = "none"
  /\ intact' = (torn = "none")
  /\ UNCHANGED loaded

\* k lines are written, and then, unless cut is "none", the beginning of the next one:
\* up to the middle of its number, or the whole end line without its newline.
CutAppend(k, cut) ==
  /\ appended < MaxSnapshots
  /\ appended' = appended + 1
  /\ LET lines == Lines(appended')
     IN  /\ cut = "number" => lines[k + 1].tag = "record"
         /\ cut = "end" => lines[k + 1] = End
         /\ file' = file \o (IF k = 0 THEN <<>> ELSE SubSeq(Joined(lines), 1, k))
         /\ torn' = IF k = 0 /\ torn # "none" THEN (IF cut = "none" THEN torn ELSE "other") ELSE cut
  /\ intact' = FALSE
  /\ UNCHANGED loaded

ReadBack ==
  /\ loaded' = LoadLatestSnapshot
  /\ UNCHANGED <<file, torn, appended, intact>>

FileNext ==
  \/ AppendSnapshot
  \/ \E k \in 0 .. SnapshotRecords + 1, cut \in {"none", "number", "end", "other"} : CutAppend(k, cut)
  \/ ReadBack

FileSpec == FileInit /\ [][FileNext]_fileVars

-----------------------------------------------------------------------------
(* Properties.                                                             *)

\* A snapshot whose append is complete and began on a line of its own is what the
\* reader returns, whatever was left in the file by the appends before it.
IntactSnapshotLoaded == intact => LoadLatestSnapshot = Captured(appended)

\* The reader never loses a snapshot to a later append that was cut between two
\* lines (no line of the file is torn or joined).
CutsBetweenLinesHarmless ==
  LET Ends == {i \in DOMAIN file : file[i] = End}
  IN  (torn = "none" /\ \A i \in DOMAIN file : file[i] \notin {Misread, Junk}) =>
        IF Ends = {} THEN LoadLatestSnapshot = <<>>
        ELSE LET last == CHOOSE i \in Ends : \A j \in Ends : j <= i
             IN  LoadLatestSnapshot = Captured(file[last - 1].record[1])

\* No append that was cut between lines costs a snapshot: neither the one that comes
\* after it nor the one before.
SnapshotsSurvive == IntactSnapshotLoaded /\ CutsBetweenLinesHarmless

=============================================================================
