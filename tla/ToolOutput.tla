----------------------------- MODULE ToolOutput -----------------------------
(* compactToolResult: what the model sees of a tool result that is over the *)
(* budget, and what retrieve_artifact gives back of it.  An output is a     *)
(* sequence of lines (or JSON rows), some of them notable, some of them of  *)
(* the form file:line:body (file[i] # 0); sizes count lines.  A view is the *)
(* set of line numbers shown, printed in rising order but for the matches   *)
(* of a search, which are grouped by file.                                  *)
EXTENDS Integers, Sequences, FiniteSets, FiniteSetsExt, SequencesExt

CONSTANTS
  Budget,       \* lines of a result the model may see whole
  MaxLength,    \* longest output tried
  EdgeLines,    \* head and tail lines a log keeps (20)
  Radius,       \* lines kept around a notable line (3 in logs, 2 in queries)
  MaxLogLines,  \* lines a log keeps at most (80)
  MaxItems,     \* JSON rows kept at most (8 to 24)
  PerFile,      \* matches kept of one file (5)
  MaxFiles,     \* files kept of a search (18)
  ProbedLines,  \* lines looked at to tell a search (30)
  MinMatches,   \* of them, lines that parse to take it for one (3)
  Layouts       \* bound: which line is of which file, 0 for a line that does not parse

ASSUME ToolOutputAssumption ==
  /\ {Budget, MaxLength, EdgeLines, MaxLogLines, MaxItems, PerFile, MaxFiles,
      ProbedLines, MinMatches} \subseteq Nat \ {0}
  /\ Radius \in Nat
  /\ Layouts \subseteq [1..MaxLength -> Nat]
  /\ Budget >= 5   \* a share of every part of a cut is left (the code: 16000 characters)

VARIABLES
  output,     \* what the tool returned
  view,       \* the lines the model is shown
  strategy,   \* how they were chosen
  blob,       \* .forge/artifacts/<task>/<sha>.bin
  retrieved,  \* the lines of the last answer of retrieve_artifact
  bounded     \* that answer says it was cut at max_bytes

outputVars == <<output, view, strategy, blob, retrieved, bounded>>

NoOutput == [kind |-> "none", notable |-> <<>>, file |-> <<>>]
NoBlob == [kind |-> "missing", notable |-> <<>>, file |-> <<>>]

Size(o) == Len(o.notable)
Notable(o) == {i \in 1..Size(o) : o.notable[i]}
FirstOf(S, k) == {i \in S : Cardinality({j \in S : j < i}) < k}
LastOf(S, k) == {i \in S : Cardinality({j \in S : j > i}) < k}
Around(S, n) == (UNION {(i - Radius)..(i + Radius) : i \in S}) \cap 1..n
Sampled(kept, every, max) == kept \cup FirstOf(every \ kept, max - Cardinality(kept))

\* Mutant: only the end of a text that is still too long is kept.
BoundTextTail(S) ==
  IF Cardinality(S) <= Budget + 1 THEN S ELSE LastOf(S, Budget)

(* boundText: three quarters from the front, a fifth from the end.          *)
BoundText(S) ==
  IF Cardinality(S) <= Budget + 1 THEN S
  ELSE FirstOf(S, (Budget * 3) \div 4) \cup LastOf(S, Budget \div 5)

(* compressJsonArray: not taken when it would drop nothing.                 *)
JsonRows(o) ==
  LET n == Size(o)
      edges == 1..Min({3, n}) \cup Max({1, n - 1})..n \cup Notable(o)
      step == Max({1, n \div Max({1, MaxItems - Cardinality(edges)})})
  IN Sampled(edges, {i \in 1..n : (i - 1) % step = 0}, MaxItems)
IsJson(o) == o.kind = "array" /\ Size(o) >= 6 /\ JsonRows(o) # 1..Size(o)

(* parseSearchLine, and looksLikeSearchResults: the first lines decide, and *)
(* a log whose lines start with a time passes for a search.                 *)
Parsed(o) == {i \in 1..Size(o) : o.file[i] # 0}
IsSearch(o) == Cardinality({i \in Parsed(o) : i <= ProbedLines}) >= MinMatches

(* compressSearchResults: lines that do not parse are skipped (one parses,  *)
(* or this would not be a search), the others are grouped by file, files in *)
(* the order of their first match; selectImportantLines of each file.       *)
Matches(o, f) == {i \in Parsed(o) : o.file[i] = f}
FirstMatch(o, i) == Min(Matches(o, o.file[i]))
Important(o, f) ==
  LET lines == Matches(o, f)
      edges == {Min(lines), Max(lines)}
      chosen == edges \cup FirstOf((Notable(o) \cap lines) \ edges, PerFile - Cardinality(edges))
      step == Max({1, Cardinality(lines) \div PerFile})
  IN Sampled(chosen, {i \in lines : Cardinality({j \in lines : j < i}) % step = 0}, PerFile)
SearchMatches(o) ==
  UNION {Important(o, o.file[h]) : h \in FirstOf({FirstMatch(o, i) : i \in Parsed(o)}, MaxFiles)}

(* boundText cuts the matches as they are printed.                          *)
PrintedBefore(o, i, j) ==
  \/ FirstMatch(o, i) < FirstMatch(o, j)
  \/ FirstMatch(o, i) = FirstMatch(o, j) /\ i < j
PrintedAt(o, S, i) == Cardinality({j \in S : PrintedBefore(o, j, i)}) + 1
BoundMatches(o, S) == {i \in S : PrintedAt(o, S, i) \in BoundText(1..Cardinality(S))}

(* compressLog: the cut to MaxLogLines is made from the front.              *)
LogLines(o) ==
  FirstOf(1..Min({EdgeLines, Size(o)}) \cup Max({1, Size(o) - EdgeLines + 1})..Size(o)
          \cup Around(Notable(o), Size(o)), MaxLogLines)

HeadTail(o) == FirstOf(1..Size(o), (Budget * 18) \div 25) \cup LastOf(1..Size(o), (Budget * 11) \div 50)

(* compressByContentType                                                    *)
StrategyOf(o) ==
  IF IsJson(o) THEN "json_array"
  ELSE IF IsSearch(o) THEN "search_results"
  ELSE IF o.kind \in {"diff_or_code", "log"} THEN o.kind ELSE "head_tail"
Compressed(o) ==
  IF StrategyOf(o) = "json_array" THEN BoundText(JsonRows(o))
  ELSE IF StrategyOf(o) = "search_results" THEN BoundMatches(o, SearchMatches(o))
  ELSE IF StrategyOf(o) = "log" THEN BoundText(LogLines(o)) ELSE HeadTail(o)

OutputInit == output = NoOutput /\ view = {} /\ strategy = "none" /\ blob = NoBlob /\ retrieved = {} /\ bounded = FALSE

ToolReturns ==
  /\ output = NoOutput
  /\ \E kind \in {"array", "diff_or_code", "log", "other"}, n \in 2..MaxLength, layout \in Layouts :
       \E notable \in [1..n -> BOOLEAN] :
         output' = [kind |-> kind, notable |-> notable, file |-> [i \in 1..n |-> layout[i]]]
  /\ UNCHANGED <<view, strategy, blob, retrieved, bounded>>

Passthrough ==
  /\ strategy = "none" /\ output # NoOutput /\ Size(output) <= Budget
  /\ strategy' = "passthrough" /\ view' = 1..Size(output)
  /\ UNCHANGED <<output, blob, retrieved, bounded>>

(* The exact output is on disk before the marker that names it is shown.    *)
Compact ==
  /\ strategy = "none" /\ Size(output) > Budget
  /\ blob' = output
  /\ strategy' = StrategyOf(output) /\ view' = Compressed(output)
  /\ UNCHANGED <<output, retrieved, bounded>>

(* retrieve_artifact with a query for the notable lines, or without one;    *)
(* the answer is cut at max_bytes from the front, and says so.              *)
Retrieve(byQuery, maxLines) ==
  LET selected == IF byQuery THEN Around(Notable(blob), Size(blob)) ELSE 1..Size(blob) IN
  /\ blob # NoBlob
  /\ retrieved' = FirstOf(selected, maxLines)
  /\ bounded' = (Cardinality(selected) > maxLines)
  /\ UNCHANGED <<output, view, strategy, blob>>

OutputNext ==
  \/ ToolReturns \/ Passthrough \/ Compact
  \/ \E byQuery \in BOOLEAN, maxLines \in {EdgeLines, MaxLength} : Retrieve(byQuery, maxLines)

OutputSpec == OutputInit /\ [][OutputNext]_outputVars
-----------------------------------------------------------------------------
(* Whatever is compressed stays within the budget and is stored whole.  Its *)
(* first line is kept, except by a search: that shows the first line that   *)
(* parses and none that does not (a log taken for a search loses those from *)
(* view).  All but logs and searches keep their last line, and an answer of *)
(* retrieve_artifact that does not say it was cut has every notable line.   *)
NothingIsLost ==
  /\ strategy = "passthrough" => view = 1..Size(output)
  /\ strategy \notin {"none", "passthrough"} =>
       /\ blob = output
       /\ view \subseteq 1..Size(output) /\ Cardinality(view) <= Budget + 1
       /\ IF strategy = "search_results"
          THEN view \subseteq Parsed(output) /\ \E i \in view : \A j \in Parsed(output) : i <= j
          ELSE 1 \in view
       /\ strategy \in {"json_array", "diff_or_code", "head_tail"} => Size(output) \in view
       /\ retrieved # {} /\ ~bounded => Notable(output) \subseteq retrieved
=============================================================================
