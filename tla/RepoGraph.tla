------------------------------- MODULE RepoGraph -------------------------------
(***************************************************************************)
(* The repository graph: a walk that reads one file after the other while   *)
(* they may change, the graph stitched together from what was read, the     *)
(* queries over it, and the choice of affected tests made from it.          *)
(***************************************************************************)
EXTENDS Naturals, Sequences, FiniteSets, SequencesExt

CONSTANTS
  RepoFiles,     \* source files
  RepoNames,     \* names of functions
  Contents,      \* contents a file can have: [defines, calls, oneLiners, imports]
  FirstContent,  \* file -> its content at first
  Matched,       \* pattern of a query -> files whose path is or contains it
  Suites,        \* sequence of test suites: [path, files, related, topics]
  TwinOf,        \* test file -> the source file its name points to
  Beside,        \* pairs <<f, g>>: the path of g starts with the directory of f
  NamedIn,       \* pairs <<test file, name or file>>: its path contains it
  TopicsOf,      \* file -> routes, domains and tables it belongs to
  OwnedFiles,    \* files a domain boundary covers
  MaxFileEdits,  \* bound: edits
  MaxScans       \* bound: scans

(* A text defines names and calls names: on lines of their own ("calls") or *)
(* on the line of another function's definition ("oneLiners").  discoverTests *)
(* keeps its suites in a map by path.                                       *)
ASSUME GraphAssumption ==
  /\ IsFiniteSet(RepoFiles) /\ FirstContent \in [RepoFiles -> Contents]
  /\ \A p \in DOMAIN Matched : Matched[p] \subseteq RepoFiles
  /\ \A c \in Contents : c.defines \subseteq RepoNames
  /\ \A j, k \in DOMAIN Suites : Suites[j].path = Suites[k].path => Suites[j] = Suites[k]

VARIABLES
  content,     \* file -> its content
  toWalk,      \* files still to be walked, in the order the system lists them
  scanned,     \* what the scan under way has walked and read
  graph,       \* the graph GraphStore holds
  snapshot,    \* ghost: what the scan behind that graph walked and read
  fileEdits, scans

graphVars == <<content, toWalk, scanned, graph, snapshot, fileEdits, scans>>

NothingRead == [walked |-> <<>>, texts |-> [f \in {} |-> {}]]
EmptyGraph == [nodes |-> {}, edges |-> {}, defs |-> {}, calls |-> {}]
Elems(s) == {s[k] : k \in DOMAIN s}

FileNode(f) == <<"file", f>>
SymbolNode(d) == <<"symbol", d.file, d.name>>
TestNode(s) == <<"test", s.path>>
DomainNode == <<"domain", "boundary">>
Edge(a, b, type) == [source |-> a, target |-> b, type |-> type]

-----------------------------------------------------------------------------
(* buildGraph over what was read: "walked" is the order of the files,       *)
(* "texts" the contents that could be read.                                 *)
Definitions(read) ==
  {d \in [name : RepoNames, file : DOMAIN read.texts] : d.name \in read.texts[d.file].defines}

(* When a file was walked, which is the order of its definitions.           *)
WalkedAt(read, f) == CHOOSE k \in DOMAIN read.walked : read.walked[k] = f

(* Lines of a text that mention a name: where it is defined and called.     *)
Mentions(text, n) ==
  (IF n \in text.defines THEN {"definition"} ELSE {})
    \cup (IF n \in text.calls THEN {"call"} ELSE {})
    \cup (IF n \in text.oneLiners THEN {"one-liner"} ELSE {})

(* One edge per file, name and line: of the definitions of the name, other  *)
(* than the one on that very line, the first gets it.                       *)
Winner(read, f, n, line) ==
  LET eligible == {d \in Definitions(read) : d.name = n /\ ~(line = "definition" /\ d.file = f)}
  IN {d \in eligible : \A e \in eligible : WalkedAt(read, d.file) <= WalkedAt(read, e.file)}
ReferenceEdges(read) ==
  UNION {UNION {{Edge(FileNode(f), SymbolNode(d), "references") : d \in Winner(read, f, n, line)}
                  : line \in Mentions(read.texts[f], n)}
           : f \in DOMAIN read.texts, n \in RepoNames}

(* Variant: one pass, so a file knows only the definitions walked so far.   *)
CallSitesOnePass(read, defs) ==
  {c \in [caller : DOMAIN read.texts, callee : RepoNames] :
     /\ c.callee \in read.texts[c.caller].calls
     /\ \E d \in defs : d.name = c.callee /\ WalkedAt(read, d.file) <= WalkedAt(read, c.caller)}

(* A call on the line of a definition is passed over, whichever function it *)
(* calls.                                                                   *)
CallSites(read, defs) ==
  {c \in [caller : DOMAIN read.texts, callee : RepoNames] :
     /\ c.callee \in read.texts[c.caller].calls
     /\ \E d \in defs : d.name = c.callee}

(* What a file imports and what it calls get no node: the edges end in the  *)
(* name of a dependency and in the bare name of a function.                 *)
ImportEdges(read) ==
  UNION {{Edge(FileNode(f), <<"dep", i>>, "imports") : i \in read.texts[f].imports} : f \in DOMAIN read.texts}
CallEdges(calls) == {Edge(FileNode(c.caller), <<"name", c.callee>>, "calls") : c \in calls}

(* From the repository map: suites test their files, walked or not, and the *)
(* twins of those that were walked; a boundary owns what has a path in it.  *)
TestEdges(nodes) ==
  UNION {{Edge(TestNode(s), FileNode(f), "tests") :
            f \in s.files \cup {g \in {TwinOf[t] : t \in s.files} : FileNode(g) \in nodes}} : s \in Elems(Suites)}
OwnedEdges(nodes) ==
  {Edge(n, DomainNode, "owned_by") : n \in {x \in nodes : x[2] \in OwnedFiles}}

BuildGraph(read) ==
  LET defs == Definitions(read)
      nodes == {FileNode(f) : f \in Elems(read.walked)} \cup {SymbolNode(d) : d \in defs}
                 \cup {TestNode(s) : s \in Elems(Suites)}
  IN [nodes |-> nodes \cup {DomainNode},
      edges |-> {Edge(FileNode(d.file), SymbolNode(d), "defines") : d \in defs}
                  \cup ImportEdges(read) \cup ReferenceEdges(read) \cup CallEdges(CallSites(read, defs))
                  \cup TestEdges(nodes) \cup OwnedEdges(nodes),
      defs |-> defs,
      calls |-> CallSites(read, defs)]

-----------------------------------------------------------------------------
GraphInit ==
  /\ content = FirstContent
  /\ toWalk = <<>> /\ scanned = NothingRead
  /\ graph = EmptyGraph /\ snapshot = NothingRead
  /\ fileEdits = 0 /\ scans = 0

BeginScan ==
  /\ toWalk = <<>> /\ scanned = NothingRead /\ scans < MaxScans
  /\ scans' = scans + 1
  /\ \E s \in SetToSeqs(RepoFiles) : toWalk' = s
  /\ UNCHANGED <<content, scanned, graph, snapshot, fileEdits>>

(* The node of a file is made before it is read; one that cannot be read    *)
(* stays a bare node.                                                       *)
WalkFile ==
  /\ toWalk # <<>>
  /\ toWalk' = Tail(toWalk)
  /\ LET f == Head(toWalk)
     IN \E readable \in BOOLEAN :
          scanned' = [walked |-> Append(scanned.walked, f),
                      texts |-> [g \in DOMAIN scanned.texts \cup (IF readable THEN {f} ELSE {}) |->
                                   IF g = f THEN content[f] ELSE scanned.texts[g]]]
  /\ UNCHANGED <<content, graph, snapshot, fileEdits, scans>>

(* The second pass works on the contents in memory; then GraphStore.set.    *)
EndScan ==
  /\ toWalk = <<>> /\ scanned # NothingRead
  /\ graph' = BuildGraph(scanned) /\ snapshot' = scanned
  /\ scanned' = NothingRead
  /\ UNCHANGED <<content, toWalk, fileEdits, scans>>

EditFile(f) ==
  /\ fileEdits < MaxFileEdits /\ fileEdits' = fileEdits + 1
  /\ \E c \in Contents \ {content[f]} : content' = [content EXCEPT ![f] = c]
  /\ UNCHANGED <<toWalk, scanned, graph, snapshot, scans>>

GraphNext == BeginScan \/ WalkFile \/ EndScan \/ \E f \in RepoFiles : EditFile(f)

RepoGraphSpec == GraphInit /\ [][GraphNext]_graphVars

-----------------------------------------------------------------------------
(* GraphQuery *)
FindDefinitions(n) == {d.file : d \in {e \in graph.defs : e.name = n}}
FindCallers(n) == {c.caller : c \in {d \in graph.calls : d.callee = n}}
FindAffectedTests(pattern) ==
  {s \in Elems(Suites) : \E f \in Matched[pattern] :
     FileNode(f) \in graph.nodes /\ Edge(TestNode(s), FileNode(f), "tests") \in graph.edges}

(* findDependencyPath: hops from one node to another, OutOfReach beyond four.   *)
OutOfReach == 9
MaxHops == 4
Onward(S) == S \cup {e.target : e \in {d \in graph.edges : d.source \in S /\ d.target \in graph.nodes}}
Levels(a) ==
  LET level[k \in 0 .. MaxHops] == IF k = 0 THEN {a} ELSE Onward(level[k - 1])
  IN level
Hops(a, b) ==
  LET level == Levels(a)
      within == {k \in 0 .. MaxHops : b \in level[k]}
  IN IF within = {} THEN OutOfReach ELSE CHOOSE k \in within : \A j \in within : k <= j

(* AffectedTestSelector.select *)
SymbolsIn(files) == {d.name : d \in {e \in graph.defs : \E f \in files : e.file = f \/ <<f, e.file>> \in Beside}}
Affected(files) == SymbolsIn(files) \cup UNION {FindCallers(n) : n \in SymbolsIn(files)}
ByRelation(files) ==
  {s \in Elems(Suites) : \E f \in files, r \in s.related : f = r \/ <<r, f>> \in Beside}
ByTopic(files) == {s \in Elems(Suites) : s.topics \cap UNION {TopicsOf[f] : f \in files} # {}}
(* A test edge leads from the suite to the file, so only a change of the    *)
(* suite's own path follows it: to the first suite with the target.         *)
ByEdge(files) ==
  LET targets == {e.target[2] : e \in {d \in graph.edges :
                    d.type = "tests" /\ d.source[2] \in files /\ d.target \in graph.nodes}}
      at(t) == {k \in DOMAIN Suites : t \in Suites[k].files}
  IN UNION {{Suites[k] : k \in {i \in at(t) : \A j \in at(t) : i <= j}} : t \in targets}
SelectTests(files) ==
  UNION {s.files : s \in ByRelation(files) \cup ByTopic(files) \cup ByEdge(files)}
    \cup {t \in UNION {s.files : s \in Elems(Suites)} : \E x \in Affected(files) : <<t, x>> \in NamedIn}

-----------------------------------------------------------------------------
(* Whatever the order of the walk, the edits meanwhile and the files that   *)
(* could not be read, the graph answers for the texts the scan read, and    *)
(* for all of them: definitions; callers, but for those that call on the    *)
(* line of a definition; a reference for every call of a defined name,      *)
(* those passed over as calls included; and the tests of any walked file a  *)
(* pattern matches.                                                         *)
AnswersForWhatWasRead ==
  LET texts == snapshot.texts
      defined(n) == {f \in DOMAIN texts : n \in texts[f].defines}
  IN /\ \A n \in RepoNames :
          /\ FindDefinitions(n) = defined(n)
          /\ FindCallers(n) = {f \in DOMAIN texts : n \in texts[f].calls /\ defined(n) # {}}
          /\ \A f \in DOMAIN texts : (n \in texts[f].calls \cup texts[f].oneLiners /\ defined(n) # {}) =>
               \E g \in defined(n) : Edge(FileNode(f), <<"symbol", g, n>>, "references") \in graph.edges
     /\ \A p \in DOMAIN Matched :
          FindAffectedTests(p) =
            {s \in Elems(Suites) : \E f \in Matched[p] \cap Elems(snapshot.walked) :
               f \in s.files \/ \E t \in s.files : TwinOf[t] = f}

(* Edges start in nodes; those of imports and calls end in none, so that no *)
(* path follows them, and of the others only a test's, of a file that was   *)
(* not walked.  A path found is a shortest one.                             *)
EdgesEndAsTyped ==
  \A e \in graph.edges :
    /\ e.source \in graph.nodes
    /\ e.type \in {"imports", "calls"} => e.target \notin graph.nodes
    /\ e.target \notin graph.nodes => e.type \in {"imports", "calls", "tests"}
PathsAreShortest ==
  \A s \in Elems(Suites), b \in graph.nodes :
    LET a == TestNode(s)
        before == {e.source : e \in {d \in graph.edges : d.target = b}}
    IN (b # a /\ Hops(a, b) # OutOfReach) =>
         /\ \E c \in before : Hops(a, c) + 1 = Hops(a, b)
         /\ \A c \in before : Hops(a, c) + 1 >= Hops(a, b)

(* A change of more files never selects fewer tests.                        *)
SelectionGrows ==
  \A big \in SUBSET RepoFiles, f \in RepoFiles : SelectTests(big) \subseteq SelectTests(big \cup {f})

GraphHolds ==
  snapshot # NothingRead =>
    AnswersForWhatWasRead /\ EdgesEndAsTyped /\ PathsAreShortest /\ SelectionGrows
=============================================================================
