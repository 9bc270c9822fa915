----------------------------- MODULE ModuleLoader -----------------------------
(***************************************************************************)
(* The module loader of fardrun (src/bin/fardrun.rs, ModuleLoader): the    *)
(* cache of exports, the stack of imports that finds cycles, the module    *)
(* graph, the lock file and the module_resolve events.  A loader serves    *)
(* one run of a program, or a REPL or the tests of a program, which go on  *)
(* with the same loader after an error.  A run goes on after an error too  *)
(* where it is caught: `?` unwinds to the nearest call of a function that  *)
(* is walked, and a server answers any error of its handler.  Files may    *)
(* change while they are being loaded.                                     *)
(*                                                                         *)
(* A text is its own digest, and what a module exports is named by its     *)
(* text.  Of a text only what reaches the loader is kept, its Source.      *)
(***************************************************************************)
EXTENDS Naturals, Sequences

CONSTANTS
  Names,     \* the names that import items give
  Builtins,  \* those of standard modules that exist
  Kind,      \* the kind of each name
  Files,     \* the files modules come from
  Dirs,      \* their directories
  Locate,    \* Locate[n][here]: the file that n names when imported from here
  DirOf,     \* the directory of each file
  Texts,     \* what a file may hold
  Source,    \* the parts of each text that reach the loader
  Main,      \* the file of the program
  Here,      \* the current directory of the process
  Worlds,    \* the contents of the files at the start
  Locks,     \* the lock files: a digest or NoEntry for each name
  Lines,     \* the lines typed into the REPL, and the tests: sequences of items
  MaxLines,  \* bound on their number
  Edits,     \* the changes somebody may make: pairs of a file and a text
  MaxEdits,  \* bound on their number
  Absent, Nowhere, NoLock, NoEntry, NotCached, Unknown, Prompt

Kinds == {"std", "pkg", "registry", "rel", "lib"}

\* "import" is an import item, or the load of a standard module by a method
\* call.  The other loads are import items in a text given to std/eval: by
\* the text itself ("eval"), by a call of a walked function ("try"), or by a
\* handler of net.serve ("serve").  "unwind" is `?` applied to an error, out
\* of any function; "fail" is any other item whose evaluation fails.
Loads == {"import", "eval", "try", "serve"}

Items == [do : Loads, name : Names] \union [do : {"fail", "unwind"}]

ASSUME LoaderAssumption ==
  /\ Kind \in [Names -> Kinds]
  /\ Builtins \subseteq Names
  /\ Locate \in [Names -> [Dirs -> Files \union {Nowhere}]]
  /\ DirOf \in [Files -> Dirs]
  /\ Here \in Dirs
  /\ Main \in Files
  /\ Main \notin Names
  /\ Prompt \notin Names \union {Main}
  /\ Source \in [Texts -> [items : Seq(Items), parses : BOOLEAN, record : BOOLEAN]]
  /\ Absent \notin Texts
  /\ Worlds \subseteq [Files -> Texts \union {Absent}]
  /\ Lines \subseteq Seq(Items)
  /\ Edits \subseteq Files \X (Texts \union {Absent})
  /\ NotCached \notin Texts \union Names
  /\ NoLock \notin Locks
  /\ Unknown # NoEntry
  /\ Unknown \notin Names
  /\ NoEntry \notin Texts \union Names
  /\ MaxLines \in Nat
  /\ MaxEdits \in Nat

VARIABLES
  mode,      \* "run", "test" or "repl"
  lock,      \* the lock file, or NoLock
  enforce,   \* --enforce-lockfile
  files,     \* the contents of the files
  cache,     \* the exports of the modules that are loaded
  stack,     \* the names of imports that were begun
  nodes,     \* the module graph: the nodes in the order of their ids, with digests
  edges,     \* and the edges, pairs of importer and imported
  frames,    \* the calls of load_module, from the outermost
  events,    \* the module_resolve events of this loader
  outcome,   \* how the last evaluation ended, or the error that was last caught
  lines,     \* the number of lines, or tests, so far
  edits,     \* the number of changes of files so far
  base,      \* history: how many loads were left by an error
  left,      \* history: which, and how many events there were then
  ran        \* history: the texts that were evaluated as modules

fixed == <<mode, lock, enforce>>
graph == <<nodes, edges>>
past == <<base, left>>
told == <<stack, cache, outcome, past>>
vars == <<fixed, files, cache, stack, graph, frames, events, outcome, lines, edits, past, ran>>

Top == frames[Len(frames)]

SetTop(f) == [frames EXCEPT ![Len(frames)] = f]

Active == frames # <<>>

\* Whether f is a call of load_module, and not the program or a line.
IsModule(f) == f.name \in Names

Tag(why, name) == [why |-> why, name |-> name]

\* The loads above the k-th call are left: nothing pops their names.
Leave(k) ==
  /\ base' = base + (Len(frames) - k)
  /\ left' = left \union {[name |-> frames[i].name, when |-> Len(events)] : i \in k + 1 .. Len(frames)}

\* The boundary of a call catches `?`, and a server every error.
Catches(item, why) ==
  \/ item.do = "serve"
  \/ item.do = "try" /\ why = "unwind"

CatchesAt(k, why) == frames[k].items # <<>> /\ Catches(Head(frames[k].items), why)

\* Whether the first n of these items may be loads of the same call, which
\* does nothing more when it catches an error.
SameCall(items, n) == \A i \in 1 .. n : items[i].do = Head(items).do

\* The k-th call goes on after n of its items.
GoesOn(k, n) ==
  [i \in 1 .. k |->
     IF i = k THEN [frames[k] EXCEPT !.items = SubSeq(@, n + 1, Len(@))] ELSE frames[i]]

\* An error leaves every call up to the one that catches it.
Fail(why, name) ==
  /\ outcome' = Tag(why, name)
  /\ \/ /\ \A k \in 1 .. Len(frames) : ~CatchesAt(k, why)
        /\ frames' = <<>>
        /\ Leave(1)
     \/ \E k \in 1 .. Len(frames) :
          /\ CatchesAt(k, why)
          /\ \A i \in k + 1 .. Len(frames) : ~CatchesAt(i, why)
          /\ \E n \in 1 .. Len(frames[k].items) :
               /\ SameCall(frames[k].items, n)
               /\ frames' = GoesOn(k, n)
          /\ Leave(k)
  /\ UNCHANGED <<stack, cache>>

-----------------------------------------------------------------------------
(* Lock file and module graph *)

Expected(name) == IF lock = NoLock THEN NoEntry ELSE lock[name]

\* Variant of Allows: a mismatch counts only when the lock file is enforced.
AllowsMismatch(name, digest) ==
  \/ Expected(name) = digest
  \/ ~enforce

\* Variant of Allows: a missing entry is never an error.
AllowsMissing(name, digest) == Expected(name) \in {NoEntry, digest}

\* check_lock
Allows(name, digest) ==
  \/ Expected(name) = digest
  \/ Expected(name) = NoEntry /\ ~enforce

Node(spec, digest) == [spec |-> spec, digest |-> digest]

\* Only the first import of a module is noted: a cached one returns before.
NoteImport(name) ==
  /\ nodes' = IF \E i \in DOMAIN nodes : nodes[i].spec = name
              THEN nodes
              ELSE Append(nodes, Node(name, IF Kind[name] = "std" THEN name ELSE NoEntry))
  /\ edges' = IF Top.name = Prompt THEN edges ELSE Append(edges, <<Top.name, name>>)

-----------------------------------------------------------------------------
(* Beginning and end of an evaluation *)

Frame(name, file, at) ==
  [name |-> name, file |-> file, at |-> at, here |-> Here, items |-> <<>>, text |-> Absent,
   steady |-> TRUE]

NothingCached == [n \in Names |-> NotCached]

\* A run needs a lock file to enforce one; tests and REPL have none.
Init ==
  /\ cache = NothingCached
  /\ stack = <<>>
  /\ base = 0 /\ left = {}
  /\ nodes = <<>> /\ edges = <<>>
  /\ events = <<>>
  /\ ran = {}
  /\ files \in Worlds
  /\ lines = 0
  /\ edits = 0
  /\ outcome = Tag("none", Prompt)
  /\ \/ /\ mode = "run"
        /\ lock \in Locks \union {NoLock}
        /\ enforce \in (IF lock = NoLock THEN {FALSE} ELSE BOOLEAN)
        /\ frames = <<Frame(Main, Main, "source")>>
     \/ /\ mode = "test"
        /\ lock = NoLock
        /\ enforce = FALSE
        /\ frames = <<Frame(Prompt, Main, "source")>>
     \/ /\ mode = "repl"
        /\ lock = NoLock
        /\ enforce = FALSE
        /\ frames = <<>>

\* A test is an expression: its imports are those of the texts it evaluates.
IsTest(items) == \A i \in DOMAIN items : items[i].do # "import"

\* A line of the REPL, or a test once the items of the program are evaluated.
Line(items) ==
  /\ \/ mode = "repl"
     \/ mode = "test" /\ IsTest(items) /\ (lines > 0 \/ outcome.why = "ok")
  /\ ~Active
  /\ lines < MaxLines
  /\ frames' = <<[Frame(Prompt, Nowhere, "run") EXCEPT !.items = items]>>
  /\ lines' = lines + 1
  /\ outcome' = Tag("none", Prompt)
  /\ UNCHANGED <<fixed, files, cache, stack, graph, events, edits, past, ran>>

\* :reset
Reset ==
  /\ mode = "repl"
  /\ ~Active
  /\ cache' = NothingCached
  /\ stack' = <<>>
  /\ base' = 0 /\ left' = {}
  /\ nodes' = <<>> /\ edges' = <<>>
  /\ events' = <<>>
  /\ ran' = {}
  /\ outcome' = Tag("none", Prompt)
  /\ UNCHANGED <<fixed, files, frames, lines, edits>>

\* The last item of the program or of the line is done.
Finish ==
  /\ Active
  /\ Top.at = "run"
  /\ Top.items = <<>>
  /\ ~IsModule(Top)
  /\ frames' = <<>>
  /\ outcome' = Tag("ok", Top.name)
  /\ UNCHANGED <<fixed, files, cache, stack, graph, events, lines, edits, past, ran>>

-----------------------------------------------------------------------------
(* Items *)

ItemDone(f) == [f EXCEPT !.items = Tail(@)]

AtItem(do) == Active /\ Top.at = "run" /\ Top.items # <<>> /\ Head(Top.items).do \in do

AtImport == AtItem(Loads)

\* std/eval evaluates its text in the current directory.
HereOf(item) == IF item.do = "import" THEN Top.here ELSE Here

FirstStep(kind) ==
  CASE kind = "std" -> "resolve"
    [] kind = "pkg" -> "digest"
    [] OTHER        -> "source"

\* Variant of ImportCached: the item is not consumed.
ImportCachedAgain ==
  /\ AtImport
  /\ cache[Head(Top.items).name] # NotCached
  /\ UNCHANGED vars

ImportCached ==
  /\ AtImport
  /\ cache[Head(Top.items).name] # NotCached
  /\ frames' = SetTop(ItemDone(Top))
  /\ UNCHANGED <<fixed, files, cache, stack, graph, events, outcome, lines, edits, past, ran>>

Stacked(name) == \E i \in DOMAIN stack : stack[i] = name

ImportCycle ==
  /\ AtImport
  /\ LET name == Head(Top.items).name
     IN  /\ cache[name] = NotCached
         /\ Stacked(name)
         /\ Fail("cycle", name)
  /\ UNCHANGED <<fixed, files, graph, events, lines, edits, ran>>

ImportBegin ==
  /\ AtImport
  /\ LET item == Head(Top.items)
         name == item.name
     IN  /\ cache[name] = NotCached
         /\ ~Stacked(name)
         /\ stack' = Append(stack, name)
         /\ NoteImport(name)
         /\ frames' = Append(frames, Frame(name, Locate[name][HereOf(item)], FirstStep(Kind[name])))
  /\ UNCHANGED <<fixed, files, cache, events, outcome, lines, edits, past, ran>>

ItemFails ==
  /\ AtItem({"fail", "unwind"})
  /\ Fail(IF Head(Top.items).do = "unwind" THEN "unwind" ELSE "item", Top.name)
  /\ UNCHANGED <<fixed, files, graph, events, lines, edits, ran>>

-----------------------------------------------------------------------------
(* Loading a module.  Every read of its file is a step of its own. *)

Contents(file) == IF file = Nowhere THEN Absent ELSE files[file]

At(step) == Active /\ Top.at = step

Resolved(name, digest) == [name |-> name, digest |-> digest]

Resolve(name, digest) == events' = Append(events, Resolved(name, digest))

\* The caller goes on after its import.
ReturnToCaller ==
  [i \in 1 .. Len(frames) - 1 |-> IF i = Len(frames) - 1 THEN ItemDone(frames[i]) ELSE frames[i]]

\* Variant of LoadStd: it returns before the stack is popped and the cache filled.
LoadStdReturnsEarly ==
  /\ At("resolve")
  /\ IF Top.name \in Builtins /\ Allows(Top.name, Top.name)
     THEN /\ Resolve(Top.name, Top.name)
          /\ frames' = ReturnToCaller
          /\ UNCHANGED told
     ELSE Fail("std", Top.name) /\ UNCHANGED events
  /\ UNCHANGED <<fixed, files, graph, lines, edits, ran>>

\* A standard module: nothing is read.
LoadStd ==
  /\ At("resolve")
  /\ IF Top.name \in Builtins /\ Allows(Top.name, Top.name)
     THEN /\ Resolve(Top.name, Top.name)
          /\ stack' = SubSeq(stack, 1, Len(stack) - 1)
          /\ cache' = [cache EXCEPT ![Top.name] = Top.name]
          /\ frames' = ReturnToCaller
          /\ UNCHANGED <<outcome, past>>
     ELSE Fail("std", Top.name) /\ UNCHANGED events
  /\ UNCHANGED <<fixed, files, graph, lines, edits, ran>>

\* graph_note_current
NoteCurrent(digest) ==
  nodes' = [i \in DOMAIN nodes |->
              IF nodes[i].spec = Top.name /\ nodes[i].digest = NoEntry
              THEN Node(Top.name, digest)
              ELSE nodes[i]]

\* A package: its file is digested once, and an entry that is missing from
\* the lock file is never an error.
DigestPackage ==
  /\ At("digest")
  /\ LET name == Top.name
         got  == IF Contents(Top.file) = Absent THEN Unknown ELSE Contents(Top.file)
     IN  IF Top.file # Nowhere /\ Expected(name) \in {NoEntry, got}
         THEN /\ NoteCurrent(got)
              /\ Resolve(name, got)
              /\ frames' = SetTop([Top EXCEPT !.at = "source"])
              /\ UNCHANGED told
         ELSE Fail("package", name) /\ UNCHANGED <<nodes, events>>
  /\ UNCHANGED <<fixed, files, edges, lines, edits, ran>>

\* The step after the source is read.
AfterSource(f) ==
  CASE f.name = Main   -> "note"
    [] f.name = Prompt -> "parse"
    [] OTHER           -> IF Kind[f.name] = "pkg" THEN "parse" ELSE "check"

ReadSource ==
  /\ At("source")
  /\ IF Contents(Top.file) = Absent
     THEN Fail("missing", Top.name)
     ELSE /\ frames' = SetTop([Top EXCEPT !.text = Contents(Top.file), !.at = AfterSource(Top)])
          /\ UNCHANGED told
  /\ UNCHANGED <<fixed, files, graph, events, lines, edits, ran>>

\* The program's file is digested for the graph after it is read.
NoteProgram ==
  /\ At("note")
  /\ nodes' = Append(nodes, Node(Main, IF files[Main] = Absent THEN NoEntry ELSE files[Main]))
  /\ frames' = SetTop([Top EXCEPT !.at = "parse"])
  /\ UNCHANGED <<fixed, files, cache, stack, edges, events, outcome, lines, edits, past, ran>>

\* Any other module: its file is digested for the lock file ...
CheckLock ==
  /\ At("check")
  /\ LET digest == Contents(Top.file)
     IN  IF digest # Absent /\ Allows(Top.name, digest)
         THEN frames' = SetTop([Top EXCEPT !.at = "trace"]) /\ UNCHANGED told
         ELSE Fail("lock", Top.name)
  /\ UNCHANGED <<fixed, files, graph, events, lines, edits, ran>>

\* ... and again for the trace.
TraceModule ==
  /\ At("trace")
  /\ LET digest == Contents(Top.file)
     IN  IF digest # Absent
         THEN /\ Resolve(Top.name, digest)
              /\ frames' = SetTop([Top EXCEPT !.at = "parse"])
              /\ UNCHANGED told
         ELSE Fail("missing", Top.name) /\ UNCHANGED events
  /\ UNCHANGED <<fixed, files, graph, lines, edits, ran>>

Evaluated(f) == [name |-> f.name, text |-> f.text, steady |-> f.steady]

Parse ==
  /\ At("parse")
  /\ IF Source[Top.text].parses
     THEN /\ frames' = SetTop([Top EXCEPT !.at = "run", !.here = DirOf[Top.file],
                                          !.items = Source[Top.text].items])
          /\ ran' = ran \union {Evaluated(Top)}
          /\ UNCHANGED told
     ELSE Fail("syntax", Top.name) /\ UNCHANGED ran
  /\ UNCHANGED <<fixed, files, graph, events, lines, edits>>

\* Variant of Return: the stack is not popped.
ReturnKeepsStack ==
  /\ Active
  /\ Top.at = "run"
  /\ Top.items = <<>>
  /\ IsModule(Top)
  /\ IF Source[Top.text].record
     THEN /\ cache' = [cache EXCEPT ![Top.name] = Top.text]
          /\ frames' = ReturnToCaller
          /\ UNCHANGED <<stack, outcome, past>>
     ELSE Fail("not a record", Top.name)
  /\ UNCHANGED <<fixed, files, graph, events, lines, edits, ran>>

\* Variant of Return: the exports are not put into the cache.
ReturnUncached ==
  /\ Active
  /\ Top.at = "run"
  /\ Top.items = <<>>
  /\ IsModule(Top)
  /\ IF Source[Top.text].record
     THEN /\ stack' = SubSeq(stack, 1, Len(stack) - 1)
          /\ frames' = ReturnToCaller
          /\ UNCHANGED <<cache, outcome, past>>
     ELSE Fail("not a record", Top.name)
  /\ UNCHANGED <<fixed, files, graph, events, lines, edits, ran>>

\* A module must export a record.
Return ==
  /\ Active
  /\ Top.at = "run"
  /\ Top.items = <<>>
  /\ IsModule(Top)
  /\ IF Source[Top.text].record
     THEN /\ stack' = SubSeq(stack, 1, Len(stack) - 1)
          /\ cache' = [cache EXCEPT ![Top.name] = Top.text]
          /\ frames' = ReturnToCaller
          /\ UNCHANGED <<outcome, past>>
     ELSE Fail("not a record", Top.name)
  /\ UNCHANGED <<fixed, files, graph, events, lines, edits, ran>>

-----------------------------------------------------------------------------
\* Somebody else writes or deletes a file.
Edit(file, text) ==
  /\ edits < MaxEdits
  /\ files[file] # text
  /\ files' = [files EXCEPT ![file] = text]
  /\ frames' = [i \in DOMAIN frames |->
                  [frames[i] EXCEPT !.steady = @ /\ frames[i].file # file]]
  /\ edits' = edits + 1
  /\ UNCHANGED <<fixed, cache, stack, graph, events, outcome, lines, past, ran>>

Step ==
  \/ Finish \/ ImportCached \/ ImportCycle \/ ImportBegin \/ ItemFails
  \/ LoadStd \/ DigestPackage \/ ReadSource \/ NoteProgram
  \/ CheckLock \/ TraceModule \/ Parse \/ Return

Next ==
  \/ Step
  \/ Reset
  \/ \E items \in Lines : Line(items)
  \/ \E change \in Edits : Edit(change[1], change[2])

\* The interpreter keeps evaluating; the user need not type.
Spec == Init /\ [][Next]_vars /\ WF_vars(Step)

-----------------------------------------------------------------------------
(* Properties *)

Evaluations == [name : Names \union {Main, Prompt}, text : Texts, steady : BOOLEAN]

Frames == [name : Names \union {Main, Prompt}, file : Files \union {Nowhere},
           at : {"resolve", "digest", "source", "note", "check", "trace", "parse", "run"},
           here : Dirs, items : Seq(Items), text : Texts \union {Absent}, steady : BOOLEAN]

Digests == Texts \union Names \union {Unknown}

Reasons == {"none", "ok", "cycle", "item", "unwind", "std", "package", "missing", "lock", "syntax",
            "not a record"}

\* Every variable has its type.
TypeOK ==
  /\ mode \in {"run", "test", "repl"}
  /\ lock \in Locks \union {NoLock}
  /\ enforce \in BOOLEAN
  /\ files \in [Files -> Texts \union {Absent}]
  /\ cache \in [Names -> Texts \union Names \union {NotCached}]
  /\ stack \in Seq(Names)
  /\ nodes \in Seq([spec : Names \union {Main}, digest : Digests \union {NoEntry}])
  /\ edges \in Seq((Names \union {Main}) \X Names)
  /\ frames \in Seq(Frames)
  /\ events \in Seq([name : Names, digest : Digests])
  /\ outcome \in [why : Reasons, name : Names \union {Main, Prompt}]
  /\ lines \in 0 .. MaxLines
  /\ edits \in 0 .. MaxEdits
  /\ base \in Nat
  /\ left \subseteq [name : Names, when : Nat]
  /\ ran \subseteq Evaluations

Cached(name) == cache[name] # NotCached

\* Whether a load of name was left by an error.
WasLeft(name) == \E l \in left : l.name = name

\* The stack holds the active calls in their order, so that the cycle check
\* sees every one of them; no name is on it twice; and for each load that was
\* left by an error it holds one entry more, for ever.  Which one it is may
\* change: a return pops the last entry, whoever made it.  But it is a name
\* whose load was left, or one in the cache that is never looked up here.
StackOutlivesErrors ==
  /\ Len(stack) = base + (IF Active THEN Len(frames) - 1 ELSE 0)
  /\ \A i, j \in 2 .. Len(frames) : i <= j =>
       \E a, b \in DOMAIN stack :
         a <= b /\ (i < j => a < b) /\ stack[a] = frames[i].name /\ stack[b] = frames[j].name
  /\ \A i, j \in DOMAIN stack : stack[i] = stack[j] => i = j
  /\ \A i \in DOMAIN stack :
       \/ Cached(stack[i])
       \/ WasLeft(stack[i])
       \/ \E k \in 2 .. Len(frames) : frames[k].name = stack[i]

\* Whether the load that made the i-th event was not left by an error.
Holds(i) == \A l \in left : l.name = events[i].name => l.when < i

\* A module is resolved again only if an error has left the load that
\* resolved it before; it is resolved before its text is evaluated, and what
\* the cache holds is what was resolved last: the trace of a run names every
\* module whose code ran, and once if no error was caught.
ResolvedAgainOnlyIfLeft ==
  /\ \A i, j \in DOMAIN events : i < j /\ events[i].name = events[j].name =>
       \E l \in left : l.name = events[i].name /\ i <= l.when /\ l.when < j
  /\ \A r \in ran : r.name \in Names => \E i \in DOMAIN events : events[i].name = r.name
  /\ \A n \in Names : Cached(n) => \E i \in DOMAIN events : events[i].name = n /\ Holds(i)

\* What is evaluated is what the trace, and for the program the graph, says
\* was evaluated, and what the lock file asks for, as long as nobody changes
\* the file while it is loaded.
SteadyLoadsAreTraced ==
  \A r \in ran : r.steady =>
    /\ r.name = Main => \E i \in DOMAIN nodes : nodes[i] = Node(Main, r.text)
    /\ r.name \in Names =>
         /\ \E i \in DOMAIN events : events[i] = Resolved(r.name, r.text)
         /\ Expected(r.name) \in {NoEntry, r.text}

\* The lock file is kept even if files change: of a standard module and of a
\* package the digest in the trace is the one that was compared.  With
\* --enforce-lockfile nothing but packages is resolved without an entry.
LockIsKept ==
  \A i \in DOMAIN events :
    LET name == events[i].name
    IN  /\ Kind[name] \in {"std", "pkg"} => Expected(name) \in {NoEntry, events[i].digest}
        /\ enforce /\ Kind[name] # "pkg" => Expected(name) # NoEntry

\* But for modules whose load was left by an error, the module graph is a
\* forest that grows by leaves: a module has one node, made after its
\* importer's, and at most one edge leads to it.  Its modules are those of
\* the cache, of the stack and those that were left.
GraphIsLoadForest ==
  /\ \A i, j \in DOMAIN nodes : nodes[i].spec = nodes[j].spec => i = j
  /\ \A i, j \in DOMAIN edges : edges[i][2] = edges[j][2] => i = j \/ WasLeft(edges[i][2])
  /\ \A e \in DOMAIN edges : \E i, j \in DOMAIN nodes :
       /\ i < j \/ WasLeft(edges[e][2])
       /\ nodes[i].spec = edges[e][1] /\ nodes[j].spec = edges[e][2]
  /\ \A n \in Names : (\E i \in DOMAIN nodes : nodes[i].spec = n) <=>
                        (Cached(n) \/ Stacked(n) \/ WasLeft(n))

NamesIn(items, do) == {items[i].name : i \in {i \in DOMAIN items : items[i].do \in do}}

\* What a text may load, and what it must have loaded when its end is reached.
ImportsOf(text) == NamesIn(Source[text].items, Loads)

NeedsOf(text) == NamesIn(Source[text].items, {"import", "eval"})

\* Every import of a text whose exports the cache holds is in the cache, but
\* for those whose errors it caught: exports are shared only when the whole
\* module has been evaluated.
CacheIsClosed ==
  \A n \in Names : Cached(n) /\ Kind[n] # "std" => \A m \in NeedsOf(cache[n]) : Cached(m)

\* Whether name imports itself, by the texts that were evaluated: it is in
\* every set that holds what it imports and what its members import.
ImportsItself(name) ==
  \A S \in SUBSET Names :
    (\A r \in ran : r.name \in S \union {name} => ImportsOf(r.text) \subseteq S) => name \in S

\* A cycle is reported only of a module that imports itself, directly or
\* not, or of one whose load an error has left before.
CycleErrorsAreReal ==
  outcome'.why = "cycle" /\ outcome' # outcome =>
    ImportsItself(outcome'.name) \/ WasLeft(outcome'.name)

\* The cache, the graph and the errors tell the same story of the imports.
ImportsAreSound == [](CacheIsClosed /\ GraphIsLoadForest) /\ [][CycleErrorsAreReal]_vars

\* Every evaluation ends, even one whose modules import each other.
EvaluationEnds == Active ~> ~Active

=============================================================================
