------------------------------ MODULE CertFile -------------------------------
(***************************************************************************)
(* One registry's map on disk, <root>/inherit_cert_state.json, and the     *)
(* processes that update it:                                               *)
(*                                                                         *)
(*  - registry commands (crates/registry): load, update, write the         *)
(*    temporary file, rename it over the state file;                       *)
(*  - fardregistry servers (src/bin/fardregistry.rs): load, update, write  *)
(*    the state file in place.  A server takes one request at a time.      *)
(*                                                                         *)
(* No lock is taken.  A write is two steps, open (which truncates) and     *)
(* write, through the descriptor: files are inodes, so that a rename moves *)
(* a file under the feet of a process that still writes to it.             *)
(***************************************************************************)
EXTENDS InheritCert, FiniteSets

CONSTANTS Clis,       \* processes that run registry commands, one after another
          Servers,    \* fardregistry processes on the same directory
          Faulty,     \* processes that may be killed, or whose writes may fail
          Exclusive,  \* TRUE when at most one update is in progress at a time
          Requests,   \* the updates that are requested
          Inodes, NoFile,
          Blank,      \* content of a file just truncated
          Garbage     \* content left by two overlapping writes

Procs == Clis \union Servers

ASSUME ProcsAssumption ==
  /\ Clis \cap Servers = {}
  /\ Faulty \subseteq Procs
  /\ Exclusive \in BOOLEAN

\* Every process may hold a file that no name leads to any more.
ASSUME InodesAssumption ==
  /\ NoFile \notin Inodes
  /\ IsFiniteSet(Procs)
  /\ Cardinality(Inodes) >= Cardinality(Procs) + 2

ASSUME ContentsAssumption ==
  \A c \in InheritCertStates : ToJson(c) \notin {Blank, Garbage}

\* A request proposes one RunID or merges a remote state.
ProposeRequests == [key : EffectKeys, runId : RunIDs]
MergeRequests == [remote : InheritCertStates]

ASSUME RequestsAssumption == Requests \subseteq ProposeRequests \union MergeRequests

IsPropose(request) == "key" \in DOMAIN request

\* The map a request asks to be joined into the state.
Asserted(request) ==
  IF IsPropose(request) THEN [k \in {request.key} |-> request.runId] ELSE request.remote

Apply(request, certs) ==
  IF IsPropose(request) THEN Propose(certs, request.key, request.runId)
  ELSE Merge(certs, request.remote)

VARIABLES
  stateFile,  \* the inode named inherit_cert_state.json, if any
  tmpFile,    \* the inode named inherit_cert_state.tmp, if any
  content,    \* content[i]: what inode i holds
  proc,       \* proc[p]: what process p is doing
  acked       \* history: the join of the updates that were acknowledged

vars == <<stateFile, tmpFile, content, proc, acked>>

Contents == {ToJson(c) : c \in InheritCertStates} \union {Blank, Garbage}

Idle == [pc |-> "idle"]

\* request: what is asked; next: the updated map; fd: the inode written to.
ProcStates ==
  {Idle}
  \union [pc : {"load"}, request : Requests]
  \union [pc : {"open"}, request : Requests, next : InheritCertStates]
  \union [pc : {"write"}, request : Requests, next : InheritCertStates, fd : Inodes]
  \union [pc : {"rename"}, request : Requests]

TypeOK ==
  /\ stateFile \in Inodes \union {NoFile}
  /\ tmpFile \in Inodes \union {NoFile}
  /\ content \in [Inodes -> Contents]
  /\ proc \in [Procs -> ProcStates]
  /\ acked \in InheritCertStates

Init ==
  /\ stateFile = NoFile
  /\ tmpFile = NoFile
  /\ content = [i \in Inodes |-> Blank]
  /\ proc = [p \in Procs |-> Idle]
  /\ acked = NewState

-----------------------------------------------------------------------------
(* Files *)

Readable(doc) == doc \notin {Blank, Garbage} /\ WellFormed(doc)

Opened == {proc[p].fd : p \in {q \in Procs : proc[q].pc = "write"}}

FreshInode == CHOOSE i \in Inodes : i \notin {stateFile, tmpFile} \union Opened

\* write_all from offset 0 leaves the tail of a longer file.  Keys and RunIDs
\* have a fixed width: a document is as long as it has keys.
Overwrite(old, doc) ==
  IF old = Blank THEN {doc}
  ELSE IF old = Garbage THEN {doc, Garbage}
  ELSE IF Cardinality(DOMAIN old.certs) > Cardinality(DOMAIN doc.certs) THEN {Garbage}
  ELSE {doc}

-----------------------------------------------------------------------------
(* One update *)

Goto(p, state) == proc' = [proc EXCEPT ![p] = state]

Acknowledge(p) ==
  /\ acked' = Merge(acked, Asserted(proc[p].request))
  /\ Goto(p, Idle)

\* The process gives up; its client sees an error, or nothing at all.
Abandon(p) == Goto(p, Idle) /\ UNCHANGED acked

Start(p, request) ==
  /\ proc[p].pc = "idle"
  /\ Exclusive => \A q \in Procs : proc[q].pc = "idle"
  /\ Goto(p, [pc |-> "load", request |-> request])
  /\ UNCHANGED <<stateFile, tmpFile, content, acked>>

\* Variant of LoadAs: what was read is not used.
LoadAsEmpty(p, certs) ==
  LET request == proc[p].request
  IN /\ Goto(p, [pc |-> "open", request |-> request, next |-> Apply(request, NewState)])
     /\ UNCHANGED acked

LoadAs(p, certs) ==
  LET request == proc[p].request
  IN /\ Goto(p, [pc |-> "open", request |-> request, next |-> Apply(request, certs)])
     /\ UNCHANGED acked

\* crdt_load, or the read at the head of a server's handler.  A file that does
\* not parse is an error for a command, and an empty map for a server.
Load(p) ==
  /\ proc[p].pc = "load"
  /\ \/ /\ stateFile = NoFile
        /\ LoadAs(p, NewState)
     \/ /\ stateFile # NoFile
        /\ Readable(content[stateFile])
        /\ LoadAs(p, FromJson(content[stateFile]))
     \/ /\ stateFile # NoFile
        /\ ~Readable(content[stateFile])
        /\ IF p \in Servers THEN LoadAs(p, NewState) ELSE Abandon(p)
  /\ UNCHANGED <<stateFile, tmpFile, content>>

\* fs::write, first half: create the file, or truncate the one that is there.
Open(p) ==
  LET name == IF p \in Servers THEN stateFile ELSE tmpFile
      ino  == IF name = NoFile THEN FreshInode ELSE name
  IN /\ proc[p].pc = "open"
     /\ content' = [content EXCEPT ![ino] = Blank]
     /\ stateFile' = IF p \in Servers THEN ino ELSE stateFile
     /\ tmpFile' = IF p \in Servers THEN tmpFile ELSE ino
     /\ Goto(p, [pc |-> "write", request |-> proc[p].request,
                 next |-> proc[p].next, fd |-> ino])
     /\ UNCHANGED acked

\* Variant of Write: a command reports success before it renames the file.
WriteThenReport(p) ==
  /\ proc[p].pc = "write"
  /\ \E doc \in Overwrite(content[proc[p].fd], ToJson(proc[p].next)) :
       content' = [content EXCEPT ![proc[p].fd] = doc]
  /\ acked' = Merge(acked, Asserted(proc[p].request))
  /\ IF p \in Servers THEN Goto(p, Idle)
     ELSE Goto(p, [pc |-> "rename", request |-> proc[p].request])
  /\ UNCHANGED <<stateFile, tmpFile>>

\* fs::write, second half.  A server then answers 200.
Write(p) ==
  /\ proc[p].pc = "write"
  /\ \E doc \in Overwrite(content[proc[p].fd], ToJson(proc[p].next)) :
       content' = [content EXCEPT ![proc[p].fd] = doc]
  /\ IF p \in Servers
     THEN Acknowledge(p)
     ELSE Goto(p, [pc |-> "rename", request |-> proc[p].request]) /\ UNCHANGED acked
  /\ UNCHANGED <<stateFile, tmpFile>>

\* fs::rename of the temporary file, whoever wrote it.
Rename(p) ==
  /\ proc[p].pc = "rename"
  /\ \/ /\ tmpFile # NoFile
        /\ stateFile' = tmpFile
        /\ tmpFile' = NoFile
        /\ Acknowledge(p)
     \/ /\ tmpFile = NoFile
        /\ Abandon(p)
        /\ UNCHANGED <<stateFile, tmpFile>>
  /\ UNCHANGED content

\* A write that fails (a full disk): a command reports it, a server ignores
\* the result and answers 200 all the same.
WriteFails(p) ==
  /\ p \in Faulty
  /\ proc[p].pc = "write"
  /\ IF p \in Servers THEN Acknowledge(p) ELSE Abandon(p)
  /\ UNCHANGED <<stateFile, tmpFile, content>>

\* The process is killed, and may be started again.
Crash(p) ==
  /\ p \in Faulty
  /\ proc[p].pc # "idle"
  /\ Abandon(p)
  /\ UNCHANGED <<stateFile, tmpFile, content>>

Next ==
  \/ \E p \in Procs, request \in Requests : Start(p, request)
  \/ \E p \in Procs : Load(p)
  \/ \E p \in Procs : Open(p)
  \/ \E p \in Procs : Write(p)
  \/ \E p \in Procs : Rename(p)
  \/ \E p \in Procs : WriteFails(p)
  \/ \E p \in Procs : Crash(p)

Spec == Init /\ [][Next]_vars

-----------------------------------------------------------------------------
(* Properties *)

\* The map the next reader of the state file sees.
OnDisk ==
  IF stateFile = NoFile \/ ~Readable(content[stateFile]) THEN NewState
  ELSE FromJson(content[stateFile])

\* A server truncates the state file before it writes it: in between, the map
\* is the one it is about to write.
Rewriting ==
  {p \in Servers : proc[p].pc = "write" /\ proc[p].fd = stateFile /\ content[stateFile] = Blank}

CurrentMap == IF Rewriting # {} THEN proc[CHOOSE p \in Rewriting : TRUE].next ELSE OnDisk

\* "Save the CRDT state to disk atomically": at no moment does the state file
\* hold half of a save, or a mixture of two.
SavedAtomically == stateFile # NoFile => Readable(content[stateFile])

\* "merges into persistent CRDT state": what was acknowledged is not lost.
AckedIsDurable == Leq(acked, CurrentMap)

\* The same, asked only once every process is done and if the file is readable.
AckedAtRest ==
  (\A p \in Procs : proc[p].pc = "idle") /\ SavedAtomically => Leq(acked, OnDisk)

\* The map never moves down the order, in particular not when the process that
\* is replacing it dies.
NeverLoses == [][Leq(CurrentMap, CurrentMap')]_vars

\* What keeps the promise while updates do not overlap: the only process at
\* work carries a map above the current one, in the file it is about to make
\* current.
Carries(p, certs) ==
  Leq(CurrentMap, certs) /\ Leq(Asserted(proc[p].request), certs)

ProcSound(p) ==
  /\ proc[p].pc = "open" => Carries(p, proc[p].next)
  /\ proc[p].pc = "write" =>
       /\ Carries(p, proc[p].next)
       /\ proc[p].fd = IF p \in Servers THEN stateFile ELSE tmpFile
       /\ content[proc[p].fd] = Blank
  /\ proc[p].pc = "rename" =>
       /\ p \in Clis
       /\ tmpFile # NoFile
       /\ Readable(content[tmpFile])
       /\ Carries(p, FromJson(content[tmpFile]))

SerialInv ==
  /\ TypeOK
  /\ \A p, q \in Procs : proc[p].pc # "idle" /\ proc[q].pc # "idle" => p = q
  /\ stateFile # NoFile => stateFile # tmpFile
  /\ SavedAtomically \/ Rewriting # {}
  /\ AckedIsDurable
  /\ \A p \in Procs : ProcSound(p)

Store == INSTANCE CertStore WITH certs <- CurrentMap

\* The registry keeps its promise: CurrentMap is an atomic, durable map.
ImplementsStore == Store!Spec

=============================================================================
