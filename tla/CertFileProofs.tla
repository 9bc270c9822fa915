--------------------------- MODULE CertFileProofs ----------------------------
(***************************************************************************)
(* While updates do not overlap, and no server is killed in the middle of  *)
(* one, the file on disk is an atomic, durable Inherit-Cert map: CertFile  *)
(* implements CertStore.  Commands may be killed at any point.             *)
(***************************************************************************)
EXTENDS CertFile, InheritCertProofs, FiniteSetTheorems

USE ProcsAssumption, InodesAssumption, RequestsAssumption

\* The hypothesis of this module: one update at a time, and reliable servers.
Serial == Exclusive /\ Faulty \cap Servers = {}

\* A document is read back as the map it was written from.
LEMMA RoundTrip ==
  ASSUME NEW c \in InheritCertStates
  PROVE  /\ Readable(ToJson(c))
         /\ FromJson(ToJson(c)) = c
         /\ ToJson(c) \in Contents
<1>1. WellFormed(ToJson(c))
  BY StateShape DEF WellFormed, ToJson, IsValid
<1>2. FromJson(ToJson(c)) = c
  BY StateShape DEF FromJson, ToJson
<1>3. QED
  BY <1>1, <1>2, ContentsAssumption DEF Readable, Contents

\* A readable file holds a map.
LEMMA ReadableType ==
  ASSUME NEW doc \in Contents, Readable(doc)
  PROVE  FromJson(doc) \in InheritCertStates
BY RoundTrip DEF Contents, Readable

\* What a request asserts is a map, and so is the result of applying it; the
\* result is above both.
LEMMA ApplyFacts ==
  ASSUME NEW request \in Requests, NEW c \in InheritCertStates
  PROVE  /\ Asserted(request) \in InheritCertStates
         /\ Apply(request, c) \in InheritCertStates
         /\ Leq(c, Apply(request, c))
         /\ Leq(Asserted(request), Apply(request, c))
<1>1. CASE request \in ProposeRequests
  <2>1. IsPropose(request) /\ request.key \in EffectKeys /\ request.runId \in RunIDs
    BY <1>1 DEF ProposeRequests, IsPropose
  <2> DEFINE one == [k \in {request.key} |-> request.runId]
  <2>2. one \in [{request.key} -> RunIDs] /\ DOMAIN one = {request.key}
        /\ one[request.key] = request.runId
    BY <2>1
  <2>3. one \in InheritCertStates
    BY <2>1, <2>2 DEF InheritCertStates
  <2>4. Leq(one, Propose(c, request.key, request.runId))
    BY <2>1, <2>2, StateShape, RunIDsAreOrdered DEF Leq, RegLeq, Propose, RegMerge
  <2>5. QED
    BY <2>1, <2>3, <2>4, ProposeType, ProposeInflationary DEF Asserted, Apply
<1>2. CASE request \in MergeRequests
  <2>1. ~IsPropose(request) /\ request.remote \in InheritCertStates
    BY <1>2 DEF MergeRequests, IsPropose
  <2>2. QED
    BY <2>1, MergeType, MergeLeastUpperBound DEF Asserted, Apply
<1>3. QED
  BY <1>1, <1>2

\* There is an inode to spare for a file that has to be created.
LEMMA FreshInodeExists ==
  ASSUME TypeOK, Opened = {}, NEW p \in Procs
  PROVE  FreshInode \in Inodes /\ FreshInode \notin {stateFile, tmpFile}
<1>1. \E i \in Inodes : i \notin {stateFile, tmpFile} \union Opened
  <2>1. SUFFICES ASSUME Inodes \subseteq {stateFile, tmpFile} PROVE FALSE
    OBVIOUS
  <2>2. IsFiniteSet({stateFile, tmpFile}) /\ Cardinality({stateFile, tmpFile}) <= 2
    <3>1. IsFiniteSet({stateFile}) /\ Cardinality({stateFile}) = 1
      BY FS_Singleton
    <3>2. /\ IsFiniteSet({stateFile} \union {tmpFile})
          /\ Cardinality({stateFile} \union {tmpFile}) <= 2
      <4>1. CASE tmpFile = stateFile
        BY <3>1, <4>1
      <4>2. CASE tmpFile # stateFile
        <5>1. /\ IsFiniteSet({stateFile} \union {tmpFile})
              /\ Cardinality({stateFile} \union {tmpFile}) = Cardinality({stateFile}) + 1
          BY <3>1, <4>2, FS_AddElement
        <5>2. QED
          BY <3>1, <5>1
      <4>3. QED
        BY <4>1, <4>2
    <3>3. {stateFile, tmpFile} = {stateFile} \union {tmpFile}
      OBVIOUS
    <3>4. QED
      BY <3>2, <3>3
  <2>3. Cardinality(Inodes) <= 2
    BY <2>1, <2>2, FS_Subset, FS_CardinalityType
  <2>4. Cardinality(Procs) \in Nat /\ Cardinality(Procs) >= 1
    BY FS_CardinalityType, FS_EmptySet
  <2>5. Cardinality(Inodes) \in Nat
    BY <2>1, <2>2, FS_Subset, FS_CardinalityType
  <2>6. QED
    BY <2>3, <2>4, <2>5
<1>2. QED
  BY <1>1 DEF FreshInode

-----------------------------------------------------------------------------

\* What a process's state record holds at each of its program points.
LEMMA ProcShape ==
  ASSUME TypeOK, NEW p \in Procs
  PROVE  /\ proc[p].pc \in {"idle", "load", "open", "write", "rename"}
         /\ proc[p].pc = "idle" => proc[p] = Idle
         /\ proc[p].pc # "idle" => proc[p].request \in Requests
         /\ proc[p].pc \in {"open", "write"} => proc[p].next \in InheritCertStates
         /\ proc[p].pc = "write" => proc[p].fd \in Inodes
<1>1. proc[p] \in ProcStates
  BY DEF TypeOK
<1>2. QED
  BY <1>1 DEF ProcStates, Idle

\* The file on disk, as a reader sees it, is a map.
LEMMA OnDiskType == TypeOK => OnDisk \in InheritCertStates
BY NewStateIsBottom, ReadableType DEF TypeOK, OnDisk

\* Between updates, and while a command works, the current map is on disk.
LEMMA MapIsOnDisk ==
  ASSUME \A q \in Servers : proc[q].pc # "write"
  PROVE  Rewriting = {} /\ CurrentMap = OnDisk
BY DEF Rewriting, CurrentMap

\* While a server rewrites the file, the current map is the one it carries.
LEMMA MapIsCarried ==
  ASSUME NEW p \in Servers, proc[p].pc = "write", proc[p].fd = stateFile,
         content[stateFile] = Blank, \A q \in Procs \ {p} : proc[q].pc = "idle"
  PROVE  Rewriting = {p} /\ CurrentMap = proc[p].next
<1>1. Rewriting = {p}
  BY DEF Rewriting, Procs
<1>2. QED
  BY <1>1 DEF CurrentMap

\* The current map is a map.
LEMMA CurrentMapType ==
  ASSUME TypeOK
  PROVE  CurrentMap \in InheritCertStates
<1>1. CASE Rewriting = {}
  BY <1>1, OnDiskType DEF CurrentMap
<1>2. CASE Rewriting # {}
  <2>1. (CHOOSE p \in Rewriting : TRUE) \in Rewriting
    BY <1>2
  <2>2. PICK p \in Rewriting : p = CHOOSE q \in Rewriting : TRUE
    BY <2>1
  <2>3. p \in Procs /\ proc[p].pc = "write"
    BY DEF Rewriting, Procs
  <2>4. QED
    BY <1>2, <2>2, <2>3, ProcShape DEF CurrentMap
<1>3. QED
  BY <1>1, <1>2

-----------------------------------------------------------------------------

\* What a step does to the promised map and to what was acknowledged.
PromiseStep ==
  /\ Leq(CurrentMap, CurrentMap')
  /\ CurrentMap' \in InheritCertStates
  /\ \/ acked' = acked
     \/ \E u \in InheritCertStates : Leq(u, CurrentMap') /\ acked' = Merge(acked, u)

\* A promise kept so far is kept by such a step.
LEMMA PromiseKept ==
  ASSUME TypeOK, AckedIsDurable, PromiseStep
  PROVE  AckedIsDurable' /\ acked' \in InheritCertStates
<1>1. acked \in InheritCertStates /\ CurrentMap \in InheritCertStates
      /\ CurrentMap' \in InheritCertStates
  BY CurrentMapType DEF TypeOK, PromiseStep
<1>2. Leq(acked, CurrentMap')
  BY <1>1, LeqPartialOrder DEF AckedIsDurable, PromiseStep
<1>3. CASE acked' = acked
  BY <1>1, <1>2, <1>3 DEF AckedIsDurable
<1>4. CASE \E u \in InheritCertStates : Leq(u, CurrentMap') /\ acked' = Merge(acked, u)
  BY <1>1, <1>2, <1>4, MergeType, MergeLeastUpperBound DEF AckedIsDurable
<1>5. QED
  BY <1>3, <1>4 DEF PromiseStep

\* A process that is at work is alone.
LEMMA Alone ==
  ASSUME SerialInv, NEW p \in Procs, proc[p].pc # "idle"
  PROVE  \A q \in Procs \ {p} : proc[q].pc = "idle" /\ proc[q] = Idle
BY ProcShape DEF SerialInv

\* An idle process satisfies its part of the invariant.
LEMMA IdleSound ==
  ASSUME NEW p, proc[p] = Idle PROVE ProcSound(p)
BY DEF ProcSound, Idle

\* Nothing is held or acknowledged at the start.
LEMMA InitSerial == Init => SerialInv
<1> SUFFICES ASSUME Init PROVE SerialInv
  OBVIOUS
<1>1. \A p \in Procs : proc[p] = Idle /\ proc[p].pc = "idle"
  BY DEF Init, Idle
<1>2. TypeOK
  BY NewStateIsBottom DEF Init, TypeOK, Contents, ProcStates
<1>3. SavedAtomically
  BY DEF Init, SavedAtomically
<1>4. CurrentMap = NewState
  BY <1>1, MapIsOnDisk DEF Init, OnDisk, Procs
<1>5. AckedIsDurable
  BY <1>4, NewStateIsBottom DEF Init, AckedIsDurable
<1>6. \A p \in Procs : ProcSound(p)
  BY <1>1, IdleSound
<1>7. stateFile = NoFile
  BY DEF Init
<1>8. QED
  BY <1>1, <1>2, <1>3, <1>5, <1>6, <1>7 DEF SerialInv

-----------------------------------------------------------------------------
(* One lemma per action: it preserves the invariant and keeps the promise. *)

LEMMA StartStep ==
  ASSUME Serial, SerialInv, NEW p \in Procs, NEW request \in Requests, Start(p, request)
  PROVE  SerialInv' /\ PromiseStep
<1>1. /\ \A q \in Procs : proc[q] = Idle /\ proc[q].pc = "idle"
      /\ proc' = [proc EXCEPT ![p] = [pc |-> "load", request |-> request]]
      /\ UNCHANGED <<stateFile, tmpFile, content, acked>>
  BY ProcShape DEF Serial, Start, Goto, SerialInv
<1>2. /\ proc \in [Procs -> ProcStates]
      /\ proc'[p].pc = "load"
      /\ \A q \in Procs \ {p} : proc'[q] = Idle
  BY <1>1 DEF SerialInv, TypeOK
<1>3. CurrentMap = OnDisk /\ SavedAtomically
  BY <1>1, MapIsOnDisk DEF SerialInv, Procs
<1>4. Rewriting' = {} /\ CurrentMap' = OnDisk'
  BY <1>2 DEF Rewriting, CurrentMap, Procs, Idle
<1>5. OnDisk' = OnDisk /\ SavedAtomically'
  BY <1>1, <1>3 DEF OnDisk, SavedAtomically
<1>6. PromiseStep
  BY <1>1, <1>3, <1>4, <1>5, OnDiskType, LeqPartialOrder DEF PromiseStep, SerialInv
<1>7. TypeOK'
  <2>1. [pc |-> "load", request |-> request] \in ProcStates
    BY DEF ProcStates
  <2>2. QED
    BY <1>1, <2>1 DEF SerialInv, TypeOK
<1>8. AckedIsDurable'
  BY <1>6, PromiseKept DEF SerialInv
<1>9. \A q \in Procs : ProcSound(q)'
  BY <1>2 DEF ProcSound, Idle
<1>10. QED
  BY <1>1, <1>2, <1>5, <1>6, <1>7, <1>8, <1>9 DEF SerialInv, Idle

LEMMA LoadStep ==
  ASSUME Serial, SerialInv, NEW p \in Procs, Load(p)
  PROVE  SerialInv' /\ PromiseStep
<1> DEFINE request == proc[p].request
<1>1. /\ proc[p].pc = "load"
      /\ request \in Requests
      /\ \A q \in Procs \ {p} : proc[q] = Idle /\ proc[q].pc = "idle"
      /\ UNCHANGED <<stateFile, tmpFile, content>>
  BY Alone, ProcShape DEF Load, SerialInv
<1>2. Rewriting = {} /\ CurrentMap = OnDisk /\ SavedAtomically
  BY <1>1, MapIsOnDisk DEF SerialInv, Procs
<1>3. OnDisk \in InheritCertStates
  BY OnDiskType DEF SerialInv
<1>4. acked' = acked
      /\ proc' = [proc EXCEPT ![p] = [pc |-> "open", request |-> request,
                                      next |-> Apply(request, OnDisk)]]
  BY <1>1, <1>2 DEF Load, LoadAs, Goto, SavedAtomically, OnDisk
<1> DEFINE next == Apply(request, OnDisk)
<1>5. /\ next \in InheritCertStates
      /\ Leq(OnDisk, next)
      /\ Leq(Asserted(request), next)
  BY <1>1, <1>3, ApplyFacts
<1>6. /\ proc \in [Procs -> ProcStates]
      /\ proc'[p] = [pc |-> "open", request |-> request, next |-> next]
      /\ \A q \in Procs \ {p} : proc'[q] = Idle
  BY <1>1, <1>4 DEF SerialInv, TypeOK
<1> HIDE DEF next, request
<1>7. Rewriting' = {} /\ CurrentMap' = OnDisk'
  BY <1>6 DEF Rewriting, CurrentMap, Procs, Idle
<1>8. OnDisk' = OnDisk /\ SavedAtomically'
  BY <1>1, <1>2 DEF OnDisk, SavedAtomically
<1>9. PromiseStep
  BY <1>2, <1>3, <1>4, <1>7, <1>8, LeqPartialOrder DEF PromiseStep
<1>10. TypeOK'
  <2>1. [pc |-> "open", request |-> request, next |-> next] \in ProcStates
    BY <1>1, <1>5 DEF ProcStates
  <2>2. QED
    BY <1>1, <1>4, <1>6, <2>1 DEF SerialInv, TypeOK, next, request
<1>11. AckedIsDurable'
  BY <1>9, PromiseKept DEF SerialInv
<1>12. ProcSound(p)'
  BY <1>5, <1>6, <1>7, <1>8 DEF ProcSound, Carries
<1>13. \A q \in Procs : ProcSound(q)'
  BY <1>6, <1>12 DEF ProcSound, Idle
<1>14. QED
  BY <1>1, <1>6, <1>8, <1>9, <1>10, <1>11, <1>13 DEF SerialInv, Idle

LEMMA OpenStep ==
  ASSUME Serial, SerialInv, NEW p \in Procs, Open(p)
  PROVE  SerialInv' /\ PromiseStep
<1> DEFINE request == proc[p].request
           next    == proc[p].next
           name    == IF p \in Servers THEN stateFile ELSE tmpFile
           ino     == IF name = NoFile THEN FreshInode ELSE name
<1>0. TypeOK
  BY DEF SerialInv
<1>1. /\ proc[p].pc = "open"
      /\ request \in Requests
      /\ next \in InheritCertStates
      /\ \A q \in Procs \ {p} : proc[q] = Idle /\ proc[q].pc = "idle"
  BY <1>0, Alone, ProcShape DEF Open
<1>2. Rewriting = {} /\ CurrentMap = OnDisk /\ SavedAtomically
  BY <1>1, MapIsOnDisk DEF SerialInv, Procs
<1>3. Leq(OnDisk, next) /\ Leq(Asserted(request), next)
  BY <1>1, <1>2 DEF SerialInv, ProcSound, Carries
<1>4. FreshInode \in Inodes /\ FreshInode \notin {stateFile, tmpFile}
  <2>1. Opened = {}
    BY <1>1 DEF Opened
  <2>2. QED
    BY <1>0, <2>1, FreshInodeExists
<1>5. /\ ino \in Inodes
      /\ ino # NoFile
      /\ p \in Servers => ino # tmpFile
      /\ p \notin Servers => ino # stateFile
  BY <1>0, <1>4 DEF SerialInv, TypeOK
<1>6. /\ content' = [content EXCEPT ![ino] = Blank]
      /\ stateFile' = IF p \in Servers THEN ino ELSE stateFile
      /\ tmpFile' = IF p \in Servers THEN tmpFile ELSE ino
      /\ proc' = [proc EXCEPT ![p] = [pc |-> "write", request |-> request,
                                      next |-> next, fd |-> ino]]
      /\ acked' = acked
  BY DEF Open, Goto
<1> HIDE DEF ino, name
<1>7. /\ proc \in [Procs -> ProcStates]
      /\ content \in [Inodes -> Contents]
      /\ proc'[p] = [pc |-> "write", request |-> request, next |-> next, fd |-> ino]
      /\ \A q \in Procs \ {p} : proc'[q] = Idle
      /\ content'[ino] = Blank
      /\ \A i \in Inodes \ {ino} : content'[i] = content[i]
  BY <1>0, <1>1, <1>5, <1>6 DEF TypeOK
<1> HIDE DEF next, request
<1>8. TypeOK'
  <2>1. [pc |-> "write", request |-> request, next |-> next, fd |-> ino] \in ProcStates
    BY <1>1, <1>5 DEF ProcStates
  <2>2. proc' \in [Procs -> ProcStates]
    BY <1>6, <1>7, <2>1
  <2>3. content' \in [Inodes -> Contents]
    BY <1>6, <1>7 DEF Contents
  <2>4. QED
    BY <1>0, <1>5, <1>6, <2>2, <2>3 DEF TypeOK
<1>9. /\ stateFile' # NoFile => stateFile' # tmpFile'
      /\ SavedAtomically' \/ Rewriting' # {}
      /\ CurrentMap' = IF p \in Servers THEN next ELSE OnDisk
  <2>1. CASE p \in Servers
    <3>1. stateFile' = ino /\ tmpFile' = tmpFile
      BY <1>6, <2>1
    <3>2. Rewriting' = {p}
      BY <1>7, <2>1, <3>1 DEF Rewriting, Procs, Idle
    <3>3. CurrentMap' = next
      BY <1>7, <3>2 DEF CurrentMap
    <3>4. QED
      BY <1>5, <2>1, <3>1, <3>2, <3>3
  <2>2. CASE p \notin Servers
    <3>1. stateFile' = stateFile /\ tmpFile' = ino
      BY <1>6, <2>2
    <3>2. Rewriting' = {}
      BY <1>7, <2>2 DEF Rewriting, Procs, Idle
    <3>3. stateFile # NoFile => content'[stateFile] = content[stateFile]
      BY <1>0, <1>5, <1>7, <2>2 DEF TypeOK
    <3>4. OnDisk' = OnDisk /\ SavedAtomically'
      BY <1>2, <3>1, <3>3 DEF OnDisk, SavedAtomically
    <3>5. CurrentMap' = OnDisk
      BY <3>2, <3>4 DEF CurrentMap
    <3>6. QED
      BY <1>5, <2>2, <3>1, <3>4, <3>5
  <2>3. QED
    BY <2>1, <2>2
<1>10. Leq(CurrentMap', next)
  BY <1>1, <1>3, <1>9, LeqPartialOrder
<1>11. PromiseStep
  <2>1. OnDisk \in InheritCertStates
    BY <1>0, OnDiskType
  <2>2. QED
    BY <1>1, <1>2, <1>3, <1>6, <1>9, <2>1, LeqPartialOrder DEF PromiseStep
<1>12. AckedIsDurable'
  BY <1>11, PromiseKept DEF SerialInv
<1>13. ProcSound(p)'
  BY <1>3, <1>6, <1>7, <1>10 DEF ProcSound, Carries
<1>14. \A q \in Procs : ProcSound(q)'
  BY <1>7, <1>13 DEF ProcSound, Idle
<1>15. QED
  BY <1>7, <1>8, <1>9, <1>11, <1>12, <1>14 DEF SerialInv, Idle

LEMMA WriteStep ==
  ASSUME Serial, SerialInv, NEW p \in Procs, Write(p)
  PROVE  SerialInv' /\ PromiseStep
<1> DEFINE request == proc[p].request
           next    == proc[p].next
           fd      == proc[p].fd
<1>0. TypeOK
  BY DEF SerialInv
<1>1. /\ proc[p].pc = "write"
      /\ request \in Requests
      /\ next \in InheritCertStates
      /\ fd \in Inodes
      /\ \A q \in Procs \ {p} : proc[q] = Idle /\ proc[q].pc = "idle"
  BY <1>0, Alone, ProcShape DEF Write
<1>2. /\ Leq(CurrentMap, next)
      /\ Leq(Asserted(request), next)
      /\ fd = IF p \in Servers THEN stateFile ELSE tmpFile
      /\ content[fd] = Blank
  BY <1>1 DEF SerialInv, ProcSound, Carries
<1>3. content' = [content EXCEPT ![fd] = ToJson(next)] /\ UNCHANGED <<stateFile, tmpFile>>
  BY <1>2 DEF Write, Overwrite
<1>4. /\ Readable(ToJson(next))
      /\ FromJson(ToJson(next)) = next
      /\ ToJson(next) \in Contents
      /\ Asserted(request) \in InheritCertStates
  BY <1>1, RoundTrip, ApplyFacts
<1>5. /\ content' \in [Inodes -> Contents]
      /\ content'[fd] = ToJson(next)
      /\ \A i \in Inodes \ {fd} : content'[i] = content[i]
  BY <1>0, <1>1, <1>3, <1>4 DEF TypeOK
<1>6. fd # NoFile
  BY <1>1
<1>7. CASE p \in Servers
  <2>1. proc' = [proc EXCEPT ![p] = Idle] /\ acked' = Merge(acked, Asserted(request))
    BY <1>7 DEF Write, Acknowledge, Goto
  <2>2. proc' \in [Procs -> ProcStates] /\ \A q \in Procs : proc'[q] = Idle
    BY <1>0, <1>1, <2>1 DEF TypeOK, ProcStates
  <2>3. OnDisk' = next /\ SavedAtomically'
    BY <1>2, <1>3, <1>4, <1>5, <1>6, <1>7 DEF OnDisk, SavedAtomically
  <2>4. Rewriting' = {} /\ CurrentMap' = next
    BY <2>2, <2>3 DEF Rewriting, CurrentMap, Procs, Idle
  <2>5. PromiseStep
    BY <1>1, <1>2, <1>4, <2>1, <2>4 DEF PromiseStep
  <2>6. AckedIsDurable' /\ acked' \in InheritCertStates
    BY <1>0, <2>5, PromiseKept DEF SerialInv
  <2>7. \A q \in Procs : ProcSound(q)'
    BY <2>2 DEF ProcSound, Idle
  <2>8. TypeOK'
    BY <1>0, <1>3, <1>5, <2>2, <2>6 DEF TypeOK
  <2>9. QED
    BY <1>3, <2>2, <2>3, <2>5, <2>6, <2>7, <2>8 DEF SerialInv, Idle
<1>8. CASE p \notin Servers
  <2>1. /\ proc' = [proc EXCEPT ![p] = [pc |-> "rename", request |-> request]]
        /\ acked' = acked
        /\ p \in Clis
    BY <1>8 DEF Write, Goto, Procs
  <2>2. [pc |-> "rename", request |-> request] \in ProcStates
    BY <1>1 DEF ProcStates
  <2>3. /\ proc' \in [Procs -> ProcStates]
        /\ proc'[p] = [pc |-> "rename", request |-> request]
        /\ \A q \in Procs \ {p} : proc'[q] = Idle
    BY <1>0, <1>1, <2>1, <2>2 DEF TypeOK
  <2>4. Rewriting = {} /\ CurrentMap = OnDisk /\ SavedAtomically
    BY <1>1, <1>8, MapIsOnDisk DEF SerialInv, Procs
  <2>5. fd = tmpFile /\ stateFile # NoFile => stateFile # fd
    BY <1>2, <1>8 DEF SerialInv
  <2>6. stateFile # NoFile => content'[stateFile] = content[stateFile]
    BY <1>0, <1>2, <1>5, <1>8, <2>5 DEF TypeOK, SerialInv
  <2>7. OnDisk' = OnDisk /\ SavedAtomically'
    BY <1>3, <2>4, <2>6 DEF OnDisk, SavedAtomically
  <2>8. Rewriting' = {} /\ CurrentMap' = OnDisk
    BY <2>3, <2>7, <1>8 DEF Rewriting, CurrentMap, Procs, Idle
  <2>9. PromiseStep
    BY <1>0, <2>1, <2>4, <2>8, OnDiskType, LeqPartialOrder DEF PromiseStep
  <2>10. AckedIsDurable' /\ acked' \in InheritCertStates
    BY <1>0, <2>9, PromiseKept DEF SerialInv
  <2>11. ProcSound(p)'
    BY <1>2, <1>3, <1>4, <1>5, <1>6, <1>8, <2>1, <2>3, <2>4, <2>8 DEF ProcSound, Carries
  <2>12. \A q \in Procs : ProcSound(q)'
    BY <2>3, <2>11 DEF ProcSound, Idle
  <2>13. TypeOK'
    BY <1>0, <1>3, <1>5, <2>3, <2>10 DEF TypeOK
  <2>14. QED
    BY <1>3, <2>3, <2>7, <2>9, <2>10, <2>12, <2>13 DEF SerialInv, Idle
<1>9. QED
  BY <1>7, <1>8

LEMMA RenameStep ==
  ASSUME Serial, SerialInv, NEW p \in Procs, Rename(p)
  PROVE  SerialInv' /\ PromiseStep
<1> DEFINE request == proc[p].request
           saved   == FromJson(content[tmpFile])
<1>0. TypeOK
  BY DEF SerialInv
<1>1. /\ proc[p].pc = "rename"
      /\ request \in Requests
      /\ \A q \in Procs \ {p} : proc[q] = Idle /\ proc[q].pc = "idle"
  BY <1>0, Alone, ProcShape DEF Rename
<1>2. /\ tmpFile # NoFile
      /\ Readable(content[tmpFile])
      /\ Leq(CurrentMap, saved)
      /\ Leq(Asserted(request), saved)
  BY <1>1 DEF SerialInv, ProcSound, Carries
<1>3. /\ stateFile' = tmpFile
      /\ tmpFile' = NoFile
      /\ content' = content
      /\ proc' = [proc EXCEPT ![p] = Idle]
      /\ acked' = Merge(acked, Asserted(request))
  BY <1>2 DEF Rename, Acknowledge, Goto
<1>4. saved \in InheritCertStates /\ Asserted(request) \in InheritCertStates
  BY <1>0, <1>1, <1>2, ReadableType, ApplyFacts DEF TypeOK
<1>5. proc' \in [Procs -> ProcStates] /\ \A q \in Procs : proc'[q] = Idle
  BY <1>0, <1>1, <1>3 DEF TypeOK, ProcStates
<1>6. OnDisk' = saved /\ SavedAtomically'
  BY <1>2, <1>3 DEF OnDisk, SavedAtomically
<1>7. Rewriting' = {} /\ CurrentMap' = saved
  BY <1>5, <1>6 DEF Rewriting, CurrentMap, Procs, Idle
<1>8. PromiseStep
  BY <1>2, <1>3, <1>4, <1>7 DEF PromiseStep
<1>9. AckedIsDurable' /\ acked' \in InheritCertStates
  BY <1>0, <1>8, PromiseKept DEF SerialInv
<1>10. \A q \in Procs : ProcSound(q)'
  BY <1>5 DEF ProcSound, Idle
<1>11. TypeOK'
  BY <1>0, <1>3, <1>5, <1>9 DEF TypeOK
<1>12. QED
  BY <1>2, <1>3, <1>5, <1>6, <1>8, <1>9, <1>10, <1>11 DEF SerialInv, Idle

\* A command that fails or is killed leaves the state file as it was.
LEMMA GiveUpStep ==
  ASSUME Serial, SerialInv, NEW p \in Procs, WriteFails(p) \/ Crash(p)
  PROVE  SerialInv' /\ PromiseStep
<1>0. TypeOK /\ p \notin Servers
  BY DEF SerialInv, Serial, WriteFails, Crash
<1>1. /\ proc[p].pc # "idle"
      /\ \A q \in Procs \ {p} : proc[q] = Idle /\ proc[q].pc = "idle"
  BY <1>0, Alone, ProcShape DEF WriteFails, Crash
<1>2. proc' = [proc EXCEPT ![p] = Idle] /\ UNCHANGED <<stateFile, tmpFile, content, acked>>
  BY <1>0 DEF WriteFails, Crash, Abandon, Goto
<1>3. proc' \in [Procs -> ProcStates] /\ \A q \in Procs : proc'[q] = Idle
  BY <1>0, <1>1, <1>2 DEF TypeOK, ProcStates
<1>4. Rewriting = {} /\ CurrentMap = OnDisk /\ SavedAtomically
  BY <1>0, <1>1, MapIsOnDisk DEF SerialInv, Procs
<1>5. OnDisk' = OnDisk /\ SavedAtomically'
  BY <1>2, <1>4 DEF OnDisk, SavedAtomically
<1>6. Rewriting' = {} /\ CurrentMap' = OnDisk
  BY <1>3, <1>5 DEF Rewriting, CurrentMap, Procs, Idle
<1>7. PromiseStep
  BY <1>0, <1>2, <1>4, <1>6, OnDiskType, LeqPartialOrder DEF PromiseStep
<1>8. AckedIsDurable'
  BY <1>0, <1>7, PromiseKept DEF SerialInv
<1>9. \A q \in Procs : ProcSound(q)'
  BY <1>3 DEF ProcSound, Idle
<1>10. TypeOK'
  BY <1>0, <1>2, <1>3 DEF TypeOK
<1>11. QED
  BY <1>2, <1>3, <1>5, <1>7, <1>8, <1>9, <1>10 DEF SerialInv, Idle

LEMMA StutterStep ==
  ASSUME SerialInv, UNCHANGED vars
  PROVE  SerialInv' /\ PromiseStep
<1>1. SerialInv'
  BY DEF vars, SerialInv, TypeOK, SavedAtomically, Rewriting, AckedIsDurable, CurrentMap,
         OnDisk, ProcSound, Carries
<1>2. CurrentMap' = CurrentMap /\ acked' = acked
  BY DEF vars, CurrentMap, Rewriting, OnDisk
<1>3. QED
  BY <1>1, <1>2, CurrentMapType, LeqPartialOrder DEF PromiseStep, SerialInv

LEMMA SerialStep ==
  ASSUME Serial, SerialInv, [Next]_vars
  PROVE  SerialInv' /\ PromiseStep
BY StartStep, LoadStep, OpenStep, WriteStep, RenameStep, GiveUpStep, StutterStep DEF Next

-----------------------------------------------------------------------------

\* The invariant that ties the process at work to the file it will replace.
THEOREM SerialInvariant == Serial => (Spec => []SerialInv)
<1>1. Serial /\ SerialInv /\ [Next]_vars => SerialInv'
  BY SerialStep
<1>2. SUFFICES ASSUME Serial PROVE Spec => []SerialInv
  OBVIOUS
<1>3. SerialInv /\ [Next]_vars => SerialInv'
  BY <1>1, <1>2
<1>4. QED
  BY <1>3, InitSerial, PTL DEF Spec

\* What was acknowledged is never lost.
THEOREM Durability == Serial => (Spec => []AckedIsDurable)
<1>1. SerialInv => AckedIsDurable
  BY DEF SerialInv
<1>2. SUFFICES ASSUME Serial PROVE Spec => []AckedIsDurable
  OBVIOUS
<1>3. Spec => []SerialInv
  BY <1>2, SerialInvariant
<1>4. QED
  BY <1>1, <1>3, PTL

\* The map never moves down, whenever commands are killed.
THEOREM Monotonicity == Serial => (Spec => NeverLoses)
<1>1. SUFFICES ASSUME Serial PROVE Spec => NeverLoses
  OBVIOUS
<1>2. SerialInv /\ [Next]_vars => [Leq(CurrentMap, CurrentMap')]_vars
  BY <1>1, SerialStep DEF PromiseStep
<1>3. Spec => []SerialInv
  BY <1>1, SerialInvariant
<1>4. QED
  BY <1>2, <1>3, PTL DEF Spec, NeverLoses

\* A step that keeps the promise is a step, or a stutter, of the registry that
\* CertStore describes.
LEMMA PromiseIsStoreStep ==
  ASSUME TypeOK, PromiseStep
  PROVE  [Store!Next]_Store!vars
<1>1. CurrentMap \in InheritCertStates /\ CurrentMap' \in InheritCertStates
      /\ Leq(CurrentMap, CurrentMap')
  BY CurrentMapType DEF PromiseStep
<1>2. CurrentMap' = Merge(CurrentMap, CurrentMap')
  BY <1>1, LeqIsMergeOrder
<1>3. \A a, b : Store!Merge(a, b) = Merge(a, b)
  BY DEF Merge, RegMerge, Store!Merge, Store!RegMerge
<1>4. \A a, b : Store!Leq(a, b) <=> Leq(a, b)
  BY DEF Leq, RegLeq, Store!Leq, Store!RegLeq
<1>5. Store!InheritCertStates = InheritCertStates
  BY DEF InheritCertStates, Store!InheritCertStates
<1>6. CASE acked' = acked
  <2>1. Store!Commit
    BY <1>1, <1>2, <1>3, <1>5, <1>6 DEF Store!Commit
  <2>2. QED
    BY <2>1 DEF Store!Next
<1>7. CASE \E u \in InheritCertStates : Leq(u, CurrentMap') /\ acked' = Merge(acked, u)
  <2>0. PICK u \in InheritCertStates : Leq(u, CurrentMap') /\ acked' = Merge(acked, u)
    BY <1>7
  <2>1. Store!Acknowledge
    <3>1. Store!Acknowledge <=>
            \E commit, update \in InheritCertStates :
              /\ CurrentMap' = Merge(CurrentMap, commit)
              /\ Leq(update, CurrentMap')
              /\ acked' = Merge(acked, update)
      BY <1>3, <1>4, <1>5 DEF Store!Acknowledge
    <3>2. QED
      BY <1>1, <1>2, <2>0, <3>1
  <2>2. QED
    BY <2>1 DEF Store!Next
<1>8. QED
  BY <1>6, <1>7 DEF PromiseStep

\* The registry on disk implements the registry as it is promised.
THEOREM FileImplementsStore == Serial => (Spec => ImplementsStore)
<1>1. SUFFICES ASSUME Serial PROVE Spec => Store!Spec
  BY DEF ImplementsStore
<1>2. Init => Store!Init
  BY MapIsOnDisk DEF Init, Store!Init, Store!NewState, NewState, OnDisk, Procs, Idle
<1>3. SerialInv /\ [Next]_vars => [Store!Next]_Store!vars
  BY <1>1, SerialStep, PromiseIsStoreStep DEF SerialInv
<1>4. Spec => []SerialInv
  BY <1>1, SerialInvariant
<1>5. QED
  BY <1>2, <1>3, <1>4, PTL DEF Spec, Store!Spec

=============================================================================
