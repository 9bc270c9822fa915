-------------------------- MODULE ModuleLoaderProofs --------------------------
(***************************************************************************)
(* ModuleLoader for every set of modules, files and texts, whatever the    *)
(* lines typed and the changes made to files: type correctness, what the   *)
(* stack of imports holds, what the trace and the lock file say about the  *)
(* texts that are evaluated, and what the cache, the module graph and the  *)
(* reports of cycles say about their imports.                              *)
(***************************************************************************)
EXTENDS ModuleLoader, SequenceTheorems, WellFoundedInduction, TLAPS

-----------------------------------------------------------------------------
(* The calls that are active *)

Steps == {"resolve", "digest", "source", "note", "check", "trace", "parse", "run"}

\* What a call has in hand at each of its steps.
FrameOK(f) ==
  /\ f.at = "resolve" => f.name \in Names /\ Kind[f.name] = "std"
  /\ f.at = "digest" => f.name \in Names /\ Kind[f.name] = "pkg"
  /\ f.at = "source" /\ f.name \in Names => Kind[f.name] # "std"
  /\ f.at = "note" => f.name = Main
  /\ f.at \in {"check", "trace"} => f.name \in Names /\ Kind[f.name] \notin {"std", "pkg"}
  /\ f.at \in {"note", "check", "trace", "parse"} => f.text \in Texts
  /\ f.at = "run" /\ f.name \in Names => f.text \in Texts
  /\ f.text \in Texts => f.file \in Files

\* A call that waits for another stands at the import that made it.
Waiting(f, callee) ==
  /\ f.at = "run"
  /\ f.items # <<>>
  /\ Head(f.items).do \in Loads
  /\ Head(f.items).name = callee.name

\* The outermost frame is the program or a line, the others are modules.
Calls(fs) ==
  /\ fs \in Seq(Frames)
  /\ \A i \in 1 .. Len(fs) : FrameOK(fs[i])
  /\ \A i \in 1 .. Len(fs) : fs[i].name \in Names <=> i # 1
  /\ \A i \in 1 .. Len(fs) - 1 : Waiting(fs[i], fs[i + 1])

LEMMA NoCalls == Calls(<<>>)
  BY DEF Calls

LEMMA TopIsLast ==
  ASSUME Calls(frames), Active
  PROVE  /\ Len(frames) \in 1 .. Len(frames)
         /\ Len(frames) \in Nat
         /\ Top \in Frames
         /\ FrameOK(Top)
         /\ Top.name \in Names <=> Len(frames) # 1
<1>1. frames \in Seq(Frames) /\ frames # <<>>
  BY DEF Calls, Active
<1>2. Len(frames) \in Nat /\ Len(frames) >= 1
  BY <1>1
<1>3. Len(frames) \in 1 .. Len(frames)
  BY <1>2
<1>4. FrameOK(frames[Len(frames)]) /\ (frames[Len(frames)].name \in Names <=> Len(frames) # 1)
  BY <1>3 DEF Calls
<1>5. frames[Len(frames)] \in Frames
  BY <1>1, <1>3, ElementOfSeq
<1>6. QED
  BY <1>2, <1>3, <1>4, <1>5 DEF Top

\* The innermost call goes on.
LEMMA CallsSet ==
  ASSUME Calls(frames), Active, NEW f \in Frames, FrameOK(f), f.name = Top.name
  PROVE  /\ Calls(SetTop(f))
         /\ Len(SetTop(f)) = Len(frames)
         /\ SetTop(f)[Len(frames)] = f
         /\ \A i \in 1 .. Len(frames) - 1 : SetTop(f)[i] = frames[i]
<1>1. frames \in Seq(Frames) /\ Len(frames) \in 1 .. Len(frames) /\ Len(frames) \in Nat
  BY TopIsLast DEF Calls
<1>2. /\ SetTop(f) \in Seq(Frames)
      /\ Len(SetTop(f)) = Len(frames)
      /\ \A j \in 1 .. Len(frames) : SetTop(f)[j] = IF j = Len(frames) THEN f ELSE frames[j]
  BY <1>1, ExceptSeq DEF SetTop
<1>3. \A i \in 1 .. Len(frames) - 1 : SetTop(f)[i] = frames[i]
  BY <1>1, <1>2
<1>4. \A i \in 1 .. Len(frames) : FrameOK(SetTop(f)[i])
  BY <1>1, <1>2 DEF Calls
<1>5. \A i \in 1 .. Len(frames) : SetTop(f)[i].name = frames[i].name
  BY <1>1, <1>2 DEF Top
<1>6. \A i \in 1 .. Len(frames) - 1 : Waiting(SetTop(f)[i], SetTop(f)[i + 1])
  BY <1>1, <1>3, <1>5 DEF Calls, Waiting
<1>7. QED
  BY <1>1, <1>2, <1>3, <1>4, <1>5, <1>6 DEF Calls

\* A call is made.
LEMMA CallsPush ==
  ASSUME Calls(frames), Active, NEW f \in Frames, FrameOK(f), f.name \in Names, Waiting(Top, f)
  PROVE  /\ Calls(Append(frames, f))
         /\ Len(Append(frames, f)) = Len(frames) + 1
         /\ Append(frames, f)[Len(frames) + 1] = f
         /\ \A i \in 1 .. Len(frames) : Append(frames, f)[i] = frames[i]
<1>1. frames \in Seq(Frames) /\ Len(frames) \in 1 .. Len(frames) /\ Len(frames) \in Nat
  BY TopIsLast DEF Calls
<1> DEFINE fs == Append(frames, f)
<1>2. /\ fs \in Seq(Frames)
      /\ Len(fs) = Len(frames) + 1
      /\ \A i \in 1 .. Len(frames) : fs[i] = frames[i]
      /\ fs[Len(frames) + 1] = f
  BY <1>1, AppendProperties
<1> HIDE DEF fs
<1>3. \A i \in 1 .. Len(fs) : FrameOK(fs[i]) /\ (fs[i].name \in Names <=> i # 1)
  BY <1>1, <1>2 DEF Calls
<1>4. \A i \in 1 .. Len(fs) - 1 : Waiting(fs[i], fs[i + 1])
  BY <1>1, <1>2 DEF Calls, Top
<1>5. Calls(fs)
  BY <1>2, <1>3, <1>4 DEF Calls
<1>6. QED
  BY <1>2, <1>5 DEF fs

LEMMA ItemDoneProps ==
  ASSUME NEW f \in Frames, FrameOK(f), f.items # <<>>
  PROVE  /\ ItemDone(f) \in Frames
         /\ FrameOK(ItemDone(f))
         /\ ItemDone(f).name = f.name
         /\ ItemDone(f).at = f.at
         /\ ItemDone(f).text = f.text
         /\ ItemDone(f).items = Tail(f.items)
<1>1. f.items \in Seq(Items)
  BY DEF Frames
<1>2. Tail(f.items) \in Seq(Items)
  BY <1>1, HeadTailProperties
<1>3. ItemDone(f) \in Frames
  BY <1>2 DEF ItemDone, Frames
<1>4. /\ ItemDone(f).name = f.name
      /\ ItemDone(f).at = f.at
      /\ ItemDone(f).file = f.file
      /\ ItemDone(f).text = f.text
      /\ ItemDone(f).items = Tail(f.items)
  BY DEF ItemDone, Frames
<1>5. FrameOK(ItemDone(f))
  BY <1>4 DEF FrameOK
<1>6. QED
  BY <1>3, <1>4, <1>5

\* A call returns.
LEMMA CallsPop ==
  ASSUME Calls(frames), Active, Top.name \in Names
  PROVE  /\ Calls(ReturnToCaller)
         /\ Len(frames) > 1
         /\ Len(ReturnToCaller) = Len(frames) - 1
         /\ ReturnToCaller[Len(frames) - 1] = ItemDone(frames[Len(frames) - 1])
         /\ \A i \in 1 .. Len(frames) - 2 : ReturnToCaller[i] = frames[i]
         /\ Waiting(frames[Len(frames) - 1], Top)
<1> DEFINE n == Len(frames) - 1
           fs == ReturnToCaller
<1>1. frames \in Seq(Frames) /\ Len(frames) \in Nat /\ n \in Nat /\ n >= 1
  <2>1. Len(frames) # 1 /\ Len(frames) \in 1 .. Len(frames) /\ Len(frames) \in Nat
    BY TopIsLast
  <2>2. frames \in Seq(Frames)
    BY DEF Calls
  <2>3. \A k \in Nat : k # 1 /\ k \in 1 .. k => k - 1 \in Nat /\ k - 1 >= 1
    OBVIOUS
  <2>4. n \in Nat /\ n >= 1
    BY <2>1, <2>3, Zenon
  <2>5. QED
    BY <2>1, <2>2, <2>4
<1>2. /\ frames[n] \in Frames
      /\ FrameOK(frames[n])
      /\ Waiting(frames[n], Top)
      /\ frames[n].items # <<>>
  <2>1. n \in 1 .. Len(frames) /\ n \in 1 .. Len(frames) - 1 /\ n + 1 = Len(frames)
    BY <1>1
  <2>2. Waiting(frames[n], frames[n + 1]) /\ FrameOK(frames[n])
    BY <2>1 DEF Calls
  <2>3. frames[n] \in Frames
    BY <1>1, <2>1, ElementOfSeq
  <2>4. QED
    BY <2>1, <2>2, <2>3 DEF Waiting, Top
<1>3. fs = [i \in 1 .. n |-> IF i = n THEN ItemDone(frames[i]) ELSE frames[i]]
  BY DEF ReturnToCaller
<1>4. \A i \in 1 .. n : fs[i] \in Frames /\ FrameOK(fs[i]) /\ fs[i].name = frames[i].name
  <2>1. SUFFICES ASSUME NEW i \in 1 .. n
                 PROVE  fs[i] \in Frames /\ FrameOK(fs[i]) /\ fs[i].name = frames[i].name
    OBVIOUS
  <2>2. CASE i = n
    BY <1>2, <1>3, <2>2, ItemDoneProps
  <2>3. CASE i # n
    <3>1. fs[i] = frames[i] /\ i \in 1 .. Len(frames)
      BY <1>1, <1>3, <2>3
    <3>2. QED
      BY <1>1, <3>1, ElementOfSeq DEF Calls
  <2>4. QED
    BY <2>2, <2>3
<1>5. fs \in Seq(Frames) /\ Len(fs) = n
  <2>1. fs \in [1 .. n -> Frames]
    BY <1>3, <1>4
  <2>2. QED
    BY <1>1, <2>1
<1>6. \A i \in 1 .. n - 1 : fs[i] = frames[i]
  BY <1>1, <1>3
<1>7. fs[n] = ItemDone(frames[n])
  BY <1>1, <1>3
<1>8. \A i \in 1 .. n : fs[i].name \in Names <=> i # 1
  BY <1>1, <1>4 DEF Calls
<1>9. \A i \in 1 .. n - 1 : Waiting(fs[i], fs[i + 1])
  <2>1. SUFFICES ASSUME NEW i \in 1 .. n - 1
                 PROVE  Waiting(fs[i], fs[i + 1])
    OBVIOUS
  <2>2. i \in 1 .. Len(frames) - 1 /\ i + 1 \in 1 .. n
    BY <1>1
  <2>3. Waiting(frames[i], frames[i + 1]) /\ fs[i + 1].name = frames[i + 1].name
    BY <1>4, <2>2 DEF Calls
  <2>4. QED
    BY <1>6, <2>3 DEF Waiting
<1>10. Calls(fs)
  BY <1>4, <1>5, <1>8, <1>9 DEF Calls
<1>11. QED
  BY <1>1, <1>2, <1>5, <1>6, <1>7, <1>10

Rest(f, n) == [f EXCEPT !.items = SubSeq(f.items, n + 1, Len(f.items))]

LEMMA RestProps ==
  ASSUME NEW f \in Frames, FrameOK(f), NEW n \in 1 .. Len(f.items)
  PROVE  /\ Rest(f, n) \in Frames
         /\ FrameOK(Rest(f, n))
         /\ Rest(f, n).name = f.name
         /\ Rest(f, n).at = f.at
         /\ Rest(f, n).text = f.text
         /\ Rest(f, n).file = f.file
         /\ Rest(f, n).steady = f.steady
         /\ Rest(f, n).items = SubSeq(f.items, n + 1, Len(f.items))
<1>1. f.items \in Seq(Items)
  BY DEF Frames
<1>2. SubSeq(f.items, n + 1, Len(f.items)) \in Seq(Items)
  <2>1. Len(f.items) \in Nat /\ n + 1 \in Int /\ Len(f.items) \in Int
    BY <1>1
  <2>2. \A i \in n + 1 .. Len(f.items) : f.items[i] \in Items
    BY <1>1
  <2>3. QED
    BY <2>1, <2>2, SubSeqProperties
<1> DEFINE is == SubSeq(f.items, n + 1, Len(f.items))
<1>3. Rest(f, n) = [f EXCEPT !.items = is]
  BY DEF Rest
<1>4. is \in Seq(Items)
  BY <1>2
<1> HIDE DEF is
<1>5. /\ Rest(f, n) \in Frames
      /\ Rest(f, n).name = f.name
      /\ Rest(f, n).at = f.at
      /\ Rest(f, n).text = f.text
      /\ Rest(f, n).file = f.file
      /\ Rest(f, n).steady = f.steady
      /\ Rest(f, n).items = is
  BY <1>3, <1>4 DEF Frames
<1>6. FrameOK(Rest(f, n))
  BY <1>5 DEF FrameOK
<1>7. QED
  BY <1>5, <1>6 DEF is

\* The calls above the k-th are left, and it goes on.
LEMMA CallsCut ==
  ASSUME Calls(frames), NEW k \in 1 .. Len(frames), NEW n \in 1 .. Len(frames[k].items)
  PROVE  /\ Calls(GoesOn(k, n))
         /\ Len(GoesOn(k, n)) = k
         /\ GoesOn(k, n)[k] = Rest(frames[k], n)
         /\ \A i \in 1 .. k - 1 : GoesOn(k, n)[i] = frames[i]
<1> DEFINE fs == GoesOn(k, n)
<1>1. frames \in Seq(Frames) /\ Len(frames) \in Nat /\ k \in Nat /\ k >= 1
  BY DEF Calls
<1>2. frames[k] \in Frames /\ FrameOK(frames[k])
  BY <1>1, ElementOfSeq DEF Calls
<1>3. fs = [i \in 1 .. k |-> IF i = k THEN Rest(frames[k], n) ELSE frames[i]]
  BY DEF GoesOn, Rest
<1>4. \A i \in 1 .. k : fs[i] \in Frames /\ FrameOK(fs[i]) /\ fs[i].name = frames[i].name
  <2>1. SUFFICES ASSUME NEW i \in 1 .. k
                 PROVE  fs[i] \in Frames /\ FrameOK(fs[i]) /\ fs[i].name = frames[i].name
    OBVIOUS
  <2>2. CASE i = k
    <3>1. fs[i] = Rest(frames[k], n)
      BY <1>1, <1>3, <2>2
    <3>2. QED
      BY <1>2, <2>2, <3>1, RestProps
  <2>3. CASE i # k
    <3>1. fs[i] = frames[i] /\ i \in 1 .. Len(frames)
      BY <1>1, <1>3, <2>3
    <3>2. QED
      BY <1>1, <3>1, ElementOfSeq DEF Calls
  <2>4. QED
    BY <2>2, <2>3
<1>5. fs \in Seq(Frames) /\ Len(fs) = k
  <2>1. fs \in [1 .. k -> Frames]
    BY <1>3, <1>4
  <2>2. QED
    BY <1>1, <2>1
<1>6. \A i \in 1 .. k - 1 : fs[i] = frames[i]
  BY <1>1, <1>3
<1>7. fs[k] = Rest(frames[k], n)
  BY <1>1, <1>3
<1>8. \A i \in 1 .. k : fs[i].name \in Names <=> i # 1
  BY <1>1, <1>4 DEF Calls
<1>9. \A i \in 1 .. k - 1 : Waiting(fs[i], fs[i + 1])
  <2>1. SUFFICES ASSUME NEW i \in 1 .. k - 1
                 PROVE  Waiting(fs[i], fs[i + 1])
    OBVIOUS
  <2>2. i \in 1 .. Len(frames) - 1 /\ i + 1 \in 1 .. k
    BY <1>1
  <2>3. Waiting(frames[i], frames[i + 1]) /\ fs[i + 1].name = frames[i + 1].name
    BY <1>4, <2>2 DEF Calls
  <2>4. QED
    BY <1>6, <2>3 DEF Waiting
<1>10. Calls(fs)
  BY <1>4, <1>5, <1>8, <1>9 DEF Calls
<1>11. QED
  BY <1>5, <1>6, <1>7, <1>10

LEMMA SteadySet ==
  ASSUME NEW f \in Frames, NEW b \in BOOLEAN
  PROVE  LET g == [f EXCEPT !.steady = b]
         IN  /\ g \in Frames
             /\ g.name = f.name
             /\ g.at = f.at
             /\ g.file = f.file
             /\ g.items = f.items
             /\ g.text = f.text
             /\ g.steady = b
  BY DEF Frames

Edited(fs, file) ==
  [i \in DOMAIN fs |-> [fs[i] EXCEPT !.steady = @ /\ fs[i].file # file]]

\* A change of a file is remembered by the calls that load it.
LEMMA CallsEdited ==
  ASSUME Calls(frames), NEW file
  PROVE  /\ Calls(Edited(frames, file))
         /\ Len(Edited(frames, file)) = Len(frames)
         /\ \A i \in 1 .. Len(frames) :
              /\ Edited(frames, file)[i].name = frames[i].name
              /\ Edited(frames, file)[i].at = frames[i].at
              /\ Edited(frames, file)[i].file = frames[i].file
              /\ Edited(frames, file)[i].items = frames[i].items
              /\ Edited(frames, file)[i].text = frames[i].text
              /\ Edited(frames, file)[i].steady = (frames[i].steady /\ frames[i].file # file)
<1> DEFINE fs == Edited(frames, file)
<1>1. frames \in Seq(Frames) /\ Len(frames) \in Nat /\ DOMAIN frames = 1 .. Len(frames)
  BY DEF Calls
<1>2. \A i \in 1 .. Len(frames) : frames[i] \in Frames
  BY <1>1, ElementOfSeq
<1>3. \A i \in 1 .. Len(frames) : fs[i] = [frames[i] EXCEPT !.steady = @ /\ frames[i].file # file]
  BY <1>1 DEF Edited
<1>4. \A i \in 1 .. Len(frames) :
        /\ fs[i] \in Frames
        /\ fs[i].name = frames[i].name
        /\ fs[i].at = frames[i].at
        /\ fs[i].file = frames[i].file
        /\ fs[i].items = frames[i].items
        /\ fs[i].text = frames[i].text
        /\ fs[i].steady = (frames[i].steady /\ frames[i].file # file)
  <2>1. SUFFICES ASSUME NEW i \in 1 .. Len(frames)
                 PROVE  /\ fs[i] \in Frames
                        /\ fs[i].name = frames[i].name
                        /\ fs[i].at = frames[i].at
                        /\ fs[i].file = frames[i].file
                        /\ fs[i].items = frames[i].items
                        /\ fs[i].text = frames[i].text
                        /\ fs[i].steady = (frames[i].steady /\ frames[i].file # file)
    OBVIOUS
  <2> DEFINE b == frames[i].steady /\ frames[i].file # file
  <2>2. frames[i] \in Frames
    BY <1>2
  <2>3. b \in BOOLEAN
    BY Zenon
  <2>4. fs[i] = [frames[i] EXCEPT !.steady = b]
    BY <1>3, Zenon
  <2> HIDE DEF b
  <2>5. /\ fs[i] \in Frames
        /\ fs[i].name = frames[i].name
        /\ fs[i].at = frames[i].at
        /\ fs[i].file = frames[i].file
        /\ fs[i].items = frames[i].items
        /\ fs[i].text = frames[i].text
        /\ fs[i].steady = b
    BY <2>2, <2>3, <2>4, SteadySet
  <2>6. QED
    BY <2>5, Zenon DEF b
<1>5. fs \in Seq(Frames) /\ Len(fs) = Len(frames)
  <2>1. fs \in [1 .. Len(frames) -> Frames]
    BY <1>1, <1>4 DEF Edited
  <2>2. QED
    BY <1>1, <2>1
<1>6. \A i \in 1 .. Len(fs) : FrameOK(fs[i])
  BY <1>4, <1>5 DEF Calls, FrameOK
<1>7. \A i \in 1 .. Len(fs) : fs[i].name \in Names <=> i # 1
  BY <1>4, <1>5 DEF Calls
<1>8. \A i \in 1 .. Len(fs) - 1 : Waiting(fs[i], fs[i + 1])
  <2>1. SUFFICES ASSUME NEW i \in 1 .. Len(fs) - 1
                 PROVE  Waiting(fs[i], fs[i + 1])
    OBVIOUS
  <2>2. i \in 1 .. Len(frames) /\ i + 1 \in 1 .. Len(frames) /\ i \in 1 .. Len(frames) - 1
    BY <1>1, <1>5
  <2>3. QED
    BY <1>4, <2>2 DEF Calls, Waiting
<1>9. Calls(fs)
  BY <1>5, <1>6, <1>7, <1>8 DEF Calls
<1>10. QED
  BY <1>4, <1>5, <1>9

-----------------------------------------------------------------------------
(* Type correctness *)

Typed == TypeOK /\ Calls(frames)

Called == Names \union {Main, Prompt}

LEMMA Constants ==
  /\ Kind \in [Names -> Kinds]
  /\ Builtins \subseteq Names
  /\ Locate \in [Names -> [Dirs -> Files \union {Nowhere}]]
  /\ DirOf \in [Files -> Dirs]
  /\ Here \in Dirs
  /\ Main \in Files
  /\ Main \notin Names
  /\ Prompt \notin Names
  /\ Prompt # Main
  /\ Source \in [Texts -> [items : Seq(Items), parses : BOOLEAN, record : BOOLEAN]]
  /\ Absent \notin Texts
  BY LoaderAssumption

\* The loads above the k-th call are left, and it goes on after n items.
Caught(k, n) ==
  /\ frames[k].items # <<>>
  /\ Head(frames[k].items).do \in {"try", "serve"}
  /\ SameCall(frames[k].items, n)
  /\ frames' = GoesOn(k, n)
  /\ Leave(k)

\* An error is caught by nobody, or by a call.
LEMMA FailCases ==
  ASSUME NEW why, NEW name, Fail(why, name)
  PROVE  /\ outcome' = Tag(why, name)
         /\ stack' = stack /\ cache' = cache
         /\ \/ frames' = <<>> /\ Leave(1)
            \/ \E k \in 1 .. Len(frames) : \E n \in 1 .. Len(frames[k].items) : Caught(k, n)
<1>1. outcome' = Tag(why, name) /\ stack' = stack /\ cache' = cache
  BY DEF Fail
<1>2. ASSUME NEW k \in 1 .. Len(frames), CatchesAt(k, why), Leave(k),
             NEW n \in 1 .. Len(frames[k].items), SameCall(frames[k].items, n), frames' = GoesOn(k, n)
      PROVE  Caught(k, n)
  BY <1>2 DEF Caught, CatchesAt, Catches
<1>3. CASE frames' = <<>> /\ Leave(1)
  BY <1>1, <1>3
<1>4. CASE ~(frames' = <<>> /\ Leave(1))
  <2>1. PICK k \in 1 .. Len(frames) :
          /\ CatchesAt(k, why)
          /\ \E n \in 1 .. Len(frames[k].items) :
               /\ SameCall(frames[k].items, n)
               /\ frames' = GoesOn(k, n)
          /\ Leave(k)
    BY <1>4, Zenon DEF Fail
  <2>2. PICK n \in 1 .. Len(frames[k].items) :
          SameCall(frames[k].items, n) /\ frames' = GoesOn(k, n)
    BY <2>1, Zenon
  <2>3. Caught(k, n)
    BY <1>2, <2>1, <2>2, Zenon
  <2>4. QED
    BY <1>1, <2>3, Zenon
<1>5. QED
  BY <1>3, <1>4

LEMMA LeaveTyped ==
  ASSUME Typed, NEW k \in Nat, k >= 1, k <= Len(frames), Leave(k)
  PROVE  base' \in Nat /\ left' \subseteq [name : Names, when : Nat]
<1>1. /\ frames \in Seq(Frames) /\ Len(frames) \in Nat /\ base \in Nat
      /\ left \subseteq [name : Names, when : Nat] /\ Len(events) \in Nat
  BY DEF Typed, TypeOK
<1>2. base' \in Nat
  <2>1. base' = base + (Len(frames) - k)
    BY DEF Leave
  <2>2. \A b, l \in Nat : l >= k => b + (l - k) \in Nat
    OBVIOUS
  <2>3. QED
    BY <1>1, <2>1, <2>2
<1>3. \A i \in k + 1 .. Len(frames) : frames[i].name \in Names
  <2>1. \A i \in k + 1 .. Len(frames) : i \in 1 .. Len(frames) /\ i # 1
    BY <1>1
  <2>2. QED
    BY <2>1 DEF Typed, Calls
<1>4. left' = left \union {[name |-> frames[i].name, when |-> Len(events)] : i \in k + 1 .. Len(frames)}
  BY DEF Leave
<1>5. QED
  BY <1>1, <1>2, <1>3, <1>4

LEMMA FailTyped ==
  ASSUME Typed, Active, NEW why \in Reasons, NEW name \in Called, Fail(why, name)
  PROVE  /\ Calls(frames)'
         /\ frames' \in Seq(Frames)
         /\ outcome' \in [why : Reasons, name : Called]
         /\ stack' \in Seq(Names)
         /\ cache' \in [Names -> Texts \union Names \union {NotCached}]
         /\ base' \in Nat
         /\ left' \subseteq [name : Names, when : Nat]
<1>1. /\ outcome' \in [why : Reasons, name : Called]
      /\ stack' \in Seq(Names)
      /\ cache' \in [Names -> Texts \union Names \union {NotCached}]
  BY FailCases DEF Typed, TypeOK, Tag, Called
<1>2. CASE frames' = <<>> /\ Leave(1)
  <2>1. 1 <= Len(frames)
    BY TopIsLast DEF Typed
  <2>2. Calls(<<>>)
    BY NoCalls
  <2>3. QED
    BY <1>1, <1>2, <2>1, <2>2, LeaveTyped
<1>3. ASSUME NEW k \in 1 .. Len(frames), NEW n \in 1 .. Len(frames[k].items), Caught(k, n)
      PROVE  /\ Calls(frames)'
             /\ frames' \in Seq(Frames)
             /\ base' \in Nat
             /\ left' \subseteq [name : Names, when : Nat]
  <2>1. Calls(GoesOn(k, n)) /\ frames' = GoesOn(k, n) /\ Leave(k)
    BY <1>3, CallsCut DEF Typed, Caught
  <2>2. k \in Nat /\ k >= 1 /\ k <= Len(frames)
    BY DEF Typed, Calls
  <2>3. base' \in Nat /\ left' \subseteq [name : Names, when : Nat]
    BY <2>1, <2>2, LeaveTyped
  <2>4. QED
    BY <2>1, <2>3 DEF Calls
<1>4. QED
  BY <1>1, <1>2, <1>3, FailCases, Zenon

LEMMA TopTyped ==
  ASSUME Typed, Active
  PROVE  /\ Top \in Frames
         /\ FrameOK(Top)
         /\ Top.name \in Called
         /\ Top.items \in Seq(Items)
         /\ Top.here \in Dirs
         /\ Top.file \in Files \union {Nowhere}
         /\ Top.text \in Texts \union {Absent}
         /\ Top.steady \in BOOLEAN
<1>1. Top \in Frames /\ FrameOK(Top)
  BY TopIsLast DEF Typed
<1>2. QED
  BY <1>1 DEF Frames, Called

LEMMA ContentsTyped ==
  ASSUME TypeOK, NEW file \in Files \union {Nowhere}
  PROVE  /\ Contents(file) \in Texts \union {Absent}
         /\ Contents(file) # Absent => file \in Files /\ Contents(file) \in Texts
  BY DEF TypeOK, Contents

LEMMA FrameTyped ==
  ASSUME NEW name \in Called, NEW file \in Files \union {Nowhere}, NEW at \in Steps
  PROVE  Frame(name, file, at) \in Frames
<1>1. <<>> \in Seq(Items)
  OBVIOUS
<1>2. QED
  BY <1>1, Constants DEF Frame, Frames, Called, Steps

LEMMA PopTyped ==
  ASSUME NEW s \in Seq(Names)
  PROVE  /\ SubSeq(s, 1, Len(s) - 1) \in Seq(Names)
         /\ s # <<>> => /\ Len(SubSeq(s, 1, Len(s) - 1)) = Len(s) - 1
                        /\ \A i \in 1 .. Len(s) - 1 : SubSeq(s, 1, Len(s) - 1)[i] = s[i]
<1>1. Len(s) \in Nat /\ \A i \in 1 .. Len(s) - 1 : s[i] \in Names
  OBVIOUS
<1>2. Len(s) - 1 \in Int /\ 1 \in Int
  BY <1>1
<1> DEFINE t == SubSeq(s, 1, Len(s) - 1)
<1>3. /\ t \in Seq(Names)
      /\ Len(t) = IF 1 <= Len(s) - 1 THEN Len(s) - 1 - 1 + 1 ELSE 0
      /\ \A i \in 1 .. Len(s) - 1 - 1 + 1 : t[i] = s[1 + i - 1]
  BY <1>1, <1>2, SubSeqProperties
<1> HIDE DEF t
<1>4. s # <<>> => Len(s) >= 1
  OBVIOUS
<1>5. s # <<>> => Len(t) = Len(s) - 1
  <2>1. \A k, l \in Nat : k >= 1 /\ l = (IF 1 <= k - 1 THEN k - 1 - 1 + 1 ELSE 0) => l = k - 1
    OBVIOUS
  <2>2. Len(t) \in Nat
    BY <1>3
  <2>3. QED
    BY <1>1, <1>3, <1>4, <2>1, <2>2, Zenon
<1>6. \A i \in 1 .. Len(s) - 1 : t[i] = s[i]
  BY <1>1, <1>3
<1>7. QED
  BY <1>3, <1>5, <1>6 DEF t

LEMMA InitTyped == Init => Typed
<1>1. SUFFICES ASSUME Init
               PROVE  Typed
  OBVIOUS
<1>2. Frame(Main, Main, "source") \in Frames /\ Frame(Prompt, Main, "source") \in Frames
  BY Constants, FrameTyped DEF Called, Steps
<1>3. FrameOK(Frame(Main, Main, "source")) /\ FrameOK(Frame(Prompt, Main, "source"))
  BY Constants DEF FrameOK, Frame
<1>4. \A f \in Frames : FrameOK(f) /\ f.name \notin Names => <<f>> \in Seq(Frames) /\ Calls(<<f>>)
  <2>1. SUFFICES ASSUME NEW f \in Frames, FrameOK(f), f.name \notin Names
                 PROVE  <<f>> \in Seq(Frames) /\ Calls(<<f>>)
    OBVIOUS
  <2>2. <<f>> \in Seq(Frames) /\ Len(<<f>>) = 1 /\ <<f>>[1] = f
    OBVIOUS
  <2>3. QED
    BY <2>1, <2>2 DEF Calls
<1>5. frames \in Seq(Frames) /\ Calls(frames)
  <2>1. CASE frames = <<>>
    BY <2>1, NoCalls
  <2>2. CASE frames = <<Frame(Main, Main, "source")>>
    <3>1. Frame(Main, Main, "source").name = Main
      BY DEF Frame
    <3>2. QED
      BY <1>2, <1>3, <1>4, <2>2, <3>1, Constants
  <2>3. CASE frames = <<Frame(Prompt, Main, "source")>>
    <3>1. Frame(Prompt, Main, "source").name = Prompt
      BY DEF Frame
    <3>2. QED
      BY <1>2, <1>3, <1>4, <2>3, <3>1, Constants
  <2>4. QED
    BY <1>1, <2>1, <2>2, <2>3 DEF Init
<1>6. mode \in {"run", "test", "repl"} /\ lock \in Locks \union {NoLock} /\ enforce \in BOOLEAN
  BY <1>1 DEF Init
<1>7. /\ cache \in [Names -> Texts \union Names \union {NotCached}]
      /\ files \in [Files -> Texts \union {Absent}]
  BY <1>1, LoaderAssumption DEF Init, NothingCached
<1>8. outcome \in [why : Reasons, name : Called]
  BY <1>1 DEF Init, Tag, Reasons, Called
<1>9. lines \in 0 .. MaxLines /\ edits \in 0 .. MaxEdits /\ base \in Nat /\ ran \subseteq Evaluations
      /\ left \subseteq [name : Names, when : Nat]
  BY <1>1, LoaderAssumption DEF Init
<1>10. /\ stack \in Seq(Names)
       /\ nodes \in Seq([spec : Names \union {Main}, digest : Digests \union {NoEntry}])
       /\ edges \in Seq((Names \union {Main}) \X Names)
       /\ events \in Seq([name : Names, digest : Digests])
  BY <1>1 DEF Init
<1>11. QED
  BY <1>5, <1>6, <1>7, <1>8, <1>9, <1>10 DEF Typed, TypeOK, Called

\* What the steps that keep the innermost call do to the types.
LEMMA SetTyped ==
  ASSUME Typed, Active, NEW f \in Frames, FrameOK(f), f.name = Top.name, frames' = SetTop(f)
  PROVE  frames' \in Seq(Frames) /\ Calls(frames)'
<1>1. Calls(SetTop(f))
  BY CallsSet DEF Typed
<1>2. QED
  BY <1>1 DEF Calls

LEMMA LineTyped == ASSUME Typed, NEW items \in Lines, Line(items) PROVE Typed'
<1> DEFINE f == [Frame(Prompt, Nowhere, "run") EXCEPT !.items = items]
<1>1. f \in Frames
  <2>1. Frame(Prompt, Nowhere, "run") \in Frames
    BY FrameTyped DEF Called, Steps
  <2>2. items \in Seq(Items)
    BY LoaderAssumption
  <2>3. QED
    BY <2>1, <2>2 DEF Frames
<1>2. f.name = Prompt /\ f.at = "run" /\ f.text = Absent
  BY DEF Frame
<1>3. FrameOK(f)
  BY <1>2, Constants DEF FrameOK
<1>4. frames' = <<f>>
  BY DEF Line
<1> HIDE DEF f
<1>5. <<f>> \in Seq(Frames) /\ Len(<<f>>) = 1 /\ <<f>>[1] = f
  BY <1>1
<1>6. Calls(<<f>>)
  BY <1>2, <1>3, <1>5, Constants DEF Calls
<1>7. outcome' \in [why : Reasons, name : Called]
  BY DEF Line, Tag, Reasons, Called
<1>8. lines' \in 0 .. MaxLines /\ base' \in Nat
  BY LoaderAssumption DEF Line, past, Typed, TypeOK
<1>9. QED
  BY <1>4, <1>5, <1>6, <1>7, <1>8 DEF Line, Typed, TypeOK, Called, fixed, past, told, graph

LEMMA ResetTyped == ASSUME Typed, Reset PROVE Typed'
<1>1. cache' \in [Names -> Texts \union Names \union {NotCached}]
  BY DEF Reset, NothingCached
<1>2. outcome' \in [why : Reasons, name : Called]
  BY DEF Reset, Tag, Reasons, Called
<1>3. QED
  BY <1>1, <1>2 DEF Reset, Typed, TypeOK, Called, fixed, past, told

LEMMA FinishTyped == ASSUME Typed, Finish PROVE Typed'
<1>1. outcome' \in [why : Reasons, name : Called]
  BY TopTyped DEF Finish, Tag, Reasons
<1>2. frames' \in Seq(Frames) /\ Calls(frames)'
  BY NoCalls DEF Finish
<1>3. QED
  BY <1>1, <1>2 DEF Finish, Typed, TypeOK, Called, fixed, past, told, graph

LEMMA AtItemProps ==
  ASSUME Typed, NEW do, AtItem(do)
  PROVE  /\ Active
         /\ Top \in Frames
         /\ FrameOK(Top)
         /\ Top.at = "run"
         /\ Top.items # <<>>
         /\ Head(Top.items) \in Items
         /\ Head(Top.items).do \in do
<1>1. Active /\ Top.at = "run" /\ Top.items # <<>> /\ Head(Top.items).do \in do
  BY DEF AtItem
<1>2. Top \in Frames /\ FrameOK(Top) /\ Top.items \in Seq(Items)
  BY <1>1, TopTyped
<1>3. Head(Top.items) \in Items
  BY <1>1, <1>2, HeadTailProperties
<1>4. QED
  BY <1>1, <1>2, <1>3

LEMMA AtImportProps ==
  ASSUME Typed, AtImport
  PROVE  /\ Head(Top.items).do \in Loads
         /\ Head(Top.items).name \in Names
<1>1. Head(Top.items) \in Items /\ Head(Top.items).do \in Loads
  BY AtItemProps DEF AtImport
<1>2. QED
  BY <1>1 DEF Items, Loads

LEMMA ImportCachedTyped == ASSUME Typed, ImportCached PROVE Typed'
<1>1. Active /\ Top \in Frames /\ FrameOK(Top) /\ Top.items # <<>>
  BY AtItemProps DEF ImportCached, AtImport
<1>2. /\ ItemDone(Top) \in Frames
      /\ FrameOK(ItemDone(Top))
      /\ ItemDone(Top).name = Top.name
  BY <1>1, ItemDoneProps
<1>3. frames' \in Seq(Frames) /\ Calls(frames)'
  BY <1>1, <1>2, SetTyped DEF ImportCached
<1>4. QED
  BY <1>3 DEF ImportCached, Typed, TypeOK, fixed, past, told, graph

LEMMA ImportCycleTyped == ASSUME Typed, ImportCycle PROVE Typed'
<1>1. Active /\ Head(Top.items).name \in Called /\ "cycle" \in Reasons
  BY AtImportProps, AtItemProps DEF ImportCycle, AtImport, Called, Reasons
<1>2. Fail("cycle", Head(Top.items).name)
  BY DEF ImportCycle
<1>3. QED
  BY <1>1, <1>2, FailTyped DEF ImportCycle, Typed, TypeOK, fixed, past, told, graph, Called

LEMMA ItemFailsTyped == ASSUME Typed, ItemFails PROVE Typed'
<1>1. Active /\ Top.name \in Called /\ "item" \in Reasons /\ "unwind" \in Reasons
  BY AtItemProps, TopTyped DEF ItemFails, Reasons
<1>2. PICK why \in {"item", "unwind"} : Fail(why, Top.name)
  BY DEF ItemFails
<1>3. QED
  BY <1>1, <1>2, FailTyped DEF ItemFails, Typed, TypeOK, fixed, past, told, graph, Called

LEMMA ImportBeginTyped == ASSUME Typed, ImportBegin PROVE Typed'
<1> DEFINE item == Head(Top.items)
           name == item.name
           f == Frame(name, Locate[name][HereOf(item)], FirstStep(Kind[name]))
<1>1. Active /\ Top \in Frames /\ Top.at = "run" /\ Top.items # <<>>
  BY AtItemProps DEF ImportBegin, AtImport
<1>2. name \in Names /\ item.do \in Loads
  BY AtImportProps DEF ImportBegin
<1>3. HereOf(item) \in Dirs
  BY <1>1, TopTyped, Constants DEF HereOf
<1>4. Locate[name][HereOf(item)] \in Files \union {Nowhere}
  BY <1>2, <1>3, Constants
<1>5. FirstStep(Kind[name]) \in Steps
  BY DEF FirstStep, Steps
<1>6. f \in Frames
  BY <1>2, <1>4, <1>5, FrameTyped DEF Called
<1>7. f.name = name /\ f.at = FirstStep(Kind[name]) /\ f.text = Absent
  BY DEF Frame
<1>8. stack' = Append(stack, name) /\ NoteImport(name) /\ frames' = Append(frames, f)
  BY DEF ImportBegin
<1>9. FrameOK(f)
  BY <1>2, <1>7, Constants DEF FrameOK, FirstStep
<1>10. Waiting(Top, f)
  BY <1>1, <1>2, <1>7 DEF Waiting
<1> HIDE DEF f
<1>11. frames' \in Seq(Frames) /\ Calls(frames)'
  BY <1>1, <1>2, <1>6, <1>7, <1>8, <1>9, <1>10, CallsPush DEF Typed, Calls
<1>12. stack' \in Seq(Names)
  BY <1>2, <1>8, AppendProperties DEF Typed, TypeOK
<1>13. nodes' \in Seq([spec : Names \union {Main}, digest : Digests \union {NoEntry}])
  <2>1. Node(name, IF Kind[name] = "std" THEN name ELSE NoEntry)
          \in [spec : Names \union {Main}, digest : Digests \union {NoEntry}]
    BY <1>2 DEF Node, Digests
  <2>2. QED
    BY <1>8, <2>1, AppendProperties DEF NoteImport, Typed, TypeOK
<1>14. edges' \in Seq((Names \union {Main}) \X Names)
  <2>1. Top.name # Prompt => <<Top.name, name>> \in (Names \union {Main}) \X Names
    BY <1>1, <1>2, TopTyped DEF Called
  <2>2. QED
    BY <1>8, <2>1, AppendProperties DEF NoteImport, Typed, TypeOK
<1>15. QED
  BY <1>11, <1>12, <1>13, <1>14 DEF ImportBegin, Typed, TypeOK, fixed, past, told

LEMMA AtProps ==
  ASSUME Typed, NEW step, At(step)
  PROVE  /\ Active /\ Top.at = step
         /\ Top \in Frames
         /\ FrameOK(Top)
         /\ Top.name \in Called
         /\ Top.file \in Files \union {Nowhere}
         /\ Top.text \in Texts \union {Absent}
  BY TopTyped DEF At

LEMMA ResolveTyped ==
  ASSUME TypeOK, NEW name \in Names, NEW digest \in Digests, Resolve(name, digest)
  PROVE  events' \in Seq([name : Names, digest : Digests])
<1>1. Resolved(name, digest) \in [name : Names, digest : Digests]
  BY DEF Resolved
<1>2. QED
  BY <1>1, AppendProperties DEF Resolve, TypeOK

LEMMA LoadStdTyped == ASSUME Typed, LoadStd PROVE Typed'
<1>1. Active /\ Top.at = "resolve" /\ FrameOK(Top) /\ Top.name \in Called
  BY AtProps DEF LoadStd
<1>2. Top.name \in Names
  BY <1>1 DEF FrameOK
<1>3. CASE Top.name \in Builtins /\ Allows(Top.name, Top.name)
  <2>1. /\ Resolve(Top.name, Top.name)
        /\ stack' = SubSeq(stack, 1, Len(stack) - 1)
        /\ cache' = [cache EXCEPT ![Top.name] = Top.name]
        /\ frames' = ReturnToCaller
        /\ UNCHANGED <<outcome, past>>
    BY <1>3 DEF LoadStd
  <2>2. events' \in Seq([name : Names, digest : Digests])
    BY <1>2, <2>1, ResolveTyped DEF Typed, Digests
  <2>3. stack' \in Seq(Names)
    BY <2>1, PopTyped DEF Typed, TypeOK
  <2>4. cache' \in [Names -> Texts \union Names \union {NotCached}]
    BY <1>2, <2>1 DEF Typed, TypeOK
  <2>5. frames' \in Seq(Frames) /\ Calls(frames)'
    BY <1>1, <1>2, <2>1, CallsPop DEF Typed, Calls
  <2>6. QED
    BY <2>1, <2>2, <2>3, <2>4, <2>5 DEF LoadStd, Typed, TypeOK, fixed, past, told, graph
<1>4. CASE ~(Top.name \in Builtins /\ Allows(Top.name, Top.name))
  <2>1. Fail("std", Top.name) /\ UNCHANGED events
    BY <1>4 DEF LoadStd
  <2>2. "std" \in Reasons
    BY DEF Reasons
  <2>3. QED
    BY <1>1, <2>1, <2>2, FailTyped DEF LoadStd, Typed, TypeOK, fixed, past, told, graph, Called
<1>5. QED
  BY <1>3, <1>4

LEMMA DigestPackageTyped == ASSUME Typed, DigestPackage PROVE Typed'
<1> DEFINE got == IF Contents(Top.file) = Absent THEN Unknown ELSE Contents(Top.file)
<1>1. /\ Active /\ Top.at = "digest" /\ FrameOK(Top) /\ Top \in Frames
      /\ Top.name \in Called /\ Top.file \in Files \union {Nowhere}
  BY AtProps DEF DigestPackage
<1>2. Top.name \in Names /\ Kind[Top.name] = "pkg"
  BY <1>1 DEF FrameOK
<1>3. got \in Digests
  BY <1>1, ContentsTyped DEF Typed, Digests
<1>4. CASE Top.file # Nowhere /\ Expected(Top.name) \in {NoEntry, got}
  <2> DEFINE f == [Top EXCEPT !.at = "source"]
  <2>1. /\ NoteCurrent(got)
        /\ Resolve(Top.name, got)
        /\ frames' = SetTop(f)
        /\ UNCHANGED told
    BY <1>4 DEF DigestPackage
  <2>2. f \in Frames /\ f.name = Top.name /\ f.at = "source" /\ f.text = Top.text /\ f.file = Top.file
    BY <1>1 DEF Frames
  <2>3. FrameOK(f)
    BY <1>1, <1>2, <2>2 DEF FrameOK
  <2> HIDE DEF f
  <2>4. frames' \in Seq(Frames) /\ Calls(frames)'
    BY <1>1, <2>1, <2>2, <2>3, SetTyped
  <2>5. events' \in Seq([name : Names, digest : Digests])
    BY <1>2, <1>3, <2>1, ResolveTyped DEF Typed
  <2>6. nodes' \in Seq([spec : Names \union {Main}, digest : Digests \union {NoEntry}])
    <3> DEFINE S == [spec : Names \union {Main}, digest : Digests \union {NoEntry}]
    <3> HIDE DEF got
    <3>1. nodes \in Seq(S) /\ DOMAIN nodes = 1 .. Len(nodes) /\ Len(nodes) \in Nat
      BY DEF Typed, TypeOK
    <3>2. Node(Top.name, got) \in S
      BY <1>2, <1>3 DEF Node
    <3> HIDE DEF S
    <3>3. \A i \in 1 .. Len(nodes) : nodes[i] \in S
      BY <3>1, ElementOfSeq
    <3>4. nodes' \in [1 .. Len(nodes) -> S]
      BY <2>1, <3>1, <3>2, <3>3 DEF NoteCurrent
    <3>5. nodes' \in Seq(S)
      BY <3>1, <3>4
    <3>6. QED
      BY <3>5 DEF S
  <2>7. QED
    BY <2>1, <2>4, <2>5, <2>6 DEF DigestPackage, Typed, TypeOK, fixed, past, told
<1>5. CASE ~(Top.file # Nowhere /\ Expected(Top.name) \in {NoEntry, got})
  <2>1. Fail("package", Top.name) /\ UNCHANGED <<nodes, events>>
    BY <1>5 DEF DigestPackage
  <2>2. "package" \in Reasons
    BY DEF Reasons
  <2>3. QED
    BY <1>1, <2>1, <2>2, FailTyped DEF DigestPackage, Typed, TypeOK, fixed, past, told, graph, Called
<1>6. QED
  BY <1>4, <1>5

LEMMA ReadSourceTyped == ASSUME Typed, ReadSource PROVE Typed'
<1>1. /\ Active /\ Top.at = "source" /\ FrameOK(Top) /\ Top \in Frames
      /\ Top.name \in Called /\ Top.file \in Files \union {Nowhere}
  BY AtProps DEF ReadSource
<1>2. CASE Contents(Top.file) = Absent
  <2>1. Fail("missing", Top.name) /\ "missing" \in Reasons
    BY <1>2 DEF ReadSource, Reasons
  <2>2. QED
    BY <1>1, <2>1, FailTyped DEF ReadSource, Typed, TypeOK, fixed, past, told, graph, Called
<1>3. CASE Contents(Top.file) # Absent
  <2> DEFINE f == [Top EXCEPT !.text = Contents(Top.file), !.at = AfterSource(Top)]
  <2>1. frames' = SetTop(f) /\ UNCHANGED told
    BY <1>3 DEF ReadSource
  <2>2. Top.file \in Files /\ Contents(Top.file) \in Texts
    BY <1>1, <1>3, ContentsTyped DEF Typed
  <2>3. /\ Top.name = Main => AfterSource(Top) = "note"
        /\ Top.name = Prompt => AfterSource(Top) = "parse"
        /\ Top.name \in Names =>
             AfterSource(Top) = IF Kind[Top.name] = "pkg" THEN "parse" ELSE "check"
    BY Constants DEF AfterSource
  <2>4. AfterSource(Top) \in {"note", "parse", "check"}
    BY <1>1, <2>3 DEF Called
  <2>5. /\ f \in Frames /\ f.name = Top.name /\ f.at = AfterSource(Top)
        /\ f.text = Contents(Top.file) /\ f.file = Top.file
    BY <1>1, <2>2, <2>4 DEF Frames
  <2>6. FrameOK(f)
    BY <1>1, <2>2, <2>3, <2>4, <2>5, Constants DEF FrameOK, Called
  <2> HIDE DEF f
  <2>7. frames' \in Seq(Frames) /\ Calls(frames)'
    BY <1>1, <2>1, <2>5, <2>6, SetTyped
  <2>8. QED
    BY <2>1, <2>7 DEF ReadSource, Typed, TypeOK, fixed, past, told, graph
<1>4. QED
  BY <1>2, <1>3

LEMMA NoteProgramTyped == ASSUME Typed, NoteProgram PROVE Typed'
<1> DEFINE f == [Top EXCEPT !.at = "parse"]
           digest == IF files[Main] = Absent THEN NoEntry ELSE files[Main]
<1>1. /\ Active /\ Top.at = "note" /\ FrameOK(Top) /\ Top \in Frames
  BY AtProps DEF NoteProgram
<1>2. f \in Frames /\ f.name = Top.name /\ f.at = "parse" /\ f.text = Top.text /\ f.file = Top.file
  BY <1>1 DEF Frames
<1>3. FrameOK(f)
  BY <1>1, <1>2 DEF FrameOK
<1>4. frames' = SetTop(f) /\ nodes' = Append(nodes, Node(Main, digest))
  BY DEF NoteProgram
<1>5. digest \in Digests \union {NoEntry}
  BY Constants DEF Typed, TypeOK, Digests
<1> HIDE DEF f, digest
<1>6. frames' \in Seq(Frames) /\ Calls(frames)'
  BY <1>1, <1>2, <1>3, <1>4, SetTyped
<1>7. nodes' \in Seq([spec : Names \union {Main}, digest : Digests \union {NoEntry}])
  <2>1. Node(Main, digest) \in [spec : Names \union {Main}, digest : Digests \union {NoEntry}]
    BY <1>5 DEF Node
  <2>2. QED
    BY <1>4, <2>1, AppendProperties DEF Typed, TypeOK
<1>8. QED
  BY <1>6, <1>7 DEF NoteProgram, Typed, TypeOK, fixed, past, told

LEMMA CheckLockTyped == ASSUME Typed, CheckLock PROVE Typed'
<1> DEFINE f == [Top EXCEPT !.at = "trace"]
<1>1. /\ Active /\ Top.at = "check" /\ FrameOK(Top) /\ Top \in Frames /\ Top.name \in Called
  BY AtProps DEF CheckLock
<1>2. f \in Frames /\ f.name = Top.name /\ f.at = "trace" /\ f.text = Top.text /\ f.file = Top.file
  BY <1>1 DEF Frames
<1>3. FrameOK(f)
  BY <1>1, <1>2 DEF FrameOK
<1>4. CASE frames' = SetTop(f) /\ UNCHANGED told
  <2> HIDE DEF f
  <2>1. frames' \in Seq(Frames) /\ Calls(frames)'
    BY <1>1, <1>2, <1>3, <1>4, SetTyped
  <2>2. QED
    BY <1>4, <2>1 DEF CheckLock, Typed, TypeOK, fixed, past, told, graph
<1>5. CASE Fail("lock", Top.name)
  <2>1. "lock" \in Reasons
    BY DEF Reasons
  <2>2. QED
    BY <1>1, <1>5, <2>1, FailTyped DEF CheckLock, Typed, TypeOK, fixed, past, told, graph, Called
<1>6. QED
  BY <1>4, <1>5 DEF CheckLock

LEMMA TraceModuleTyped == ASSUME Typed, TraceModule PROVE Typed'
<1> DEFINE f == [Top EXCEPT !.at = "parse"]
<1>1. /\ Active /\ Top.at = "trace" /\ FrameOK(Top) /\ Top \in Frames /\ Top.name \in Called
      /\ Top.file \in Files \union {Nowhere}
  BY AtProps DEF TraceModule
<1>2. f \in Frames /\ f.name = Top.name /\ f.at = "parse" /\ f.text = Top.text /\ f.file = Top.file
  BY <1>1 DEF Frames
<1>3. FrameOK(f) /\ Top.name \in Names
  BY <1>1, <1>2 DEF FrameOK
<1>4. CASE Contents(Top.file) # Absent
  <2>1. /\ Resolve(Top.name, Contents(Top.file))
        /\ frames' = SetTop(f)
        /\ UNCHANGED told
    BY <1>4 DEF TraceModule
  <2> HIDE DEF f
  <2>2. frames' \in Seq(Frames) /\ Calls(frames)'
    BY <1>1, <1>2, <1>3, <2>1, SetTyped
  <2>3. Contents(Top.file) \in Digests
    BY <1>1, <1>4, ContentsTyped DEF Typed, Digests
  <2>4. events' \in Seq([name : Names, digest : Digests])
    BY <1>3, <2>1, <2>3, ResolveTyped DEF Typed
  <2>5. QED
    BY <2>1, <2>2, <2>4 DEF TraceModule, Typed, TypeOK, fixed, past, told, graph
<1>5. CASE Contents(Top.file) = Absent
  <2>1. Fail("missing", Top.name) /\ UNCHANGED events /\ "missing" \in Reasons
    BY <1>5 DEF TraceModule, Reasons
  <2>2. QED
    BY <1>1, <2>1, FailTyped DEF TraceModule, Typed, TypeOK, fixed, past, told, graph, Called
<1>6. QED
  BY <1>4, <1>5

LEMMA ParseTyped == ASSUME Typed, Parse PROVE Typed'
<1>1. /\ Active /\ Top.at = "parse" /\ FrameOK(Top) /\ Top \in Frames /\ Top.name \in Called
      /\ Top.steady \in BOOLEAN
  BY AtProps, TopTyped DEF Parse
<1>2. Top.text \in Texts /\ Top.file \in Files
  BY <1>1 DEF FrameOK
<1>3. CASE Source[Top.text].parses
  <2> DEFINE f == [Top EXCEPT !.at = "run", !.here = DirOf[Top.file],
                              !.items = Source[Top.text].items]
  <2>1. /\ frames' = SetTop(f)
        /\ ran' = ran \union {Evaluated(Top)}
        /\ UNCHANGED told
    BY <1>3 DEF Parse
  <2>2. Source[Top.text].items \in Seq(Items) /\ DirOf[Top.file] \in Dirs
    BY <1>2, Constants
  <2>3. /\ f \in Frames /\ f.name = Top.name /\ f.at = "run"
        /\ f.text = Top.text /\ f.file = Top.file
    BY <1>1, <2>2 DEF Frames
  <2>4. FrameOK(f)
    BY <1>2, <2>3 DEF FrameOK
  <2> HIDE DEF f
  <2>5. frames' \in Seq(Frames) /\ Calls(frames)'
    BY <1>1, <2>1, <2>3, <2>4, SetTyped
  <2>6. ran' \subseteq Evaluations
    BY <1>1, <1>2, <2>1 DEF Typed, TypeOK, Evaluated, Evaluations, Called
  <2>7. QED
    BY <2>1, <2>5, <2>6 DEF Parse, Typed, TypeOK, fixed, past, told, graph
<1>4. CASE ~Source[Top.text].parses
  <2>1. Fail("syntax", Top.name) /\ UNCHANGED ran /\ "syntax" \in Reasons
    BY <1>4 DEF Parse, Reasons
  <2>2. QED
    BY <1>1, <2>1, FailTyped DEF Parse, Typed, TypeOK, fixed, past, told, graph, Called
<1>5. QED
  BY <1>3, <1>4

LEMMA ReturnTyped == ASSUME Typed, Return PROVE Typed'
<1>1. Active /\ Top.at = "run" /\ Top.name \in Names
  BY DEF Return, IsModule
<1>2. FrameOK(Top) /\ Top.text \in Texts
  BY <1>1, TopTyped DEF FrameOK
<1>3. CASE Source[Top.text].record
  <2>1. /\ stack' = SubSeq(stack, 1, Len(stack) - 1)
        /\ cache' = [cache EXCEPT ![Top.name] = Top.text]
        /\ frames' = ReturnToCaller
        /\ UNCHANGED <<outcome, past>>
    BY <1>3 DEF Return
  <2>2. stack' \in Seq(Names)
    BY <2>1, PopTyped DEF Typed, TypeOK
  <2>3. cache' \in [Names -> Texts \union Names \union {NotCached}]
    BY <1>1, <1>2, <2>1 DEF Typed, TypeOK
  <2>4. frames' \in Seq(Frames) /\ Calls(frames)'
    BY <1>1, <2>1, CallsPop DEF Typed, Calls
  <2>5. QED
    BY <2>1, <2>2, <2>3, <2>4 DEF Return, Typed, TypeOK, fixed, past, told, graph
<1>4. CASE ~Source[Top.text].record
  <2>1. Fail("not a record", Top.name) /\ "not a record" \in Reasons
    BY <1>4 DEF Return, Reasons
  <2>2. Top.name \in Called
    BY <1>1 DEF Called
  <2>3. QED
    BY <2>1, <2>2, FailTyped DEF Return, Typed, TypeOK, fixed, past, told, graph, Called
<1>5. QED
  BY <1>3, <1>4

LEMMA EditTyped == ASSUME Typed, NEW change \in Edits, Edit(change[1], change[2]) PROVE Typed'
<1>1. change[1] \in Files /\ change[2] \in Texts \union {Absent}
  BY LoaderAssumption
<1>2. frames' = Edited(frames, change[1])
  BY DEF Edit, Edited
<1>3. frames' \in Seq(Frames) /\ Calls(frames)'
  BY <1>2, CallsEdited DEF Typed, Calls
<1>4. files' \in [Files -> Texts \union {Absent}]
  BY <1>1 DEF Edit, Typed, TypeOK
<1>5. edits' \in 0 .. MaxEdits
  BY LoaderAssumption DEF Edit, Typed, TypeOK
<1>6. QED
  BY <1>3, <1>4, <1>5 DEF Edit, Typed, TypeOK, fixed, past, told, graph

LEMMA StepTyped == Typed /\ [Next]_vars => Typed'
<1>1. SUFFICES ASSUME Typed, [Next]_vars
               PROVE  Typed'
  OBVIOUS
<1>2. CASE Step
  <2>1. \/ Finish \/ ImportCached \/ ImportCycle \/ ImportBegin \/ ItemFails
        \/ LoadStd \/ DigestPackage \/ ReadSource \/ NoteProgram
        \/ CheckLock \/ TraceModule \/ Parse \/ Return
    BY <1>2 DEF Step
  <2>2. QED
    BY <1>1, <2>1, FinishTyped, ImportCachedTyped, ImportCycleTyped, ImportBeginTyped,
       ItemFailsTyped, LoadStdTyped, DigestPackageTyped, ReadSourceTyped, NoteProgramTyped,
       CheckLockTyped, TraceModuleTyped, ParseTyped, ReturnTyped, Zenon
<1>3. CASE UNCHANGED vars
  BY <1>1, <1>3 DEF vars, fixed, past, told, graph, Typed, TypeOK, Calls
<1>4. ASSUME NEW items \in Lines, Line(items)
      PROVE  Typed'
  BY <1>1, <1>4, LineTyped, Zenon
<1>5. ASSUME NEW change \in Edits, Edit(change[1], change[2])
      PROVE  Typed'
  BY <1>1, <1>5, EditTyped, Zenon
<1>6. CASE Reset
  BY <1>1, <1>6, ResetTyped, Zenon
<1>7. QED
  BY <1>1, <1>2, <1>3, <1>4, <1>5, <1>6 DEF Next

\* The loader's variables keep their types, and each call has in hand what
\* its next step needs: a text to parse, the import it waits for.
THEOREM LoaderTypeOK == Spec => []TypeOK
<1>1. Init => Typed
  BY InitTyped
<1>2. Typed /\ [Next]_vars => Typed'
  BY StepTyped
<1>3. Typed => TypeOK
  BY DEF Typed
<1>4. QED
  BY <1>1, <1>2, <1>3, PTL DEF Spec

-----------------------------------------------------------------------------
(* What each step does to the calls *)

\* An error is raised.
Errs ==
  /\ \E why, name : Fail(why, name)
  /\ UNCHANGED <<fixed, files, graph, events, ran>>

\* The innermost call goes to step at, and nothing else moves.
TopGoes(at) ==
  /\ Len(frames') = Len(frames)
  /\ \A i \in 1 .. Len(frames) - 1 : frames'[i] = frames[i]
  /\ frames'[Len(frames)].name = Top.name
  /\ frames'[Len(frames)].file = Top.file
  /\ frames'[Len(frames)].steady = Top.steady
  /\ frames'[Len(frames)].at = at

\* The innermost call has returned.
TopLeaves ==
  /\ Len(frames) > 1
  /\ Len(frames') = Len(frames) - 1
  /\ \A i \in 1 .. Len(frames) - 1 : /\ frames'[i].name = frames[i].name
                                      /\ frames'[i].at = "run"
                                      /\ frames[i].at = "run"

LEMMA SetEffect ==
  ASSUME Typed, Typed', Active, NEW f, frames' = SetTop(f)
  PROVE  /\ Len(frames') = Len(frames)
         /\ \A i \in 1 .. Len(frames) - 1 : frames'[i] = frames[i]
         /\ frames'[Len(frames)] = f
<1>1. frames \in Seq(Frames) /\ frames' \in Seq(Frames)
  BY DEF Typed, TypeOK
<1>2. /\ Len(frames) \in Nat /\ DOMAIN frames = 1 .. Len(frames)
      /\ Len(frames') \in Nat /\ DOMAIN frames' = 1 .. Len(frames')
  BY <1>1, LenProperties
<1>3. frames' = [frames EXCEPT ![Len(frames)] = f]
  BY DEF SetTop
<1>4. 1 .. Len(frames') = 1 .. Len(frames)
  BY <1>2, <1>3
<1>5. Len(frames') = Len(frames)
  <2>1. \A m, n \in Nat : 1 .. m = 1 .. n => m = n
    <3>1. SUFFICES ASSUME NEW m \in Nat, NEW n \in Nat, 1 .. m = 1 .. n, m < n
                   PROVE  FALSE
      OBVIOUS
    <3>2. n \in 1 .. n /\ n \notin 1 .. m
      BY <3>1
    <3>3. QED
      BY <3>1, <3>2
  <2>2. QED
    BY <1>2, <1>4, <2>1, Zenon
<1>6. Len(frames) \in 1 .. Len(frames)
  BY TopIsLast DEF Typed
<1>7. frames'[Len(frames)] = f
  BY <1>2, <1>3, <1>6
<1>8. \A i \in 1 .. Len(frames) - 1 : frames'[i] = frames[i]
  <2>1. SUFFICES ASSUME NEW i \in 1 .. Len(frames) - 1
                 PROVE  frames'[i] = frames[i]
    OBVIOUS
  <2>2. \A n \in Nat : \A k \in 1 .. n - 1 : k \in 1 .. n /\ k # n
    OBVIOUS
  <2>3. i \in 1 .. Len(frames) /\ i # Len(frames)
    BY <1>2, <2>1, <2>2, Zenon
  <2>4. QED
    BY <1>2, <1>3, <2>3, Zenon
<1>9. QED
  BY <1>5, <1>7, <1>8

LEMMA RecordSet ==
  ASSUME NEW f \in Frames, NEW x, NEW y, NEW z
  PROVE  /\ LET g == [f EXCEPT !.at = x]
            IN  /\ g.name = f.name /\ g.file = f.file /\ g.steady = f.steady
                /\ g.at = x /\ g.text = f.text /\ g.items = f.items
         /\ LET g == [f EXCEPT !.text = y, !.at = x]
            IN  /\ g.name = f.name /\ g.file = f.file /\ g.steady = f.steady
                /\ g.at = x /\ g.text = y
         /\ LET g == [f EXCEPT !.at = x, !.here = y, !.items = z]
            IN  /\ g.name = f.name /\ g.file = f.file /\ g.steady = f.steady
                /\ g.at = x /\ g.text = f.text /\ g.items = z
         /\ LET g == [f EXCEPT !.items = Tail(@)]
            IN  /\ g.name = f.name /\ g.file = f.file /\ g.steady = f.steady
                /\ g.at = f.at /\ g.text = f.text
  BY DEF Frames

LEMMA ImportCachedEffect ==
  ASSUME Typed, Typed', ImportCached
  PROVE  Active /\ Top.at = "run" /\ TopGoes("run")
<1> DEFINE f == [Top EXCEPT !.items = Tail(@)]
<1>1. Active /\ Top \in Frames /\ Top.at = "run"
  BY AtItemProps DEF ImportCached, AtImport
<1>2. frames' = SetTop(f)
  BY DEF ImportCached, ItemDone
<1>3. /\ f.name = Top.name /\ f.file = Top.file /\ f.steady = Top.steady
      /\ f.at = "run"
  BY <1>1, RecordSet
<1> HIDE DEF f
<1>4. /\ Len(frames') = Len(frames)
      /\ \A i \in 1 .. Len(frames) - 1 : frames'[i] = frames[i]
      /\ frames'[Len(frames)] = f
  BY <1>1, <1>2, SetEffect
<1>5. QED
  BY <1>1, <1>2, <1>3, <1>4 DEF TopGoes

LEMMA DigestPackageEffect ==
  ASSUME Typed, Typed', DigestPackage, ~Errs
  PROVE  /\ Active /\ Top.at = "digest" /\ Top.name \in Names
         /\ TopGoes("source")
         /\ LET got == IF Contents(Top.file) = Absent THEN Unknown ELSE Contents(Top.file)
            IN  /\ Expected(Top.name) \in {NoEntry, got}
                /\ events' = Append(events, Resolved(Top.name, got))
                /\ NoteCurrent(got)
         /\ UNCHANGED <<stack, cache, past>>
<1> DEFINE f == [Top EXCEPT !.at = "source"]
<1>1. Active /\ Top \in Frames /\ Top.at = "digest" /\ FrameOK(Top)
  BY AtProps DEF DigestPackage
<1>2. LET got == IF Contents(Top.file) = Absent THEN Unknown ELSE Contents(Top.file)
      IN  /\ Expected(Top.name) \in {NoEntry, got}
          /\ Resolve(Top.name, got)
          /\ NoteCurrent(got)
          /\ frames' = SetTop(f)
          /\ UNCHANGED <<stack, cache, past>>
  BY Zenon DEF DigestPackage, Errs, graph, told
<1>3. /\ f.name = Top.name /\ f.file = Top.file /\ f.steady = Top.steady
      /\ f.at = "source" /\ f.text = Top.text
  BY <1>1, RecordSet
<1> HIDE DEF f
<1>4. /\ Len(frames') = Len(frames)
      /\ \A i \in 1 .. Len(frames) - 1 : frames'[i] = frames[i]
      /\ frames'[Len(frames)] = f
  BY <1>1, <1>2, SetEffect
<1>5. TopGoes("source")
  BY <1>3, <1>4 DEF TopGoes
<1>6. QED
  BY <1>1, <1>2, <1>5 DEF Resolve, FrameOK

LEMMA ReadSourceEffect ==
  ASSUME Typed, Typed', ReadSource, ~Errs
  PROVE  /\ Active /\ Top.at = "source"
         /\ TopGoes(AfterSource(Top))
         /\ frames'[Len(frames)].text = Contents(Top.file)
         /\ Contents(Top.file) # Absent
         /\ UNCHANGED <<stack, cache, past>>
<1> DEFINE f == [Top EXCEPT !.text = Contents(Top.file), !.at = AfterSource(Top)]
<1>1. Active /\ Top \in Frames /\ Top.at = "source"
  BY AtProps DEF ReadSource
<1>2. /\ frames' = SetTop(f)
      /\ Contents(Top.file) # Absent
      /\ UNCHANGED <<stack, cache, past>>
  BY DEF ReadSource, Errs, graph, told
<1>3. /\ f.name = Top.name /\ f.file = Top.file /\ f.steady = Top.steady
      /\ f.at = AfterSource(Top) /\ f.text = Contents(Top.file)
  BY <1>1, RecordSet
<1> HIDE DEF f
<1>4. /\ Len(frames') = Len(frames)
      /\ \A i \in 1 .. Len(frames) - 1 : frames'[i] = frames[i]
      /\ frames'[Len(frames)] = f
  BY <1>1, <1>2, SetEffect
<1>5. QED
  BY <1>1, <1>2, <1>3, <1>4 DEF TopGoes

LEMMA NoteProgramEffect ==
  ASSUME Typed, Typed', NoteProgram
  PROVE  /\ Active /\ Top.at = "note"
         /\ TopGoes("parse")
         /\ frames'[Len(frames)].text = Top.text
<1> DEFINE f == [Top EXCEPT !.at = "parse"]
<1>1. Active /\ Top \in Frames /\ Top.at = "note"
  BY AtProps DEF NoteProgram
<1>2. frames' = SetTop(f)
  BY DEF NoteProgram
<1>3. /\ f.name = Top.name /\ f.file = Top.file /\ f.steady = Top.steady
      /\ f.at = "parse" /\ f.text = Top.text
  BY <1>1, RecordSet
<1> HIDE DEF f
<1>4. /\ Len(frames') = Len(frames)
      /\ \A i \in 1 .. Len(frames) - 1 : frames'[i] = frames[i]
      /\ frames'[Len(frames)] = f
  BY <1>1, <1>2, SetEffect
<1>5. QED
  BY <1>1, <1>2, <1>3, <1>4 DEF TopGoes

LEMMA CheckLockEffect ==
  ASSUME Typed, Typed', CheckLock, ~Errs
  PROVE  /\ Active /\ Top.at = "check"
         /\ TopGoes("trace")
         /\ frames'[Len(frames)].text = Top.text
         /\ Allows(Top.name, Contents(Top.file))
         /\ UNCHANGED <<stack, cache, past>>
<1> DEFINE f == [Top EXCEPT !.at = "trace"]
<1>1. Active /\ Top \in Frames /\ Top.at = "check"
  BY AtProps DEF CheckLock
<1>2. /\ frames' = SetTop(f)
      /\ Allows(Top.name, Contents(Top.file))
      /\ UNCHANGED <<stack, cache, past>>
  BY DEF CheckLock, Errs, graph, told
<1>3. /\ f.name = Top.name /\ f.file = Top.file /\ f.steady = Top.steady
      /\ f.at = "trace" /\ f.text = Top.text
  BY <1>1, RecordSet
<1> HIDE DEF f
<1>4. /\ Len(frames') = Len(frames)
      /\ \A i \in 1 .. Len(frames) - 1 : frames'[i] = frames[i]
      /\ frames'[Len(frames)] = f
  BY <1>1, <1>2, SetEffect
<1>5. QED
  BY <1>1, <1>2, <1>3, <1>4 DEF TopGoes

LEMMA TraceModuleEffect ==
  ASSUME Typed, Typed', TraceModule, ~Errs
  PROVE  /\ Active /\ Top.at = "trace" /\ Top.name \in Names
         /\ TopGoes("parse")
         /\ frames'[Len(frames)].text = Top.text
         /\ Contents(Top.file) # Absent
         /\ events' = Append(events, Resolved(Top.name, Contents(Top.file)))
         /\ UNCHANGED <<stack, cache, past>>
<1> DEFINE f == [Top EXCEPT !.at = "parse"]
<1>1. Active /\ Top \in Frames /\ Top.at = "trace" /\ FrameOK(Top)
  BY AtProps DEF TraceModule
<1>2. /\ frames' = SetTop(f)
      /\ Contents(Top.file) # Absent
      /\ events' = Append(events, Resolved(Top.name, Contents(Top.file)))
      /\ UNCHANGED <<stack, cache, past>>
  BY DEF TraceModule, Errs, graph, told, Resolve
<1>3. /\ f.name = Top.name /\ f.file = Top.file /\ f.steady = Top.steady
      /\ f.at = "parse" /\ f.text = Top.text
  BY <1>1, RecordSet
<1> HIDE DEF f
<1>4. /\ Len(frames') = Len(frames)
      /\ \A i \in 1 .. Len(frames) - 1 : frames'[i] = frames[i]
      /\ frames'[Len(frames)] = f
  BY <1>1, <1>2, SetEffect
<1>5. QED
  BY <1>1, <1>2, <1>3, <1>4 DEF TopGoes, FrameOK

LEMMA ParseEffect ==
  ASSUME Typed, Typed', Parse, ~Errs
  PROVE  /\ Active /\ Top.at = "parse"
         /\ TopGoes("run")
         /\ frames'[Len(frames)].text = Top.text
         /\ ran' = ran \union {Evaluated(Top)}
         /\ UNCHANGED <<stack, cache, past>>
<1> DEFINE f == [Top EXCEPT !.at = "run", !.here = DirOf[Top.file],
                              !.items = Source[Top.text].items]
<1>1. Active /\ Top \in Frames /\ Top.at = "parse"
  BY AtProps DEF Parse
<1>2. /\ frames' = SetTop(f)
      /\ ran' = ran \union {Evaluated(Top)}
      /\ UNCHANGED <<stack, cache, past>>
  BY DEF Parse, Errs, graph, told
<1>3. /\ f.name = Top.name /\ f.file = Top.file /\ f.steady = Top.steady
      /\ f.at = "run" /\ f.text = Top.text
  BY <1>1, RecordSet
<1> HIDE DEF f
<1>4. /\ Len(frames') = Len(frames)
      /\ \A i \in 1 .. Len(frames) - 1 : frames'[i] = frames[i]
      /\ frames'[Len(frames)] = f
  BY <1>1, <1>2, SetEffect
<1>5. QED
  BY <1>1, <1>2, <1>3, <1>4 DEF TopGoes

LEMMA ReturnEffect ==
  ASSUME Typed, frames' = ReturnToCaller, Active, Top.name \in Names
  PROVE  TopLeaves
<1>1. /\ Len(frames) > 1
      /\ Len(frames') = Len(frames) - 1
      /\ frames'[Len(frames) - 1] = ItemDone(frames[Len(frames) - 1])
      /\ \A i \in 1 .. Len(frames) - 2 : frames'[i] = frames[i]
  BY CallsPop DEF Typed
<1>2. frames \in Seq(Frames) /\ Len(frames) \in Nat
  BY DEF Typed, Calls
<1>3. \A i \in 1 .. Len(frames) - 1 : frames[i] \in Frames /\ frames[i].at = "run"
  <2>1. SUFFICES ASSUME NEW i \in 1 .. Len(frames) - 1
                 PROVE  frames[i] \in Frames /\ frames[i].at = "run"
    OBVIOUS
  <2>2. i \in 1 .. Len(frames)
    BY <1>2
  <2>3. QED
    BY <1>2, <2>2, ElementOfSeq DEF Typed, Calls, Waiting
<1>4. \A f \in Frames : ItemDone(f).name = f.name /\ ItemDone(f).at = f.at
  BY RecordSet DEF ItemDone
<1>5. \A i \in 1 .. Len(frames) - 1 : frames'[i].name = frames[i].name /\ frames'[i].at = "run"
  <2>1. SUFFICES ASSUME NEW i \in 1 .. Len(frames) - 1
                 PROVE  frames'[i].name = frames[i].name /\ frames'[i].at = "run"
    OBVIOUS
  <2>2. i \in 1 .. Len(frames) - 2 \/ i = Len(frames) - 1
    BY <1>2
  <2>3. QED
    BY <1>1, <1>3, <1>4, <2>2
<1>6. QED
  BY <1>1, <1>3, <1>5 DEF TopLeaves

-----------------------------------------------------------------------------
(* The stack of imports *)

\* The calls, the stack and the cache as a step may leave them: the calls
\* above the k-th are left, or all go on, or the innermost one begins or
\* returns.
CallsAreCut(k) ==
  /\ Active
  /\ k \in 0 .. Len(frames)
  /\ Len(frames') = k
  /\ \A i \in 1 .. k : /\ frames'[i].name = frames[i].name
                       /\ frames'[i].at = frames[i].at
                       /\ frames'[i].text = frames[i].text
                       /\ frames'[i].file = frames[i].file
                       /\ frames'[i].steady = frames[i].steady
  /\ base' + (IF k = 0 THEN 0 ELSE k - 1) = base + Len(frames) - 1
  /\ \A l : l \in left' <=> \/ l \in left
                          \/ \E i \in 2 .. Len(frames) :
                               i > k /\ l = [name |-> frames[i].name, when |-> Len(events)]
  /\ UNCHANGED <<stack, cache>>

CallsGoOn ==
  /\ Len(frames') = Len(frames)
  /\ \A i \in 1 .. Len(frames) : frames'[i].name = frames[i].name
  /\ UNCHANGED <<stack, cache, past>>

CallBegins(name) ==
  /\ Active
  /\ ~Cached(name)
  /\ ~Stacked(name)
  /\ stack' = Append(stack, name)
  /\ Len(frames') = Len(frames) + 1
  /\ \A i \in 1 .. Len(frames) : frames'[i].name = frames[i].name
  /\ frames'[Len(frames) + 1].name = name
  /\ UNCHANGED <<cache, past>>

CallReturns ==
  /\ Active
  /\ Top.name \in Names
  /\ TopLeaves
  /\ stack' = SubSeq(stack, 1, Len(stack) - 1)
  /\ cache'[Top.name] # NotCached
  /\ \A n \in Names \ {Top.name} : cache'[n] = cache[n]
  /\ UNCHANGED past

LEMMA ActiveNat ==
  ASSUME Typed, Active
  PROVE  Len(frames) \in Nat /\ Len(frames) >= 1 /\ base \in Nat
<1>1. Len(frames) \in Nat /\ Len(frames) \in 1 .. Len(frames)
  BY TopIsLast DEF Typed
<1>2. QED
  BY <1>1 DEF Typed, TypeOK

LEMMA NoneAreLeft ==
  ASSUME Typed, Active, frames' = <<>>, Leave(1), UNCHANGED <<stack, cache>>
  PROVE  CallsAreCut(0)
<1>1. Len(frames) \in Nat /\ Len(frames) >= 1 /\ base \in Nat
  BY ActiveNat
<1>2. left' = left \union {[name |-> frames[i].name, when |-> Len(events)] : i \in 1 + 1 .. Len(frames)}
  BY DEF Leave
<1>3. 1 + 1 = 2 /\ \A i \in 2 .. Len(frames) : i > 0
  BY <1>1
<1>4. \A l : l \in left' <=> \/ l \in left
                          \/ \E i \in 2 .. Len(frames) :
                               i > 0 /\ l = [name |-> frames[i].name, when |-> Len(events)]
  BY <1>2, <1>3
<1>5. base' = base + (Len(frames) - 1)
  BY DEF Leave
<1>6. base' + 0 = base + Len(frames) - 1
  BY <1>1, <1>5
<1>7. 0 \in 0 .. Len(frames) /\ Len(frames') = 0 /\ \A i \in 1 .. 0 : FALSE
  BY <1>1
<1>8. QED
  BY <1>4, <1>6, <1>7 DEF CallsAreCut

LEMMA CaughtCuts ==
  ASSUME Typed, Active, UNCHANGED <<stack, cache>>,
         NEW k \in 1 .. Len(frames), NEW n \in 1 .. Len(frames[k].items), Caught(k, n)
  PROVE  CallsAreCut(k)
<1>1. /\ Len(frames) \in Nat /\ Len(frames) >= 1 /\ base \in Nat
      /\ k \in Nat /\ k >= 1 /\ k <= Len(frames)
  BY ActiveNat
<1>2. left' = left \union {[name |-> frames[i].name, when |-> Len(events)] : i \in k + 1 .. Len(frames)}
  BY DEF Caught, Leave
<1>3. \A i : i \in k + 1 .. Len(frames) <=> i \in 2 .. Len(frames) /\ i > k
  BY <1>1
<1>4. \A l : l \in left' <=> \/ l \in left
                          \/ \E i \in 2 .. Len(frames) :
                               i > k /\ l = [name |-> frames[i].name, when |-> Len(events)]
  BY <1>2, <1>3
<1>5. base' = base + (Len(frames) - k)
  BY DEF Caught, Leave
<1>6. base' + (IF k = 0 THEN 0 ELSE k - 1) = base + Len(frames) - 1
  BY <1>1, <1>5
<1>7. /\ Len(frames') = k
      /\ frames'[k] = Rest(frames[k], n)
      /\ \A i \in 1 .. k - 1 : frames'[i] = frames[i]
  BY CallsCut DEF Caught, Typed
<1>8. frames[k] \in Frames /\ FrameOK(frames[k])
  BY ElementOfSeq DEF Typed, Calls
<1>9. /\ Rest(frames[k], n).name = frames[k].name
      /\ Rest(frames[k], n).at = frames[k].at
      /\ Rest(frames[k], n).text = frames[k].text
      /\ Rest(frames[k], n).file = frames[k].file
      /\ Rest(frames[k], n).steady = frames[k].steady
  BY <1>8, RestProps
<1>10. \A i \in 1 .. k : i \in 1 .. k - 1 \/ i = k
  BY <1>1
<1>11. \A i \in 1 .. k : /\ frames'[i].name = frames[i].name
                         /\ frames'[i].at = frames[i].at
                         /\ frames'[i].text = frames[i].text
                         /\ frames'[i].file = frames[i].file
                         /\ frames'[i].steady = frames[i].steady
  BY <1>7, <1>9, <1>10, Zenon
<1>12. k \in 0 .. Len(frames)
  BY <1>1
<1>13. QED
  BY <1>4, <1>6, <1>7, <1>11, <1>12 DEF CallsAreCut

LEMMA FailCuts ==
  ASSUME Typed, Active, NEW why, NEW name, Fail(why, name)
  PROVE  \E k \in 0 .. Len(frames) : CallsAreCut(k)
<1>1. stack' = stack /\ cache' = cache
  BY FailCases
<1>2. CASE frames' = <<>> /\ Leave(1)
  <2>1. CallsAreCut(0)
    BY <1>1, <1>2, NoneAreLeft
  <2>2. 0 \in 0 .. Len(frames)
    BY <2>1 DEF CallsAreCut
  <2>3. QED
    BY <2>1, <2>2
<1>3. ASSUME NEW k \in 1 .. Len(frames), NEW n \in 1 .. Len(frames[k].items), Caught(k, n)
      PROVE  \E l \in 0 .. Len(frames) : CallsAreCut(l)
  <2>1. CallsAreCut(k)
    BY <1>1, <1>3, CaughtCuts
  <2>2. k \in 0 .. Len(frames)
    BY <2>1 DEF CallsAreCut
  <2>3. QED
    BY <2>1, <2>2
<1>4. QED
  BY <1>2, <1>3, FailCases, Zenon

LEMMA ErrsCuts ==
  ASSUME Typed, Active, Errs
  PROVE  \E k \in 0 .. Len(frames) : CallsAreCut(k)
  BY FailCuts DEF Errs

\* The program, or the line, has ended.
LEMMA FinishCuts ==
  ASSUME Typed, Finish
  PROVE  CallsAreCut(0) /\ Len(frames) = 1
<1>1. Active /\ frames' = <<>> /\ Top.name \notin Names /\ UNCHANGED <<stack, cache, past>>
  BY DEF Finish, IsModule
<1>2. Len(frames) = 1
  BY <1>1, TopIsLast DEF Typed
<1>3. base' = base + (Len(frames) - 1) /\ left' = left
  BY <1>1, <1>2 DEF past, Typed, TypeOK
<1>4. 1 + 1 .. Len(frames) = {}
  BY <1>2
<1>5. Leave(1)
  BY <1>3, <1>4 DEF Leave
<1>6. QED
  BY <1>1, <1>2, <1>5, NoneAreLeft

LEMMA EndsCut ==
  ASSUME Typed, Finish \/ ImportCycle \/ ItemFails
  PROVE  \E k \in 0 .. Len(frames) : CallsAreCut(k)
<1>1. CASE Finish
  <2>1. CallsAreCut(0) /\ 0 \in 0 .. Len(frames)
    BY <1>1, FinishCuts DEF CallsAreCut
  <2>2. QED
    BY <2>1
<1>2. CASE ImportCycle
  BY <1>2, FailCuts, AtItemProps, Zenon DEF ImportCycle, AtImport
<1>3. CASE ItemFails
  BY <1>3, FailCuts, AtItemProps, Zenon DEF ItemFails
<1>4. QED
  BY <1>1, <1>2, <1>3

LEMMA TopGoesOn ==
  ASSUME Typed, Active, NEW at, TopGoes(at), UNCHANGED <<stack, cache, past>>
  PROVE  CallsGoOn
<1>1. \A n \in Nat : \A i \in 1 .. n : i \in 1 .. n - 1 \/ i = n
  OBVIOUS
<1>2. Len(frames) \in Nat
  BY TopIsLast DEF Typed
<1>3. \A i \in 1 .. Len(frames) : i \in 1 .. Len(frames) - 1 \/ i = Len(frames)
  BY <1>1, <1>2, Zenon
<1>4. \A i \in 1 .. Len(frames) : frames'[i].name = frames[i].name
  BY <1>3, Zenon DEF TopGoes, Top
<1>5. QED
  BY <1>4 DEF TopGoes, CallsGoOn

\* What a step of the interpreter does to the stack.
LEMMA StepOfCalls ==
  ASSUME Typed, Typed', Step
  PROVE  \/ \E k \in 0 .. Len(frames) : CallsAreCut(k)
         \/ CallsGoOn \/ CallReturns
         \/ \E n \in Names : CallBegins(n)
<1>1. CASE Finish
  <2>1. CallsAreCut(0) /\ 0 \in 0 .. Len(frames)
    BY <1>1, FinishCuts DEF CallsAreCut
  <2>2. QED
    BY <2>1
<1>2. CASE ImportCached
  BY <1>2, ImportCachedEffect, TopGoesOn DEF ImportCached
<1>3. CASE ImportCycle
  BY <1>3, FailCuts, AtItemProps, Zenon DEF ImportCycle, AtImport
<1>4. CASE ItemFails
  BY <1>4, FailCuts, AtItemProps, Zenon DEF ItemFails
<1>5. CASE ImportBegin
  <2> DEFINE item == Head(Top.items)
             f == Frame(item.name, Locate[item.name][HereOf(item)], FirstStep(Kind[item.name]))
  <2>1. AtImport /\ UNCHANGED <<cache, past>>
    BY <1>5 DEF ImportBegin
  <2>2. Active /\ item.name \in Names
    BY <2>1, AtItemProps, AtImportProps DEF AtImport
  <2>3. /\ ~Cached(item.name)
        /\ ~Stacked(item.name)
        /\ stack' = Append(stack, item.name)
        /\ frames' = Append(frames, f)
    BY <1>5 DEF ImportBegin, Cached
  <2>4. f.name = item.name
    BY DEF Frame
  <2> HIDE DEF item, f
  <2>5. frames \in Seq(Frames) /\ Len(frames) \in Nat
    BY DEF Typed, Calls
  <2>6. /\ Len(frames') = Len(frames) + 1
        /\ \A i \in 1 .. Len(frames) : frames'[i] = frames[i]
        /\ frames'[Len(frames) + 1] = f
    BY <2>3, <2>5
  <2>7. CallBegins(item.name)
    BY <2>1, <2>2, <2>3, <2>4, <2>6 DEF CallBegins
  <2>8. QED
    BY <2>2, <2>7
<1>6. CASE LoadStd
  <2>1. Active /\ Top.name \in Names
    BY <1>6, AtProps DEF LoadStd, FrameOK
  <2>2. CASE Top.name \in Builtins /\ Allows(Top.name, Top.name)
    <3>1. /\ stack' = SubSeq(stack, 1, Len(stack) - 1)
          /\ cache' = [cache EXCEPT ![Top.name] = Top.name]
          /\ frames' = ReturnToCaller
          /\ UNCHANGED past
      BY <1>6, <2>2 DEF LoadStd
    <3>2. Top.name # NotCached
      BY <2>1, LoaderAssumption
    <3>3. /\ \A n \in Names \ {Top.name} : cache'[n] = cache[n]
          /\ cache'[Top.name] # NotCached
      BY <2>1, <3>1, <3>2 DEF Typed, TypeOK
    <3>4. QED
      BY <2>1, <3>1, <3>3, ReturnEffect DEF CallReturns
  <2>3. CASE ~(Top.name \in Builtins /\ Allows(Top.name, Top.name))
    BY <1>6, <2>1, <2>3, FailCuts, Zenon DEF LoadStd
  <2>4. QED
    BY <2>2, <2>3
<1>7. CASE Return
  <2>1. Active /\ Top.name \in Names
    BY <1>7 DEF Return, IsModule
  <2>2. CASE Source[Top.text].record
    <3>1. /\ stack' = SubSeq(stack, 1, Len(stack) - 1)
          /\ cache' = [cache EXCEPT ![Top.name] = Top.text]
          /\ frames' = ReturnToCaller
          /\ UNCHANGED past
      BY <1>7, <2>2 DEF Return
    <3>2. Top.text \in Texts
      BY <1>7, <2>1, TopTyped DEF Return, FrameOK
    <3>3. Top.text # NotCached
      BY <3>2, LoaderAssumption
    <3>4. /\ \A n \in Names \ {Top.name} : cache'[n] = cache[n]
          /\ cache'[Top.name] # NotCached
      BY <2>1, <3>1, <3>3 DEF Typed, TypeOK
    <3>5. QED
      BY <2>1, <3>1, <3>4, ReturnEffect DEF CallReturns
  <2>3. CASE ~Source[Top.text].record
    BY <1>7, <2>1, <2>3, FailCuts, Zenon DEF Return
  <2>4. QED
    BY <2>2, <2>3
<1>8. CASE Errs /\ (DigestPackage \/ ReadSource \/ CheckLock \/ TraceModule \/ Parse)
  <2>1. Active
    BY <1>8 DEF DigestPackage, ReadSource, CheckLock, TraceModule, Parse, At
  <2>2. QED
    BY <1>8, <2>1, ErrsCuts
<1>9. CASE ~Errs /\ (DigestPackage \/ ReadSource \/ CheckLock \/ TraceModule \/ Parse)
  <2>1. Active /\ (\E at : TopGoes(at)) /\ UNCHANGED <<stack, cache, past>>
    BY <1>9, DigestPackageEffect, ReadSourceEffect, CheckLockEffect, TraceModuleEffect,
       ParseEffect, Zenon
  <2>2. QED
    BY <2>1, TopGoesOn
<1>10. CASE NoteProgram
  BY <1>10, NoteProgramEffect, TopGoesOn DEF NoteProgram
<1>11. QED
  BY <1>1, <1>2, <1>3, <1>4, <1>5, <1>6, <1>7, <1>8, <1>9, <1>10 DEF Step

\* The active calls find their names on the stack, in their order.
Ordered ==
  \A i, j \in 2 .. Len(frames) : i <= j =>
    \E a, b \in 1 .. Len(stack) :
      a <= b /\ (i < j => a < b) /\ stack[a] = frames[i].name /\ stack[b] = frames[j].name

Differ == \A i, j \in 1 .. Len(stack) : stack[i] = stack[j] => i = j

IsCalled(name) == \E k \in 2 .. Len(frames) : frames[k].name = name

Explained == \A i \in 1 .. Len(stack) : Cached(stack[i]) \/ WasLeft(stack[i]) \/ IsCalled(stack[i])

\* The stack, and no call loads what is in the cache.
OnStack ==
  /\ Len(stack) = base + (IF Active THEN Len(frames) - 1 ELSE 0)
  /\ Ordered
  /\ Differ
  /\ Explained
  /\ \A i \in 2 .. Len(frames) : ~Cached(frames[i].name)

LEMMA StackNames ==
  ASSUME Typed, OnStack
  PROVE  StackOutlivesErrors
<1>1. DOMAIN stack = 1 .. Len(stack)
  BY LenProperties DEF Typed, TypeOK
<1>2. \A i, j \in 2 .. Len(frames) : i <= j =>
        \E a, b \in DOMAIN stack :
          a <= b /\ (i < j => a < b) /\ stack[a] = frames[i].name /\ stack[b] = frames[j].name
  <2>1. TAKE i, j \in 2 .. Len(frames)
  <2>2. HAVE i <= j
  <2>3. PICK a \in 1 .. Len(stack), b \in 1 .. Len(stack) :
          a <= b /\ (i < j => a < b) /\ stack[a] = frames[i].name /\ stack[b] = frames[j].name
    BY <2>2, Zenon DEF OnStack, Ordered
  <2>4. QED
    BY <1>1, <2>3, Zenon
<1>3. QED
  BY <1>1, <1>2 DEF StackOutlivesErrors, OnStack, Differ, Explained, IsCalled

\* Two calls never load the same module.
LEMMA CallsDiffer ==
  ASSUME Typed, OnStack, NEW i \in 2 .. Len(frames), NEW j \in 2 .. Len(frames),
         frames[i].name = frames[j].name
  PROVE  i = j
<1>1. ASSUME NEW m \in 2 .. Len(frames), NEW n \in 2 .. Len(frames), m < n,
             frames[m].name = frames[n].name
      PROVE  FALSE
  <2>1. m <= n
    BY <1>1
  <2>2. PICK a \in 1 .. Len(stack), b \in 1 .. Len(stack) :
          a <= b /\ (m < n => a < b) /\ stack[a] = frames[m].name /\ stack[b] = frames[n].name
    BY <2>1, Zenon DEF OnStack, Ordered
  <2>3. stack[a] = stack[b]
    BY <1>1, <2>2, Zenon
  <2>4. a = b
    BY <2>3 DEF OnStack, Differ
  <2>5. QED
    BY <1>1, <2>2, <2>4
<1>2. Len(frames) \in Nat
  BY DEF Typed, Calls
<1>3. i < j \/ j < i \/ i = j
  BY <1>2
<1>4. QED
  BY <1>1, <1>3

LEMMA StackWhenCut ==
  ASSUME Typed, Typed', OnStack, NEW k, CallsAreCut(k)
  PROVE  OnStack'
<1>1. /\ Len(frames) \in Nat /\ Len(frames) >= 1 /\ base \in Nat
      /\ k \in Nat /\ k <= Len(frames) /\ base' \in Nat
      /\ Len(frames') = k
  <2>1. Active /\ k \in 0 .. Len(frames) /\ Len(frames') = k
    BY DEF CallsAreCut
  <2>2. QED
    BY <2>1, ActiveNat DEF Typed, TypeOK
<1>2. stack' = stack /\ cache' = cache
  BY DEF CallsAreCut
<1>3. \A i \in 2 .. k : i \in 1 .. k /\ i \in 2 .. Len(frames) /\ frames'[i].name = frames[i].name
  BY <1>1 DEF CallsAreCut
<1>4. Len(stack') = base' + (IF Active' THEN Len(frames') - 1 ELSE 0)
  <2>1. Len(stack) = base + (Len(frames) - 1)
    BY DEF OnStack, CallsAreCut
  <2>2. Active' <=> k # 0
    BY <1>1 DEF Active, Typed, TypeOK
  <2>3. base' + (IF k = 0 THEN 0 ELSE k - 1) = base + Len(frames) - 1
    BY DEF CallsAreCut
  <2>4. Len(stack) = base' + (IF k = 0 THEN 0 ELSE k - 1)
    BY <1>1, <2>1, <2>3
  <2>5. QED
    BY <1>1, <1>2, <2>2, <2>4
<1>5. Ordered'
  <2>1. SUFFICES ASSUME NEW i \in 2 .. k, NEW j \in 2 .. k, i <= j
                 PROVE  \E a, b \in 1 .. Len(stack) :
                          /\ a <= b /\ (i < j => a < b)
                          /\ stack[a] = frames'[i].name /\ stack[b] = frames'[j].name
    BY <1>1, <1>2 DEF Ordered
  <2>2. \E a, b \in 1 .. Len(stack) :
          a <= b /\ (i < j => a < b) /\ stack[a] = frames[i].name /\ stack[b] = frames[j].name
    BY <1>3, <2>1, Zenon DEF OnStack, Ordered
  <2>3. QED
    BY <1>3, <2>2, Zenon
<1>6. Differ'
  BY <1>2 DEF OnStack, Differ
<1>7. Explained'
  <2>1. SUFFICES ASSUME NEW i \in 1 .. Len(stack)
                 PROVE  \/ cache[stack[i]] # NotCached
                        \/ \E l \in left' : l.name = stack[i]
                        \/ \E m \in 2 .. Len(frames') : frames'[m].name = stack[i]
    BY <1>2 DEF Explained, Cached, WasLeft, IsCalled
  <2>2. CASE Cached(stack[i])
    BY <2>2 DEF Cached
  <2>3. CASE WasLeft(stack[i])
    <3>1. PICK l \in left : l.name = stack[i]
      BY <2>3 DEF WasLeft
    <3>2. l \in left'
      BY <3>1, Zenon DEF CallsAreCut
    <3>3. QED
      BY <3>1, <3>2
  <2>4. CASE IsCalled(stack[i])
    <3>1. PICK m \in 2 .. Len(frames) : frames[m].name = stack[i]
      BY <2>4 DEF IsCalled
    <3>2. CASE m > k
      <4> DEFINE l == [name |-> frames[m].name, when |-> Len(events)]
      <4>1. l \in left'
        BY <3>2, Zenon DEF CallsAreCut
      <4>2. l.name = stack[i]
        BY <3>1
      <4>3. QED
        BY <4>1, <4>2
    <3>3. CASE ~(m > k)
      <4>1. m \in 2 .. k
        BY <1>1, <3>3
      <4>2. QED
        BY <1>1, <1>3, <3>1, <4>1
    <3>4. QED
      BY <3>2, <3>3
  <2>5. QED
    BY <2>1, <2>2, <2>3, <2>4 DEF OnStack, Explained
<1>8. \A i \in 2 .. Len(frames') : cache'[frames'[i].name] = NotCached
  BY <1>1, <1>2, <1>3, Zenon DEF OnStack, Cached
<1>9. QED
  BY <1>4, <1>5, <1>6, <1>7, <1>8 DEF OnStack, Cached

LEMMA StackWhenCallsGoOn ==
  ASSUME Typed, Typed', OnStack, CallsGoOn
  PROVE  OnStack'
<1>1. frames \in Seq(Frames) /\ frames' \in Seq(Frames) /\ Len(frames) \in Nat
  BY DEF Typed, Calls
<1>2. Active' <=> Active
  BY <1>1 DEF Active, CallsGoOn
<1>3. \A i \in 2 .. Len(frames) : i \in 1 .. Len(frames)
  BY <1>1
<1>4. /\ Len(frames') = Len(frames) /\ stack' = stack /\ cache' = cache
      /\ base' = base /\ left' = left
      /\ \A i \in 2 .. Len(frames) : frames'[i].name = frames[i].name
  BY <1>3, Zenon DEF CallsGoOn, past
<1>5. Ordered'
  <2>1. SUFFICES ASSUME NEW i \in 2 .. Len(frames'), NEW j \in 2 .. Len(frames'), i <= j
                 PROVE  \E a, b \in 1 .. Len(stack') :
                          /\ a <= b /\ (i < j => a < b)
                          /\ stack'[a] = frames'[i].name /\ stack'[b] = frames'[j].name
    BY DEF Ordered
  <2>2. i \in 2 .. Len(frames) /\ j \in 2 .. Len(frames)
    BY <1>4
  <2>3. PICK a \in 1 .. Len(stack), b \in 1 .. Len(stack) :
          a <= b /\ (i < j => a < b) /\ stack[a] = frames[i].name /\ stack[b] = frames[j].name
    BY <2>1, <2>2, Zenon DEF OnStack, Ordered
  <2>4. QED
    BY <1>4, <2>2, <2>3, Zenon
<1>6. \A n : IsCalled(n) => IsCalled(n)'
  BY <1>4, Zenon DEF IsCalled
<1>7. Explained'
  BY <1>4, <1>6, Zenon DEF OnStack, Explained, Cached, WasLeft
<1>8. \A i \in 2 .. Len(frames') : cache'[frames'[i].name] = NotCached
  BY <1>4, Zenon DEF OnStack, Cached
<1>9. QED
  BY <1>2, <1>4, <1>5, <1>7, <1>8 DEF OnStack, Differ, Cached

LEMMA StackWhenCallBegins ==
  ASSUME Typed, Typed', OnStack, NEW name \in Names, CallBegins(name)
  PROVE  OnStack'
<1>1. /\ stack \in Seq(Names) /\ Len(stack) \in Nat /\ DOMAIN stack = 1 .. Len(stack)
      /\ frames \in Seq(Frames) /\ Len(frames) \in Nat /\ Len(frames) >= 1
      /\ base \in Nat
  <2>1. Len(frames) \in Nat /\ Len(frames) >= 1 /\ base \in Nat
    BY ActiveNat DEF CallBegins
  <2>2. stack \in Seq(Names) /\ frames \in Seq(Frames)
    BY DEF Typed, TypeOK
  <2>3. Len(stack) \in Nat /\ DOMAIN stack = 1 .. Len(stack)
    BY <2>2, LenProperties
  <2>4. QED
    BY <2>1, <2>2, <2>3
<1>2. /\ Len(stack') = Len(stack) + 1
      /\ \A i \in 1 .. Len(stack) : stack'[i] = stack[i]
      /\ stack'[Len(stack) + 1] = name
  BY <1>1 DEF CallBegins
<1>3. /\ Len(frames') = Len(frames) + 1
      /\ \A i \in 2 .. Len(frames) : frames'[i].name = frames[i].name
      /\ frames'[Len(frames) + 1].name = name
      /\ cache' = cache /\ base' = base /\ left' = left
      /\ cache[name] = NotCached
  BY <1>1 DEF CallBegins, past, Cached
<1>4. Len(stack') = base' + (IF Active' THEN Len(frames') - 1 ELSE 0)
  <2>1. Active' /\ Active
    BY <1>1, <1>3 DEF Active, CallBegins
  <2>2. QED
    BY <1>1, <1>2, <1>3, <2>1 DEF OnStack
<1>5. Ordered'
  <2>1. SUFFICES ASSUME NEW i \in 2 .. Len(frames) + 1, NEW j \in 2 .. Len(frames) + 1, i <= j
                 PROVE  \E a, b \in 1 .. Len(stack) + 1 :
                          /\ a <= b /\ (i < j => a < b)
                          /\ stack'[a] = frames'[i].name /\ stack'[b] = frames'[j].name
    BY <1>2, <1>3 DEF Ordered
  <2>2. Len(stack) + 1 \in 1 .. Len(stack) + 1
    BY <1>1
  <2>3. CASE i = Len(frames) + 1
    <3>1. j = i
      BY <1>1, <2>1, <2>3
    <3>2. QED
      BY <1>1, <1>2, <1>3, <2>2, <2>3, <3>1
  <2>4. CASE i # Len(frames) + 1 /\ j = Len(frames) + 1
    <3>1. i \in 2 .. Len(frames) /\ i <= i
      BY <1>1, <2>4
    <3>2. PICK a \in 1 .. Len(stack) : stack[a] = frames[i].name
      BY <3>1, Zenon DEF OnStack, Ordered
    <3>3. a \in 1 .. Len(stack) + 1 /\ a < Len(stack) + 1 /\ a <= Len(stack) + 1
      BY <1>1
    <3>4. stack'[a] = frames'[i].name /\ stack'[Len(stack) + 1] = frames'[j].name
      BY <1>2, <1>3, <2>4, <3>1, <3>2
    <3>5. QED
      BY <2>2, <3>3, <3>4, Zenon
  <2>5. CASE i # Len(frames) + 1 /\ j # Len(frames) + 1
    <3>1. i \in 2 .. Len(frames) /\ j \in 2 .. Len(frames)
      BY <1>1, <2>5
    <3>2. PICK a \in 1 .. Len(stack), b \in 1 .. Len(stack) :
            a <= b /\ (i < j => a < b) /\ stack[a] = frames[i].name /\ stack[b] = frames[j].name
      BY <2>1, <3>1, Zenon DEF OnStack, Ordered
    <3>3. a \in 1 .. Len(stack) + 1 /\ b \in 1 .. Len(stack) + 1
      BY <1>1
    <3>4. stack'[a] = frames'[i].name /\ stack'[b] = frames'[j].name
      BY <1>2, <1>3, <3>1, <3>2
    <3>5. QED
      BY <3>2, <3>3, <3>4, Zenon
  <2>6. QED
    BY <2>3, <2>4, <2>5
<1>6. \A i \in 1 .. Len(stack) : stack[i] # name
  BY <1>1 DEF CallBegins, Stacked
<1>7. \A i \in 1 .. Len(stack') : i \in 1 .. Len(stack) \/ i = Len(stack) + 1
  BY <1>1, <1>2
<1>8. Differ'
  BY <1>2, <1>6, <1>7 DEF OnStack, Differ
<1>9. Explained'
  <2>1. \A n : IsCalled(n) \/ n = name => IsCalled(n)'
    <3>1. /\ Len(frames) + 1 \in 2 .. Len(frames')
          /\ \A m \in 2 .. Len(frames) : m \in 2 .. Len(frames')
      BY <1>1, <1>3
    <3>2. QED
      BY <1>3, <3>1 DEF IsCalled
  <2>2. \A i \in 1 .. Len(stack) : Cached(stack[i])' \/ WasLeft(stack[i])' \/ IsCalled(stack[i])'
    <3>1. \A i \in 1 .. Len(stack) : stack'[i] = stack[i]
      BY <1>2
    <3>2. \A i \in 1 .. Len(stack) : cache[stack[i]] # NotCached \/ WasLeft(stack[i]) \/ IsCalled(stack[i])
      BY DEF OnStack, Explained, Cached
    <3>3. SUFFICES ASSUME NEW i \in 1 .. Len(stack)
                   PROVE  Cached(stack[i])' \/ WasLeft(stack[i])' \/ IsCalled(stack[i])'
      OBVIOUS
    <3>4. PICK n : n = stack[i]
      OBVIOUS
    <3>5. (stack[i])' = n
      BY <3>1, <3>4
    <3>6. cache'[n] # NotCached \/ (\E l \in left' : l.name = n) \/ IsCalled(n)'
      BY <1>3, <2>1, <3>2, <3>4, Zenon DEF WasLeft
    <3>7. QED
      BY <3>5, <3>6 DEF Cached, WasLeft, IsCalled
  <2>3. IsCalled(name)'
    BY <2>1
  <2>4. QED
    BY <1>2, <1>7, <2>2, <2>3 DEF Explained, IsCalled
<1>10. \A i \in 2 .. Len(frames') : cache'[frames'[i].name] = NotCached
  <2>1. \A i \in 2 .. Len(frames') : i \in 2 .. Len(frames) \/ i = Len(frames) + 1
    BY <1>1, <1>3
  <2>2. QED
    BY <1>3, <2>1 DEF OnStack, Cached
<1>11. QED
  BY <1>4, <1>5, <1>8, <1>9, <1>10 DEF OnStack, Cached

LEMMA StackWhenCallReturns ==
  ASSUME Typed, Typed', OnStack, CallReturns
  PROVE  OnStack'
<1>1. /\ stack \in Seq(Names) /\ Len(stack) \in Nat
      /\ frames \in Seq(Frames) /\ Len(frames) \in Nat
      /\ base \in Nat
  BY DEF Typed, TypeOK
<1>2. /\ Len(frames) > 1
      /\ Len(frames') = Len(frames) - 1
      /\ \A i \in 1 .. Len(frames) - 1 : frames'[i].name = frames[i].name
      /\ base' = base /\ left' = left
  BY DEF CallReturns, TopLeaves, past
<1>3. Len(stack) = base + (Len(frames) - 1) /\ Len(stack) >= 1
  BY <1>1, <1>2 DEF OnStack, CallReturns
<1>4. /\ Len(stack') = Len(stack) - 1
      /\ \A i \in 1 .. Len(stack) - 1 : stack'[i] = stack[i]
  <2>1. stack # <<>>
    BY <1>1, <1>3
  <2>2. QED
    BY <1>1, <2>1, PopTyped DEF CallReturns
<1>5. Len(stack') = base' + (IF Active' THEN Len(frames') - 1 ELSE 0)
  <2>1. Active'
    BY <1>1, <1>2 DEF Active
  <2>2. QED
    BY <1>1, <1>2, <1>3, <1>4, <2>1
<1>6. /\ \A i \in 2 .. Len(frames) - 1 : i \in 1 .. Len(frames) - 1 /\ i \in 2 .. Len(frames)
      /\ Len(frames) \in 2 .. Len(frames)
  BY <1>1, <1>2
<1>7. Ordered'
  <2> SUFFICES ASSUME NEW i \in 2 .. Len(frames'), NEW j \in 2 .. Len(frames'), i <= j
               PROVE  \E a, b \in 1 .. Len(stack') :
                        /\ a <= b /\ (i < j => a < b)
                        /\ stack'[a] = frames'[i].name /\ stack'[b] = frames'[j].name
    BY DEF Ordered
  <2>1. /\ i \in 2 .. Len(frames) - 1 /\ j \in 2 .. Len(frames) - 1
        /\ i <= j
        /\ Len(stack') = Len(stack) - 1
    BY <1>2, <1>4
  <2>2. PICK a \in 1 .. Len(stack), b \in 1 .. Len(stack) :
          a <= b /\ (i < j => a < b) /\ stack[a] = frames[i].name /\ stack[b] = frames[j].name
    BY <1>6, <2>1, Zenon DEF OnStack, Ordered
  <2>3. j < Len(frames) /\ j <= Len(frames)
    BY <1>1, <2>1
  <2>4. PICK c \in 1 .. Len(stack), d \in 1 .. Len(stack) :
          c <= d /\ (j < Len(frames) => c < d) /\ stack[c] = frames[j].name
            /\ stack[d] = frames[Len(frames)].name
    BY <1>6, <2>1, <2>3, Zenon DEF OnStack, Ordered
  <2>5. b = c
    <3>1. stack[b] = stack[c]
      BY <2>2, <2>4, Zenon
    <3>2. QED
      BY <3>1 DEF OnStack, Differ
  <2>6. a \in 1 .. Len(stack) - 1 /\ b \in 1 .. Len(stack) - 1
    BY <1>1, <2>2, <2>3, <2>4, <2>5
  <2>7. stack'[a] = frames'[i].name /\ stack'[b] = frames'[j].name
    BY <1>2, <1>4, <1>6, <2>1, <2>2, <2>6
  <2>8. QED
    BY <2>1, <2>2, <2>6, <2>7, Zenon
<1>8. \A i \in 1 .. Len(stack') : i \in 1 .. Len(stack) /\ i \in 1 .. Len(stack) - 1
  BY <1>1, <1>4
<1>9. Differ'
  BY <1>4, <1>8 DEF OnStack, Differ
<1>10. \A n \in Names : cache[n] # NotCached => cache'[n] # NotCached
  BY DEF CallReturns
<1>11. Explained'
  <2>1. SUFFICES ASSUME NEW i \in 1 .. Len(stack) - 1
                 PROVE  \/ cache'[stack[i]] # NotCached
                        \/ \E l \in left' : l.name = stack[i]
                        \/ \E k \in 2 .. Len(frames') : frames'[k].name = stack[i]
    BY <1>4, <1>8 DEF Explained, Cached, WasLeft, IsCalled
  <2>2. i \in 1 .. Len(stack) /\ stack[i] \in Names
    BY <1>1
  <2>3. CASE Cached(stack[i])
    BY <1>10, <2>2, <2>3 DEF Cached
  <2>4. CASE WasLeft(stack[i])
    BY <1>2, <2>4 DEF WasLeft
  <2>5. CASE IsCalled(stack[i])
    <3>1. PICK k \in 2 .. Len(frames) : frames[k].name = stack[i]
      BY <2>5 DEF IsCalled
    <3>2. CASE k = Len(frames)
      <4>1. stack[i] = Top.name
        BY <3>1, <3>2 DEF Top
      <4>2. QED
        BY <4>1 DEF CallReturns
    <3>3. CASE k # Len(frames)
      <4>1. k \in 2 .. Len(frames') /\ k \in 1 .. Len(frames) - 1
        BY <1>1, <1>2, <3>3
      <4>2. QED
        BY <1>2, <3>1, <4>1
    <3>4. QED
      BY <3>2, <3>3
  <2>6. QED
    BY <2>2, <2>3, <2>4, <2>5 DEF OnStack, Explained
<1>12. \A i \in 2 .. Len(frames') : cache'[frames'[i].name] = NotCached
  <2>1. SUFFICES ASSUME NEW i \in 2 .. Len(frames) - 1
                 PROVE  cache'[frames'[i].name] = NotCached
    BY <1>2
  <2>2. i \in 2 .. Len(frames) /\ i \in 1 .. Len(frames) - 1 /\ i # Len(frames) /\ i # 1
    BY <1>1, <1>6
  <2>3. frames[i].name # frames[Len(frames)].name
    BY <1>6, <2>2, CallsDiffer
  <2>4. frames[i].name \in Names
    <3>1. i \in 1 .. Len(frames)
      BY <1>1, <2>2
    <3>2. QED
      BY <2>2, <3>1, Zenon DEF Typed, Calls
  <2>5. cache'[frames[i].name] = cache[frames[i].name]
    BY <2>3, <2>4 DEF CallReturns, Top
  <2>6. QED
    BY <1>2, <2>2, <2>5 DEF OnStack, Cached
<1>13. QED
  BY <1>5, <1>7, <1>9, <1>11, <1>12 DEF OnStack, Cached

LEMMA StackWhenIdle ==
  ASSUME Typed, OnStack, \/ Reset
                         \/ \E items \in Lines : Line(items)
  PROVE  OnStack'
<1>1. CASE Reset
  <2>1. frames' = <<>> /\ stack' = <<>> /\ base' = 0
    BY <1>1 DEF Reset, Active
  <2>2. QED
    BY <2>1 DEF OnStack, Ordered, Differ, Explained, Active
<1>2. ASSUME NEW items \in Lines, Line(items)
      PROVE  OnStack'
  <2>1. /\ Len(frames') = 1 /\ frames' # <<>> /\ frames = <<>>
        /\ stack' = stack /\ cache' = cache /\ base' = base /\ left' = left
    BY <1>2 DEF Line, past, Active
  <2>2. Len(stack) \in Nat /\ base \in Nat
    BY DEF Typed, TypeOK
  <2>3. Len(stack') = base' + (IF Active' THEN Len(frames') - 1 ELSE 0)
    BY <2>1, <2>2 DEF OnStack, Active
  <2>4. Ordered' /\ \A i \in 2 .. Len(frames') : cache'[frames'[i].name] = NotCached
    BY <2>1 DEF Ordered
  <2>5. \A n : ~IsCalled(n)
    BY <2>1 DEF IsCalled
  <2>6. Explained'
    BY <2>1, <2>5 DEF OnStack, Explained, Cached, WasLeft
  <2>7. QED
    BY <2>1, <2>3, <2>4, <2>6 DEF OnStack, Differ, Cached
<1>3. QED
  BY <1>1, <1>2

LEMMA StackWhenStuttering ==
  ASSUME OnStack, UNCHANGED <<frames, stack, cache, past>>
  PROVE  OnStack'
<1>1. frames' = frames /\ stack' = stack /\ cache' = cache /\ base' = base /\ left' = left
  BY DEF past
<1>2. QED
  BY <1>1 DEF OnStack, Ordered, Differ, Explained, IsCalled, WasLeft, Active, Cached

LEMMA EditGoesOn ==
  ASSUME Typed, NEW change \in Edits, Edit(change[1], change[2])
  PROVE  CallsGoOn
<1>1. frames' = Edited(frames, change[1])
  BY DEF Edit, Edited
<1>2. UNCHANGED <<stack, cache, past>>
  BY DEF Edit
<1>3. /\ Len(Edited(frames, change[1])) = Len(frames)
      /\ \A i \in 1 .. Len(frames) : Edited(frames, change[1])[i].name = frames[i].name
  <2>1. Calls(frames)
    BY DEF Typed
  <2>2. QED
    BY <2>1, CallsEdited
<1>4. QED
  BY <1>1, <1>2, <1>3, Zenon DEF CallsGoOn

LEMMA InitOnStack == Init => OnStack
<1>1. SUFFICES ASSUME Init
               PROVE  OnStack
  OBVIOUS
<1>2. stack = <<>> /\ base = 0
  BY <1>1 DEF Init
<1>3. frames = <<>> \/ \E f : frames = <<f>>
  BY <1>1, Zenon DEF Init
<1>4. Ordered /\ Differ /\ Explained /\ \A i \in 2 .. Len(frames) : ~Cached(frames[i].name)
  BY <1>2, <1>3 DEF Ordered, Differ, Explained
<1>5. Len(stack) = base + (IF Active THEN Len(frames) - 1 ELSE 0)
  BY <1>2, <1>3 DEF Active
<1>6. QED
  BY <1>4, <1>5 DEF OnStack

LEMMA NextOnStack ==
  ASSUME Typed, OnStack, [Next]_vars
  PROVE  OnStack'
<1>1. Typed'
  BY StepTyped
<1>2. CASE Step
  BY <1>1, <1>2, StepOfCalls, StackWhenCut, StackWhenCallsGoOn, StackWhenCallBegins,
     StackWhenCallReturns, Zenon
<1>3. CASE UNCHANGED vars
  <2>1. UNCHANGED <<frames, stack, cache, past>>
    BY <1>3 DEF vars
  <2>2. QED
    BY <2>1, StackWhenStuttering
<1>4. CASE Reset \/ \E items \in Lines : Line(items)
  BY <1>4, StackWhenIdle
<1>5. ASSUME NEW change \in Edits, Edit(change[1], change[2])
      PROVE  OnStack'
  BY <1>1, <1>5, EditGoesOn, StackWhenCallsGoOn
<1>6. QED
  BY <1>2, <1>3, <1>4, <1>5 DEF Next

\* Every active call of load_module finds its name on the stack whatever
\* errors were caught before, in the order of the calls and once; what else
\* is there are names whose load an error has left, one entry for each, or
\* names that are answered from the cache before the stack is looked at.
THEOREM LoaderStack == Spec => []StackOutlivesErrors
<1>1. Init => Typed /\ OnStack
  BY InitTyped, InitOnStack
<1>2. Typed /\ OnStack /\ [Next]_vars => Typed' /\ OnStack'
  BY NextOnStack, StepTyped, Zenon
<1>3. Typed /\ OnStack => StackOutlivesErrors
  BY StackNames
<1>4. QED
  BY <1>1, <1>2, <1>3, PTL DEF Spec

-----------------------------------------------------------------------------
(* The lock file *)

\* A call that has compared its digest has an entry, or needs none.
Compared ==
  \A i \in 1 .. Len(frames) :
    frames[i].at = "trace" /\ enforce => Expected(frames[i].name) # NoEntry

EventKeepsLock(e) ==
  /\ Kind[e.name] \in {"std", "pkg"} => Expected(e.name) \in {NoEntry, e.digest}
  /\ enforce /\ Kind[e.name] # "pkg" => Expected(e.name) # NoEntry

LockKept == \A i \in 1 .. Len(events) : EventKeepsLock(events[i])

LEMMA LockKeptIs == ASSUME Typed PROVE LockKept <=> LockIsKept
<1>1. DOMAIN events = 1 .. Len(events)
  BY LenProperties DEF Typed, TypeOK
<1>2. QED
  BY <1>1 DEF LockKept, LockIsKept, EventKeepsLock

LEMMA ComparedWhenTopGoes ==
  ASSUME Typed, Compared, Active, NEW at, TopGoes(at), UNCHANGED fixed,
         at = "trace" /\ enforce => Expected(Top.name) # NoEntry
  PROVE  Compared'
<1>1. Len(frames) \in Nat
  BY DEF Typed, Calls
<1>2. \A i \in 1 .. Len(frames) : i \in 1 .. Len(frames) - 1 \/ i = Len(frames)
  BY <1>1
<1>3. ASSUME NEW i \in 1 .. Len(frames), frames'[i].at = "trace", enforce
      PROVE  Expected(frames'[i].name) # NoEntry
  <2>1. CASE i = Len(frames)
    BY <1>3, <2>1 DEF TopGoes
  <2>2. CASE i \in 1 .. Len(frames) - 1
    BY <1>3, <2>2 DEF TopGoes, Compared
  <2>3. QED
    BY <1>2, <1>3, <2>1, <2>2
<1>4. QED
  BY <1>3 DEF Compared, TopGoes, fixed, Expected

LEMMA ComparedWhenTopLeaves ==
  ASSUME Typed, TopLeaves
  PROVE  Compared'
<1>1. \A i \in 1 .. Len(frames) - 1 : frames'[i].at # "trace"
  BY DEF TopLeaves
<1>2. QED
  BY <1>1 DEF Compared, TopLeaves

LEMMA ComparedWhenCut ==
  ASSUME Typed, Compared, UNCHANGED fixed, \E k \in 0 .. Len(frames) : CallsAreCut(k)
  PROVE  Compared'
<1>1. PICK k \in 0 .. Len(frames) : CallsAreCut(k)
  OBVIOUS
<1>2. Len(frames) \in Nat
  BY DEF Typed, Calls
<1>3. /\ Len(frames') = k
      /\ \A i \in 1 .. k : /\ i \in 1 .. Len(frames)
                           /\ frames'[i].name = frames[i].name /\ frames'[i].at = frames[i].at
  BY <1>1, <1>2 DEF CallsAreCut
<1>4. ASSUME NEW i \in 1 .. k, frames'[i].at = "trace", enforce
      PROVE  Expected(frames'[i].name) # NoEntry
  BY <1>3, <1>4 DEF Compared
<1>5. QED
  BY <1>3, <1>4 DEF Compared, Expected, fixed

LEMMA LockWhenResolved ==
  ASSUME Typed, LockKept, NEW name, NEW digest, UNCHANGED fixed,
         events' = Append(events, Resolved(name, digest)),
         Kind[name] \in {"std", "pkg"} => Expected(name) \in {NoEntry, digest},
         enforce /\ Kind[name] # "pkg" => Expected(name) # NoEntry
  PROVE  LockKept'
<1>1. events \in Seq([name : Names, digest : Digests]) /\ Len(events) \in Nat
  BY DEF Typed, TypeOK
<1>2. /\ Len(events') = Len(events) + 1
      /\ \A i \in 1 .. Len(events) : events'[i] = events[i]
      /\ events'[Len(events) + 1] = Resolved(name, digest)
  BY <1>1
<1>3. EventKeepsLock(Resolved(name, digest))
  BY DEF EventKeepsLock, Resolved
<1>4. \A i \in 1 .. Len(events') : i \in 1 .. Len(events) \/ i = Len(events) + 1
  BY <1>1, <1>2
<1>5. \A i \in 1 .. Len(events') : EventKeepsLock(events'[i])
  BY <1>2, <1>3, <1>4 DEF LockKept
<1>6. QED
  BY <1>5 DEF LockKept, EventKeepsLock, Expected, fixed

LEMMA LockWhenSame ==
  ASSUME LockKept, UNCHANGED <<fixed, events>>
  PROVE  LockKept'
  BY DEF LockKept, EventKeepsLock, Expected, fixed

\* The digest that is compared is that of a text.
LEMMA CheckLockDigest ==
  ASSUME Typed, CheckLock, ~Errs
  PROVE  Contents(Top.file) # NoEntry
<1>1. Top.file \in Files \union {Nowhere}
  BY AtProps DEF CheckLock
<1>2. Contents(Top.file) # Absent
  BY DEF CheckLock, Errs, graph
<1>3. Contents(Top.file) \in Texts
  BY <1>1, <1>2, ContentsTyped DEF Typed
<1>4. QED
  BY <1>3, LoaderAssumption

LEMMA LockOfStep ==
  ASSUME Typed, Typed', Compared, LockKept, Step
  PROVE  Compared' /\ LockKept'
<1>1. CASE Finish \/ ImportCycle \/ ItemFails
  <2>1. UNCHANGED fixed /\ UNCHANGED events
    BY <1>1 DEF Finish, ImportCycle, ItemFails
  <2>2. \E k \in 0 .. Len(frames) : CallsAreCut(k)
    BY <1>1, EndsCut
  <2>3. QED
    BY <2>1, <2>2, ComparedWhenCut, LockWhenSame
<1>2. CASE ImportCached
  BY <1>2, ImportCachedEffect, ComparedWhenTopGoes, LockWhenSame DEF ImportCached
<1>3. CASE ImportBegin
  <2> DEFINE item == Head(Top.items)
             f == Frame(item.name, Locate[item.name][HereOf(item)], FirstStep(Kind[item.name]))
  <2>1. frames' = Append(frames, f) /\ UNCHANGED <<fixed, events>>
    BY <1>3 DEF ImportBegin
  <2>2. f.at # "trace"
    BY DEF Frame, FirstStep
  <2> HIDE DEF f
  <2>3. frames \in Seq(Frames) /\ Len(frames) \in Nat
    BY DEF Typed, Calls
  <2>4. /\ Len(frames') = Len(frames) + 1
        /\ \A i \in 1 .. Len(frames) : frames'[i] = frames[i]
        /\ frames'[Len(frames) + 1] = f
    BY <2>1, <2>3
  <2>5. \A i \in 1 .. Len(frames') : i \in 1 .. Len(frames) \/ i = Len(frames) + 1
    BY <2>3, <2>4
  <2>6. Compared'
    BY <2>1, <2>2, <2>4, <2>5 DEF Compared, Expected, fixed
  <2>7. QED
    BY <2>1, <2>6, LockWhenSame
<1>4. CASE LoadStd
  <2>1. Active /\ Top.name \in Names /\ Kind[Top.name] = "std" /\ UNCHANGED fixed
    BY <1>4, AtProps DEF LoadStd, FrameOK
  <2>2. CASE Top.name \in Builtins /\ Allows(Top.name, Top.name)
    <3>1. /\ events' = Append(events, Resolved(Top.name, Top.name))
          /\ frames' = ReturnToCaller
      BY <1>4, <2>2 DEF LoadStd, Resolve
    <3>2. TopLeaves
      BY <2>1, <3>1, ReturnEffect
    <3>3. /\ Expected(Top.name) \in {NoEntry, Top.name}
          /\ enforce => Expected(Top.name) # NoEntry
      BY <2>1, <2>2, LoaderAssumption DEF Allows
    <3>4. QED
      BY <2>1, <3>1, <3>2, <3>3, ComparedWhenTopLeaves, LockWhenResolved
  <2>3. CASE ~(Top.name \in Builtins /\ Allows(Top.name, Top.name))
    <3>1. Fail("std", Top.name) /\ UNCHANGED events
      BY <1>4, <2>3 DEF LoadStd
    <3>2. QED
      BY <2>1, <3>1, FailCuts, ComparedWhenCut, LockWhenSame
  <2>4. QED
    BY <2>2, <2>3
<1>5. CASE Return
  <2>1. Active /\ Top.name \in Names /\ UNCHANGED <<fixed, events>>
    BY <1>5 DEF Return, IsModule
  <2>2. Compared'
    <3>1. CASE frames' = ReturnToCaller
      BY <2>1, <3>1, ReturnEffect, ComparedWhenTopLeaves
    <3>2. QED
      BY <1>5, <2>1, <3>1, FailCuts, ComparedWhenCut DEF Return
  <2>3. QED
    BY <2>1, <2>2, LockWhenSame
<1>6. CASE Errs /\ (DigestPackage \/ ReadSource \/ CheckLock \/ TraceModule \/ Parse)
  <2>1. Active
    BY <1>6 DEF DigestPackage, ReadSource, CheckLock, TraceModule, Parse, At
  <2>2. UNCHANGED <<fixed, events>>
    BY <1>6 DEF Errs
  <2>3. QED
    BY <1>6, <2>1, <2>2, ErrsCuts, ComparedWhenCut, LockWhenSame
<1>7. CASE ~Errs /\ DigestPackage
  <2>1. Kind[Top.name] = "pkg" /\ UNCHANGED fixed
    BY <1>7, AtProps DEF DigestPackage, FrameOK
  <2>2. QED
    BY <1>7, <2>1, DigestPackageEffect, ComparedWhenTopGoes, LockWhenResolved
<1>8. CASE ~Errs /\ ReadSource
  <2>1. AfterSource(Top) # "trace"
    BY DEF AfterSource
  <2>2. QED
    BY <1>8, <2>1, ReadSourceEffect, ComparedWhenTopGoes, LockWhenSame DEF ReadSource
<1>9. CASE ~Errs /\ CheckLock
  <2>1. enforce => Expected(Top.name) # NoEntry
    <3>1. Contents(Top.file) # NoEntry
      BY <1>9, CheckLockDigest
    <3>2. QED
      BY <1>9, <3>1, CheckLockEffect DEF Allows
  <2>2. QED
    BY <1>9, <2>1, CheckLockEffect, ComparedWhenTopGoes, LockWhenSame DEF CheckLock
<1>10. CASE ~Errs /\ TraceModule
  <2>1. Kind[Top.name] \notin {"std", "pkg"} /\ UNCHANGED fixed
    BY <1>10, AtProps DEF TraceModule, FrameOK
  <2>2. enforce => Expected(Top.name) # NoEntry
    BY <1>10, TraceModuleEffect, TopIsLast DEF Compared, Typed, Top
  <2>3. QED
    BY <1>10, <2>1, <2>2, TraceModuleEffect, ComparedWhenTopGoes, LockWhenResolved
<1>11. CASE ~Errs /\ Parse
  BY <1>11, ParseEffect, ComparedWhenTopGoes, LockWhenSame DEF Parse
<1>12. CASE NoteProgram
  BY <1>12, NoteProgramEffect, ComparedWhenTopGoes, LockWhenSame DEF NoteProgram
<1>13. QED
  BY <1>1, <1>2, <1>3, <1>4, <1>5, <1>6, <1>7, <1>8, <1>9, <1>10, <1>11, <1>12, Zenon DEF Step

LEMMA EditedCalls ==
  ASSUME Typed, NEW change \in Edits, Edit(change[1], change[2])
  PROVE  /\ Len(frames') = Len(frames)
         /\ \A i \in 1 .. Len(frames) :
              /\ frames'[i].name = frames[i].name
              /\ frames'[i].at = frames[i].at
              /\ frames'[i].file = frames[i].file
              /\ frames'[i].text = frames[i].text
              /\ frames'[i].steady = (frames[i].steady /\ frames[i].file # change[1])
<1>1. frames' = Edited(frames, change[1])
  BY DEF Edit, Edited
<1>2. Calls(frames)
  BY DEF Typed
<1>3. QED
  BY <1>1, <1>2, CallsEdited

\* The lock file is kept whatever happens to files while they are loaded:
\* what the trace says of a standard module or of a package is what was
\* compared, and with --enforce-lockfile nothing but packages is resolved
\* without an entry.
THEOREM LoaderKeepsLock == Spec => []LockIsKept
<1> DEFINE Inv == Typed /\ Compared /\ LockKept
<1>1. Init => Inv
  <2>1. SUFFICES ASSUME Init
                 PROVE  Compared /\ LockKept
    BY InitTyped
  <2>2. LockKept
    BY <2>1 DEF Init, LockKept
  <2>3. \A i \in 1 .. Len(frames) : frames[i].at # "trace"
    <3>1. \A n : Frame(n, Main, "source").at = "source"
      BY DEF Frame
    <3>2. frames = <<>> \/ \E f : frames = <<f>> /\ f.at = "source"
      BY <2>1, <3>1, Zenon DEF Init
    <3>3. QED
      BY <3>2
  <2>4. QED
    BY <2>2, <2>3 DEF Compared
<1>2. Inv /\ [Next]_vars => Inv'
  <2>1. SUFFICES ASSUME Typed, Compared, LockKept, [Next]_vars
                 PROVE  Typed' /\ Compared' /\ LockKept'
    OBVIOUS
  <2>2. Typed'
    BY <2>1, StepTyped
  <2>3. CASE Step
    BY <2>1, <2>2, <2>3, LockOfStep
  <2>4. CASE UNCHANGED vars
    <3>1. UNCHANGED <<frames, fixed, events>>
      BY <2>4 DEF vars
    <3>2. QED
      BY <2>1, <2>2, <3>1, LockWhenSame DEF Compared, fixed, past, told, Expected
  <2>5. CASE Reset
    BY <2>2, <2>5 DEF Reset, Active, Compared, LockKept
  <2>6. ASSUME NEW items \in Lines, Line(items)
        PROVE  Compared' /\ LockKept'
    <3> DEFINE f == [Frame(Prompt, Nowhere, "run") EXCEPT !.items = items]
    <3>1. UNCHANGED <<fixed, events>> /\ frames' = <<f>>
      BY <2>6 DEF Line
    <3>2. f.at = "run"
      BY DEF Frame
    <3> HIDE DEF f
    <3>3. QED
      BY <2>1, <3>1, <3>2, LockWhenSame DEF Compared
  <2>7. ASSUME NEW change \in Edits, Edit(change[1], change[2])
        PROVE  Compared' /\ LockKept'
    <3>1. UNCHANGED <<fixed, events>>
      BY <2>7 DEF Edit
    <3>2. Compared'
      BY <2>1, <2>7, <3>1, EditedCalls DEF Compared, fixed, past, told, Expected
    <3>3. QED
      BY <2>1, <3>1, <3>2, LockWhenSame
  <2>8. QED
    BY <2>1, <2>2, <2>3, <2>4, <2>5, <2>6, <2>7 DEF Next
<1>3. Inv => LockIsKept
  BY LockKeptIs
<1>4. QED
  BY <1>1, <1>2, <1>3, PTL DEF Spec

-----------------------------------------------------------------------------
(* The modules that are known: loaded, being loaded, or left by an error *)

Known(name) == Cached(name) \/ IsCalled(name) \/ WasLeft(name)

\* Whether a call above the k-th loads name.
IsAbove(k, name) == \E i \in 2 .. Len(frames) : i > k /\ frames[i].name = name

SameKnown == \A n \in Names : Known(n)' <=> Known(n)

\* All that is being loaded is on the stack.
LEMMA CalledIsStacked ==
  ASSUME Typed, OnStack, NEW name, IsCalled(name)
  PROVE  Stacked(name)
<1>1. PICK k \in 2 .. Len(frames) : frames[k].name = name
  BY DEF IsCalled
<1>2. k <= k
  BY <1>1
<1>3. PICK a \in 1 .. Len(stack), b \in 1 .. Len(stack) :
        a <= b /\ (k < k => a < b) /\ stack[a] = frames[k].name /\ stack[b] = frames[k].name
  BY <1>1, <1>2, Zenon DEF OnStack, Ordered
<1>4. a \in DOMAIN stack
  BY <1>3 DEF Typed, TypeOK
<1>5. QED
  BY <1>1, <1>3, <1>4 DEF Stacked

LEMMA KnownIs ==
  ASSUME Typed, OnStack
  PROVE  \A n : Known(n) <=> Cached(n) \/ Stacked(n) \/ WasLeft(n)
<1>1. DOMAIN stack = 1 .. Len(stack)
  BY LenProperties DEF Typed, TypeOK
<1>2. \A n : Stacked(n) => Known(n)
  <2>1. SUFFICES ASSUME NEW n, Stacked(n)
                 PROVE  Known(n)
    OBVIOUS
  <2>2. PICK i \in 1 .. Len(stack) : stack[i] = n
    BY <1>1, <2>1 DEF Stacked
  <2>3. QED
    BY <2>2 DEF OnStack, Explained, Known
<1>3. \A n : IsCalled(n) => Stacked(n)
  BY CalledIsStacked
<1>4. QED
  BY <1>2, <1>3 DEF Known

LEMMA TopIsCalled ==
  ASSUME Typed, OnStack, Active, Top.name \in Names
  PROVE  /\ IsCalled(Top.name)
         /\ Stacked(Top.name)
         /\ \A i \in 1 .. Len(frames) - 1 : frames[i].name # Top.name
<1>1. Len(frames) \in Nat /\ Len(frames) # 1 /\ Len(frames) \in 1 .. Len(frames)
  BY TopIsLast DEF Typed
<1>2. \A k \in Nat : k # 1 /\ k \in 1 .. k => k \in 2 .. k /\ 1 \in 1 .. k
  OBVIOUS
<1>3. Len(frames) \in 2 .. Len(frames) /\ 1 \in 1 .. Len(frames)
  BY <1>1, <1>2, Zenon
<1>4. IsCalled(Top.name)
  BY <1>3 DEF Top, IsCalled
<1>5. \A i \in 1 .. Len(frames) - 1 : i = 1 \/ (i \in 2 .. Len(frames) /\ i # Len(frames))
  BY <1>1
<1>6. ASSUME NEW i \in 1 .. Len(frames) - 1
      PROVE  frames[i].name # Top.name
  <2>1. CASE i = 1
    <3>1. frames[1].name \notin Names
      BY <1>3, Zenon DEF Typed, Calls
    <3>2. QED
      BY <2>1, <3>1
  <2>2. CASE i \in 2 .. Len(frames) /\ i # Len(frames)
    BY <1>3, <2>2, CallsDiffer, Zenon DEF Top
  <2>3. QED
    BY <1>5, <1>6, <2>1, <2>2, Zenon
<1>7. QED
  BY <1>4, <1>6, CalledIsStacked

LEMMA KnownWhenCut ==
  ASSUME Typed, NEW k, CallsAreCut(k)
  PROVE  /\ SameKnown
         /\ \A n : WasLeft(n)' <=> WasLeft(n) \/ IsAbove(k, n)
         /\ \A n : IsCalled(n) <=> IsCalled(n)' \/ IsAbove(k, n)
<1>1. /\ Len(frames) \in Nat /\ k \in Nat /\ k <= Len(frames) /\ Len(frames') = k
  BY DEF CallsAreCut, Typed, Calls
<1>2. cache' = cache
  BY DEF CallsAreCut
<1>3. ASSUME NEW n
      PROVE  WasLeft(n)' <=> WasLeft(n) \/ IsAbove(k, n)
  <2>1. ASSUME WasLeft(n)'
        PROVE  WasLeft(n) \/ IsAbove(k, n)
    <3>1. PICK l \in left' : l.name = n
      BY <2>1 DEF WasLeft
    <3>2. \/ l \in left
          \/ \E i \in 2 .. Len(frames) :
               i > k /\ l = [name |-> frames[i].name, when |-> Len(events)]
      BY <3>1, Zenon DEF CallsAreCut
    <3>3. ASSUME NEW i \in 2 .. Len(frames), i > k,
                 l = [name |-> frames[i].name, when |-> Len(events)]
          PROVE  IsAbove(k, n)
      <4>1. frames[i].name = n
        BY <3>1, <3>3
      <4>2. QED
        BY <3>3, <4>1 DEF IsAbove
    <3>4. QED
      BY <3>1, <3>2, <3>3, Zenon DEF WasLeft
  <2>2. ASSUME WasLeft(n)
        PROVE  WasLeft(n)'
    <3>1. PICK l \in left : l.name = n
      BY <2>2 DEF WasLeft
    <3>2. l \in left'
      BY <3>1, Zenon DEF CallsAreCut
    <3>3. QED
      BY <3>1, <3>2 DEF WasLeft
  <2>3. ASSUME IsAbove(k, n)
        PROVE  WasLeft(n)'
    <3>1. PICK i \in 2 .. Len(frames) : i > k /\ frames[i].name = n
      BY <2>3 DEF IsAbove
    <3> DEFINE l == [name |-> frames[i].name, when |-> Len(events)]
    <3>2. l \in left'
      BY <3>1, Zenon DEF CallsAreCut
    <3>3. l.name = n
      BY <3>1
    <3>4. QED
      BY <3>2, <3>3 DEF WasLeft
  <2>4. QED
    BY <2>1, <2>2, <2>3
<1>4. \A n : IsCalled(n) <=> IsCalled(n)' \/ IsAbove(k, n)
  <2>1. \A i \in 2 .. Len(frames) : i \in 2 .. k \/ i > k
    BY <1>1
  <2>2. \A i \in 2 .. k : /\ i \in 2 .. Len(frames)
                          /\ frames'[i].name = frames[i].name
    BY <1>1 DEF CallsAreCut
  <2>3. QED
    BY <1>1, <2>1, <2>2 DEF IsCalled, IsAbove
<1>5. \A n : Cached(n)' <=> Cached(n)
  BY <1>2 DEF Cached
<1>6. SameKnown
  BY <1>3, <1>4, <1>5, Zenon DEF SameKnown, Known
<1>7. QED
  BY <1>3, <1>4, <1>6

LEMMA KnownWhenCallsGoOn ==
  ASSUME Typed, CallsGoOn
  PROVE  /\ SameKnown
         /\ \A n : WasLeft(n)' <=> WasLeft(n)
         /\ \A n : IsCalled(n)' <=> IsCalled(n)
<1>1. \A i \in 2 .. Len(frames) : i \in 1 .. Len(frames)
  BY DEF Typed, Calls
<1>2. /\ Len(frames') = Len(frames) /\ cache' = cache /\ left' = left
      /\ \A i \in 2 .. Len(frames) : frames'[i].name = frames[i].name
  BY <1>1, Zenon DEF CallsGoOn, past
<1>3. \A n : IsCalled(n)' <=> IsCalled(n)
  BY <1>2 DEF IsCalled
<1>4. \A n : WasLeft(n)' <=> WasLeft(n)
  BY <1>2 DEF WasLeft
<1>5. \A n : Cached(n)' <=> Cached(n)
  BY <1>2 DEF Cached
<1>6. QED
  BY <1>3, <1>4, <1>5, Zenon DEF SameKnown, Known

LEMMA KnownWhenCallBegins ==
  ASSUME Typed, NEW name \in Names, CallBegins(name)
  PROVE  /\ \A n : Known(n)' <=> Known(n) \/ n = name
         /\ \A n : WasLeft(n)' <=> WasLeft(n)
         /\ \A n : IsCalled(n)' <=> IsCalled(n) \/ n = name
<1>1. /\ Len(frames) \in Nat /\ Len(frames) >= 1
  BY ActiveNat DEF CallBegins
<1>2. /\ Len(frames') = Len(frames) + 1
      /\ \A i \in 2 .. Len(frames) : frames'[i].name = frames[i].name
      /\ frames'[Len(frames) + 1].name = name
      /\ cache' = cache /\ left' = left
  BY <1>1 DEF CallBegins, past
<1>3. /\ Len(frames) + 1 \in 2 .. Len(frames')
      /\ \A i \in 2 .. Len(frames) : i \in 2 .. Len(frames')
      /\ \A i \in 2 .. Len(frames') : i \in 2 .. Len(frames) \/ i = Len(frames) + 1
  BY <1>1, <1>2
<1>4. \A n : IsCalled(n)' <=> IsCalled(n) \/ n = name
  BY <1>2, <1>3 DEF IsCalled
<1>5. \A n : WasLeft(n)' <=> WasLeft(n)
  BY <1>2 DEF WasLeft
<1>6. \A n : Cached(n)' <=> Cached(n)
  BY <1>2 DEF Cached
<1>7. QED
  BY <1>4, <1>5, <1>6, Zenon DEF Known

LEMMA KnownWhenCallReturns ==
  ASSUME Typed, OnStack, CallReturns
  PROVE  /\ SameKnown
         /\ \A n : WasLeft(n)' <=> WasLeft(n)
         /\ \A n : IsCalled(n) <=> IsCalled(n)' \/ n = Top.name
<1>1. /\ Active /\ Top.name \in Names /\ left' = left
      /\ Len(frames) > 1
      /\ Len(frames') = Len(frames) - 1
      /\ \A i \in 1 .. Len(frames) - 1 : frames'[i].name = frames[i].name
  BY DEF CallReturns, TopLeaves, past
<1>2. Len(frames) \in Nat
  BY DEF Typed, Calls
<1>3. /\ \A i \in 2 .. Len(frames) - 1 : i \in 1 .. Len(frames) - 1 /\ i \in 2 .. Len(frames)
      /\ \A i \in 2 .. Len(frames) : i \in 2 .. Len(frames) - 1 \/ i = Len(frames)
      /\ Len(frames) \in 2 .. Len(frames)
  BY <1>1, <1>2
<1>4. \A n : IsCalled(n) <=> IsCalled(n)' \/ n = Top.name
  BY <1>1, <1>3 DEF IsCalled, Top
<1>5. \A n : WasLeft(n)' <=> WasLeft(n)
  BY <1>1 DEF WasLeft
<1>6. \A n \in Names : Cached(n)' <=> Cached(n) \/ n = Top.name
  BY <1>1 DEF CallReturns, Cached
<1>7. \A n \in Names : Known(n)' <=> Known(n)
  BY <1>4, <1>5, <1>6, Zenon DEF Known
<1>8. QED
  BY <1>4, <1>5, <1>7 DEF SameKnown

-----------------------------------------------------------------------------
(* The module_resolve events *)

\* An event of a load that no error has left.
HasEvent(name) == \E i \in 1 .. Len(events) : events[i].name = name /\ Holds(i)

Traced(name) == \E i \in 1 .. Len(events) : events[i].name = name

\* Whether a call has still to write its event.
Pending(at, name) ==
  \/ at \in {"resolve", "digest", "check", "trace"}
  \/ at = "source" /\ Kind[name] # "pkg"

LeftBefore == \A l \in left : l.when <= Len(events)

ResolvedOnce ==
  \A i, j \in 1 .. Len(events) : i < j /\ events[i].name = events[j].name =>
    \E l \in left : l.name = events[i].name /\ i <= l.when /\ l.when < j

\* What has an event is loaded or being loaded, and what is loaded or was
\* evaluated has one.
ResolvedAreKnown ==
  /\ \A n \in Names : HasEvent(n) => Cached(n) \/ IsCalled(n)
  /\ \A n \in Names : Cached(n) => HasEvent(n)
  /\ \A r \in ran : r.name \in Names => Traced(r.name)

CallsResolve ==
  \A i \in 1 .. Len(frames) :
    frames[i].name \in Names =>
      (HasEvent(frames[i].name) <=> ~Pending(frames[i].at, frames[i].name))

Resolving == OnStack /\ LeftBefore /\ ResolvedOnce /\ ResolvedAreKnown /\ CallsResolve

LEMMA ResolvingIs == ASSUME Typed, Resolving PROVE ResolvedAgainOnlyIfLeft
<1>1. DOMAIN events = 1 .. Len(events)
  BY LenProperties DEF Typed, TypeOK
<1>2. \A i, j \in DOMAIN events : i < j /\ events[i].name = events[j].name =>
        \E l \in left : l.name = events[i].name /\ i <= l.when /\ l.when < j
  BY <1>1 DEF Resolving, ResolvedOnce
<1>3. \A r \in ran : r.name \in Names => \E i \in DOMAIN events : events[i].name = r.name
  BY <1>1 DEF Resolving, ResolvedAreKnown, Traced
<1>4. \A n \in Names : Cached(n) => \E i \in DOMAIN events : events[i].name = n /\ Holds(i)
  BY <1>1 DEF Resolving, ResolvedAreKnown, HasEvent
<1>5. QED
  BY <1>2, <1>3, <1>4 DEF ResolvedAgainOnlyIfLeft

LEMMA CallsResolveNext ==
  ASSUME \A i \in 1 .. Len(frames') : \A n \in Names :
           frames'[i].name = n => (HasEvent(n)' <=> ~Pending(frames'[i].at, n))
  PROVE  CallsResolve'
  BY DEF CallsResolve, HasEvent, Holds, Pending

LEMMA TopResolves ==
  ASSUME Typed, CallsResolve, Active, Top.name \in Names
  PROVE  HasEvent(Top.name) <=> ~Pending(Top.at, Top.name)
  BY TopIsLast DEF CallsResolve, Typed, Top

LEMMA EventAdded ==
  ASSUME Typed, NEW name \in Names, NEW digest, ~HasEvent(name), LeftBefore, ResolvedOnce,
         events' = Append(events, Resolved(name, digest)), UNCHANGED past
  PROVE  /\ LeftBefore' /\ ResolvedOnce'
         /\ \A n \in Names : HasEvent(n)' <=> HasEvent(n) \/ n = name
         /\ \A n \in Names : Traced(n) => Traced(n)'
<1>1. /\ events \in Seq([name : Names, digest : Digests]) /\ Len(events) \in Nat
      /\ \A l \in left : l.when \in Nat
      /\ left' = left
  BY DEF Typed, TypeOK, past
<1>2. PICK m \in Nat : m = Len(events) + 1
  BY <1>1
<1>3. /\ Len(events') = m
      /\ \A i \in 1 .. Len(events) : events'[i] = events[i]
      /\ events'[m].name = name
  BY <1>1, <1>2 DEF Resolved
<1>4. /\ \A i \in 1 .. Len(events') : i \in 1 .. Len(events) \/ i = m
      /\ \A i \in 1 .. Len(events) : i \in 1 .. Len(events') /\ i < m /\ i # m
      /\ m \in 1 .. Len(events')
      /\ m \notin 1 .. Len(events)
  BY <1>1, <1>2, <1>3
<1>5. \A i \in 1 .. Len(events) : Holds(i)' <=> Holds(i)
  BY <1>1, <1>3 DEF Holds
<1>6. \A l \in left' : l.when < m /\ l.when <= Len(events')
  BY <1>1, <1>2, <1>3 DEF LeftBefore
<1>7. LeftBefore' /\ Holds(m)'
  BY <1>6 DEF LeftBefore, Holds
<1>8. ASSUME NEW i \in 1 .. Len(events), events[i].name = name
      PROVE  \E l \in left : l.name = events[i].name /\ i <= l.when /\ l.when < m
  <2>1. ~Holds(i)
    BY <1>8 DEF HasEvent
  <2>2. PICK l \in left : l.name = events[i].name /\ ~(l.when < i)
    BY <2>1 DEF Holds
  <2>3. i <= l.when /\ l.when < m
    BY <1>1, <1>6, <2>2
  <2>4. QED
    BY <2>2, <2>3
<1>9. ResolvedOnce'
  <2>1. SUFFICES ASSUME NEW i \in 1 .. Len(events'), NEW j \in 1 .. Len(events'),
                        i < j, events'[i].name = events'[j].name
                 PROVE  \E l \in left : l.name = events'[i].name /\ i <= l.when /\ l.when < j
    BY <1>1 DEF ResolvedOnce
  <2>2. i \in 1 .. Len(events)
    <3>1. i # m
      BY <1>2, <1>3, <2>1
    <3>2. QED
      BY <1>4, <3>1
  <2>3. CASE j = m
    <3>1. events[i].name = name
      BY <1>3, <2>1, <2>2, <2>3
    <3>2. QED
      BY <1>3, <1>8, <2>2, <2>3, <3>1
  <2>4. CASE j \in 1 .. Len(events)
    BY <1>3, <2>1, <2>2, <2>4 DEF ResolvedOnce
  <2>5. QED
    BY <1>4, <2>3, <2>4
<1>10. \A n \in Names : HasEvent(n)' <=> HasEvent(n) \/ n = name
  BY <1>3, <1>4, <1>5, <1>7 DEF HasEvent
<1>11. \A n \in Names : Traced(n) => Traced(n)'
  BY <1>3, <1>4 DEF Traced
<1>12. QED
  BY <1>7, <1>9, <1>10, <1>11

LEMMA EventsSame ==
  ASSUME LeftBefore, ResolvedOnce, UNCHANGED <<past, events>>
  PROVE  /\ LeftBefore' /\ ResolvedOnce'
         /\ \A n : HasEvent(n)' <=> HasEvent(n)
         /\ \A n : Traced(n)' <=> Traced(n)
<1>1. left' = left /\ events' = events
  BY DEF past
<1>2. \A i : Holds(i)' <=> Holds(i)
  BY <1>1 DEF Holds
<1>3. QED
  BY <1>1, <1>2 DEF LeftBefore, ResolvedOnce, HasEvent, Traced

\* The loads that are left lose their events.
LEMMA EventsCut ==
  ASSUME Typed, LeftBefore, ResolvedOnce, NEW k, CallsAreCut(k), UNCHANGED events
  PROVE  /\ LeftBefore' /\ ResolvedOnce'
         /\ \A n : HasEvent(n)' <=> HasEvent(n) /\ ~IsAbove(k, n)
         /\ \A n : Traced(n)' <=> Traced(n)
<1>1. Len(events) \in Nat /\ events' = events
  BY DEF Typed, TypeOK
<1>2. \A l : l \in left' <=> \/ l \in left
                          \/ \E i \in 2 .. Len(frames) :
                               i > k /\ l = [name |-> frames[i].name, when |-> Len(events)]
  BY DEF CallsAreCut
<1>3. LeftBefore'
  <2>1. SUFFICES ASSUME NEW l \in left'
                 PROVE  l.when <= Len(events)
    BY <1>1 DEF LeftBefore
  <2>2. CASE l \in left
    BY <2>2 DEF LeftBefore
  <2>3. ASSUME NEW i \in 2 .. Len(frames), l = [name |-> frames[i].name, when |-> Len(events)]
        PROVE  l.when <= Len(events)
    BY <1>1, <2>3
  <2>4. QED
    BY <1>2, <2>1, <2>2, <2>3, Zenon
<1>4. ResolvedOnce'
  BY <1>1, <1>2 DEF ResolvedOnce
<1>5. ASSUME NEW i \in 1 .. Len(events)
      PROVE  Holds(i)' <=> Holds(i) /\ ~IsAbove(k, events[i].name)
  <2>1. ASSUME Holds(i)'
        PROVE  Holds(i)
    BY <1>1, <1>2, <2>1 DEF Holds
  <2>2. ASSUME Holds(i)', IsAbove(k, events[i].name)
        PROVE  FALSE
    <3>1. PICK m \in 2 .. Len(frames) : m > k /\ frames[m].name = events[i].name
      BY <2>2 DEF IsAbove
    <3> DEFINE l == [name |-> frames[m].name, when |-> Len(events)]
    <3>2. l \in left'
      BY <1>2, <3>1, Zenon
    <3>3. l.name = events[i].name /\ l.when = Len(events)
      BY <3>1
    <3> HIDE DEF l
    <3>4. l.when < i
      BY <1>1, <2>2, <3>2, <3>3 DEF Holds
    <3>5. QED
      BY <1>1, <3>3, <3>4
  <2>3. ASSUME Holds(i), ~IsAbove(k, events[i].name)
        PROVE  Holds(i)'
    <3>1. SUFFICES ASSUME NEW l \in left', l.name = events[i].name
                   PROVE  l.when < i
      BY <1>1 DEF Holds
    <3>2. CASE l \in left
      BY <2>3, <3>1, <3>2 DEF Holds
    <3>3. ASSUME NEW m \in 2 .. Len(frames), m > k,
                 l = [name |-> frames[m].name, when |-> Len(events)]
          PROVE  FALSE
      <4>1. frames[m].name = events[i].name
        BY <3>1, <3>3
      <4>2. QED
        BY <2>3, <3>3, <4>1 DEF IsAbove
    <3>4. QED
      BY <1>2, <3>1, <3>2, <3>3, Zenon
  <2>4. QED
    BY <2>1, <2>2, <2>3
<1>6. \A n : HasEvent(n)' <=> HasEvent(n) /\ ~IsAbove(k, n)
  <2>1. SUFFICES ASSUME NEW n
                 PROVE  HasEvent(n)' <=> HasEvent(n) /\ ~IsAbove(k, n)
    OBVIOUS
  <2>2. HasEvent(n)' <=> \E i \in 1 .. Len(events) : events[i].name = n /\ Holds(i)'
    BY <1>1 DEF HasEvent
  <2>3. HasEvent(n) <=> \E i \in 1 .. Len(events) : events[i].name = n /\ Holds(i)
    BY DEF HasEvent
  <2>4. QED
    BY <1>5, <2>2, <2>3, Zenon
<1>7. QED
  BY <1>1, <1>3, <1>4, <1>6 DEF Traced

LEMMA ResolvingWhenCut ==
  ASSUME Typed, Typed', Resolving, NEW k, CallsAreCut(k), UNCHANGED <<events, ran>>
  PROVE  Resolving'
<1>1. OnStack'
  BY StackWhenCut DEF Resolving
<1>2. /\ LeftBefore' /\ ResolvedOnce'
      /\ \A n : HasEvent(n)' <=> HasEvent(n) /\ ~IsAbove(k, n)
      /\ \A n : Traced(n)' <=> Traced(n)
  BY EventsCut DEF Resolving
<1>3. \A n : IsCalled(n) <=> IsCalled(n)' \/ IsAbove(k, n)
  BY KnownWhenCut
<1>4. /\ Len(frames) \in Nat /\ k \in Nat /\ k <= Len(frames) /\ Len(frames') = k
      /\ \A i \in 1 .. k : /\ i \in 1 .. Len(frames)
                           /\ frames'[i].name = frames[i].name
                           /\ frames'[i].at = frames[i].at
      /\ cache' = cache
  BY DEF CallsAreCut, Typed, Calls
<1>5. \A n \in Names : Cached(n) => ~IsAbove(k, n)
  BY DEF Resolving, OnStack, IsAbove
<1>6. ASSUME NEW i \in 1 .. k, frames[i].name \in Names
      PROVE  ~IsAbove(k, frames[i].name)
  <2>1. i # 1
    <3>1. 1 \in 1 .. Len(frames)
      BY <1>4
    <3>2. frames[1].name \notin Names
      BY <3>1, Zenon DEF Typed, Calls
    <3>3. QED
      BY <1>6, <3>2
  <2>2. i \in 2 .. Len(frames)
    BY <1>4, <2>1
  <2>3. ASSUME NEW m \in 2 .. Len(frames), m > k, frames[m].name = frames[i].name
        PROVE  FALSE
    <3>1. m = i
      BY <2>2, <2>3, CallsDiffer DEF Resolving
    <3>2. QED
      BY <1>4, <2>3, <3>1
  <2>4. QED
    BY <2>3 DEF IsAbove
<1>7. CallsResolve'
  <2>1. ASSUME NEW i \in 1 .. Len(frames'), NEW n \in Names, frames'[i].name = n
        PROVE  HasEvent(n)' <=> ~Pending(frames'[i].at, n)
    <3>1. i \in 1 .. k /\ i \in 1 .. Len(frames) /\ frames[i].name = n /\ frames'[i].at = frames[i].at
      BY <1>4, <2>1
    <3>2. HasEvent(n) <=> ~Pending(frames[i].at, n)
      BY <3>1 DEF Resolving, CallsResolve
    <3>3. ~IsAbove(k, n)
      BY <1>6, <3>1
    <3>4. QED
      BY <1>2, <3>1, <3>2, <3>3
  <2>2. QED
    BY <2>1, CallsResolveNext
<1>8. ResolvedAreKnown'
  <2>1. \A n \in Names : HasEvent(n)' => Cached(n)' \/ IsCalled(n)'
    BY <1>2, <1>3, <1>4 DEF Resolving, ResolvedAreKnown, Cached
  <2>2. \A n \in Names : Cached(n)' => HasEvent(n)'
    BY <1>2, <1>4, <1>5 DEF Resolving, ResolvedAreKnown, Cached
  <2>3. \A r \in ran' : r.name \in Names => Traced(r.name)
    BY DEF Resolving, ResolvedAreKnown
  <2>4. QED
    BY <2>1, <2>2, <2>3 DEF ResolvedAreKnown, Traced
<1>9. QED
  BY <1>1, <1>2, <1>7, <1>8 DEF Resolving

\* The innermost call goes on without an event.
LEMMA ResolvingWhenTopGoes ==
  ASSUME Typed, Typed', Resolving, Active, NEW at, TopGoes(at),
         UNCHANGED <<stack, cache, past, events>>,
         Top.name \in Names => (Pending(at, Top.name) <=> Pending(Top.at, Top.name)),
         \A r \in ran' : r \in ran \/ (r.name = Top.name /\ ~Pending(Top.at, Top.name))
  PROVE  Resolving'
<1>1. OnStack' /\ \A n : IsCalled(n)' <=> IsCalled(n)
  BY TopGoesOn, StackWhenCallsGoOn, KnownWhenCallsGoOn DEF Resolving
<1>2. Len(frames) \in Nat
  BY DEF Typed, Calls
<1>3. \A i \in 1 .. Len(frames) : i \in 1 .. Len(frames) - 1 \/ i = Len(frames)
  BY <1>2
<1>4. /\ LeftBefore' /\ ResolvedOnce'
      /\ \A n : HasEvent(n)' <=> HasEvent(n)
      /\ \A n : Traced(n)' <=> Traced(n)
  BY EventsSame DEF Resolving
<1>5. ASSUME NEW i \in 1 .. Len(frames'), NEW n \in Names, frames'[i].name = n
      PROVE  HasEvent(n)' <=> ~Pending(frames'[i].at, n)
  <2>1. i \in 1 .. Len(frames)
    BY DEF TopGoes
  <2>2. CASE i = Len(frames)
    BY <1>4, <1>5, <2>2, TopResolves DEF TopGoes, Resolving
  <2>3. CASE i \in 1 .. Len(frames) - 1
    BY <1>4, <1>5, <2>1, <2>3 DEF TopGoes, Resolving, CallsResolve
  <2>4. QED
    BY <1>3, <2>1, <2>2, <2>3
<1>6. CallsResolve'
  BY <1>5, CallsResolveNext
<1>7. ASSUME NEW r \in ran', r.name \in Names
      PROVE  Traced(r.name)
  <2>1. HasEvent(r.name) => Traced(r.name)
    BY DEF HasEvent, Traced
  <2>2. QED
    BY <1>7, <2>1, TopResolves DEF Resolving, ResolvedAreKnown
<1>8. ResolvedAreKnown'
  <2>1. \A n \in Names : HasEvent(n)' => Cached(n)' \/ IsCalled(n)'
    BY <1>1, <1>4 DEF Resolving, ResolvedAreKnown, Cached
  <2>2. \A n \in Names : Cached(n)' => HasEvent(n)'
    BY <1>4 DEF Resolving, ResolvedAreKnown, Cached
  <2>3. QED
    BY <1>7, <2>1, <2>2 DEF ResolvedAreKnown, Traced
<1>9. QED
  BY <1>1, <1>4, <1>6, <1>8 DEF Resolving

\* The innermost call goes on and writes its event.
LEMMA ResolvingWhenTopResolves ==
  ASSUME Typed, Typed', Resolving, Active, NEW at, TopGoes(at), NEW digest,
         UNCHANGED <<stack, cache, past, ran>>, Top.name \in Names,
         events' = Append(events, Resolved(Top.name, digest)),
         Pending(Top.at, Top.name), ~Pending(at, Top.name)
  PROVE  Resolving'
<1>1. OnStack' /\ \A n : IsCalled(n)' <=> IsCalled(n)
  BY TopGoesOn, StackWhenCallsGoOn, KnownWhenCallsGoOn DEF Resolving
<1>2. /\ LeftBefore' /\ ResolvedOnce'
      /\ \A n \in Names : HasEvent(n)' <=> HasEvent(n) \/ n = Top.name
      /\ \A n \in Names : Traced(n) => Traced(n)'
  BY TopResolves, EventAdded DEF Resolving
<1>3. IsCalled(Top.name) /\ \A i \in 1 .. Len(frames) - 1 : frames[i].name # Top.name
  BY TopIsCalled DEF Resolving
<1>4. Len(frames) \in Nat
  BY DEF Typed, Calls
<1>5. \A i \in 1 .. Len(frames) :
        (i \in 1 .. Len(frames) - 1 /\ i \in 1 .. Len(frames)) \/ i = Len(frames)
  BY <1>4
<1>6. ASSUME NEW i \in 1 .. Len(frames'), NEW n \in Names, frames'[i].name = n
      PROVE  HasEvent(n)' <=> ~Pending(frames'[i].at, n)
  <2>1. CASE i = Len(frames)
    BY <1>2, <1>6, <2>1 DEF TopGoes
  <2>2. CASE i \in 1 .. Len(frames) - 1
    BY <1>2, <1>3, <1>5, <1>6, <2>2 DEF TopGoes, Resolving, CallsResolve
  <2>3. QED
    BY <1>5, <1>6, <2>1, <2>2 DEF TopGoes
<1>7. CallsResolve'
  BY <1>6, CallsResolveNext
<1>8. ResolvedAreKnown'
  <2>1. \A n \in Names : HasEvent(n)' => Cached(n)' \/ IsCalled(n)'
    BY <1>1, <1>2, <1>3 DEF Resolving, ResolvedAreKnown, Cached
  <2>2. \A n \in Names : Cached(n)' => HasEvent(n)'
    BY <1>2 DEF Resolving, ResolvedAreKnown, Cached
  <2>3. \A r \in ran' : r.name \in Names => Traced(r.name)'
    BY <1>2 DEF Resolving, ResolvedAreKnown
  <2>4. QED
    BY <2>1, <2>2, <2>3 DEF ResolvedAreKnown, Traced
<1>9. QED
  BY <1>1, <1>2, <1>7, <1>8 DEF Resolving

\* It goes on, and evaluates nothing.
LEMMA ResolvingWhenTopGoesOn ==
  ASSUME Typed, Typed', Resolving, Active, NEW at, TopGoes(at),
         UNCHANGED <<stack, cache, past, events, ran>>,
         Top.name \in Names => (Pending(at, Top.name) <=> Pending(Top.at, Top.name))
  PROVE  Resolving'
<1>1. \A r \in ran' : r \in ran \/ (r.name = Top.name /\ ~Pending(Top.at, Top.name))
  OBVIOUS
<1>2. UNCHANGED <<stack, cache, past, events>>
  OBVIOUS
<1>3. QED
  BY <1>1, <1>2, ResolvingWhenTopGoes, Zenon

LEMMA ResolvingWhenCallBegins ==
  ASSUME Typed, Typed', Resolving, NEW name \in Names, CallBegins(name),
         UNCHANGED <<events, ran>>,
         \A i \in 1 .. Len(frames) : frames'[i].at = frames[i].at,
         Pending(frames'[Len(frames) + 1].at, name)
  PROVE  Resolving'
<1>1. OnStack' /\ \A n : IsCalled(n)' <=> IsCalled(n) \/ n = name
  BY StackWhenCallBegins, KnownWhenCallBegins DEF Resolving
<1>2. /\ Len(frames) \in Nat
      /\ Len(frames') = Len(frames) + 1
      /\ \A i \in 1 .. Len(frames) : frames'[i].name = frames[i].name
      /\ frames'[Len(frames) + 1].name = name
      /\ cache' = cache /\ UNCHANGED past
  BY DEF Typed, Calls, CallBegins
<1>3. ~HasEvent(name)
  BY CalledIsStacked DEF CallBegins, Resolving, ResolvedAreKnown
<1>4. \A i \in 1 .. Len(frames') : i \in 1 .. Len(frames) \/ i = Len(frames) + 1
  BY <1>2
<1>5. /\ LeftBefore' /\ ResolvedOnce'
      /\ \A n : HasEvent(n)' <=> HasEvent(n)
      /\ \A n : Traced(n)' <=> Traced(n)
  BY <1>2, EventsSame DEF Resolving
<1>6. ASSUME NEW i \in 1 .. Len(frames'), NEW n \in Names, frames'[i].name = n
      PROVE  HasEvent(n)' <=> ~Pending(frames'[i].at, n)
  <2>1. CASE i = Len(frames) + 1
    BY <1>2, <1>3, <1>5, <1>6, <2>1
  <2>2. CASE i \in 1 .. Len(frames)
    BY <1>2, <1>5, <1>6, <2>2 DEF Resolving, CallsResolve
  <2>3. QED
    BY <1>4, <2>1, <2>2
<1>7. CallsResolve'
  BY <1>6, CallsResolveNext
<1>8. ResolvedAreKnown'
  <2>1. \A n \in Names : HasEvent(n)' => Cached(n)' \/ IsCalled(n)'
    BY <1>1, <1>2, <1>5 DEF Resolving, ResolvedAreKnown, Cached
  <2>2. \A n \in Names : Cached(n)' => HasEvent(n)'
    BY <1>2, <1>5 DEF Resolving, ResolvedAreKnown, Cached
  <2>3. QED
    BY <1>5, <2>1, <2>2 DEF Resolving, ResolvedAreKnown, Traced
<1>9. QED
  BY <1>1, <1>5, <1>7, <1>8 DEF Resolving

LEMMA ResolvingWhenCallReturns ==
  ASSUME Typed, Typed', Resolving, CallReturns, UNCHANGED ran, LeftBefore', ResolvedOnce',
         \A n \in Names : HasEvent(n)' <=> HasEvent(n) \/ n = Top.name,
         \A n \in Names : Traced(n) => Traced(n)'
  PROVE  Resolving'
<1>1. OnStack' /\ \A n : IsCalled(n) <=> IsCalled(n)' \/ n = Top.name
  BY StackWhenCallReturns, KnownWhenCallReturns DEF Resolving
<1>2. Active /\ Top.name \in Names /\ TopLeaves
  BY DEF CallReturns
<1>3. \A i \in 1 .. Len(frames) - 1 : frames[i].name # Top.name
  BY <1>2, TopIsCalled DEF Resolving
<1>4. /\ Len(frames) \in Nat /\ Len(frames) > 1
      /\ Len(frames') = Len(frames) - 1
      /\ \A i \in 1 .. Len(frames) - 1 :
           /\ frames'[i].name = frames[i].name
           /\ frames'[i].at = frames[i].at
           /\ i \in 1 .. Len(frames)
  BY <1>2 DEF TopLeaves, Typed, Calls
<1>5. ASSUME NEW i \in 1 .. Len(frames'), NEW n \in Names, frames'[i].name = n
      PROVE  HasEvent(n)' <=> ~Pending(frames'[i].at, n)
  <2>1. i \in 1 .. Len(frames) - 1
    BY <1>4
  <2>2. n # Top.name /\ (HasEvent(n) <=> ~Pending(frames[i].at, n))
    BY <1>3, <1>4, <1>5, <2>1 DEF Resolving, CallsResolve
  <2>3. QED
    BY <1>4, <2>1, <2>2
<1>6. CallsResolve'
  BY <1>5, CallsResolveNext
<1>7. \A n \in Names : Cached(n)' <=> Cached(n) \/ n = Top.name
  BY <1>2 DEF CallReturns, Cached
<1>8. ResolvedAreKnown'
  <2>1. \A n \in Names : HasEvent(n)' => Cached(n)' \/ IsCalled(n)'
    BY <1>1, <1>7 DEF Resolving, ResolvedAreKnown
  <2>2. \A n \in Names : Cached(n)' => HasEvent(n)'
    BY <1>7 DEF Resolving, ResolvedAreKnown
  <2>3. \A r \in ran' : r.name \in Names => Traced(r.name)'
    BY DEF Resolving, ResolvedAreKnown
  <2>4. QED
    BY <2>1, <2>2, <2>3 DEF ResolvedAreKnown, Traced
<1>9. QED
  BY <1>1, <1>6, <1>8 DEF Resolving

LEMMA ResolvingOfStep ==
  ASSUME Typed, Typed', Resolving, Step
  PROVE  Resolving'
<1>1. CASE Finish \/ ImportCycle \/ ItemFails
  <2>1. UNCHANGED <<events, ran>>
    BY <1>1 DEF Finish, ImportCycle, ItemFails
  <2>2. \E k \in 0 .. Len(frames) : CallsAreCut(k)
    BY <1>1, EndsCut
  <2>3. QED
    BY <2>1, <2>2, ResolvingWhenCut
<1>2. CASE ImportCached
  <2>1. UNCHANGED <<stack, cache, past, events, ran>>
    BY <1>2 DEF ImportCached
  <2>2. Active /\ TopGoes("run") /\ Top.at = "run"
    BY <1>2, ImportCachedEffect
  <2>3. QED
    BY <2>1, <2>2, ResolvingWhenTopGoesOn
<1>3. CASE ImportBegin
  <2> DEFINE item == Head(Top.items)
             f == Frame(item.name, Locate[item.name][HereOf(item)], FirstStep(Kind[item.name]))
  <2>1. AtImport /\ UNCHANGED <<cache, past, events, ran>>
    BY <1>3 DEF ImportBegin
  <2>2. Active /\ item.name \in Names
    BY <2>1, AtItemProps, AtImportProps DEF AtImport
  <2>3. /\ ~Cached(item.name)
        /\ ~Stacked(item.name)
        /\ stack' = Append(stack, item.name)
        /\ frames' = Append(frames, f)
    BY <1>3 DEF ImportBegin, Cached
  <2>4. f.name = item.name /\ Pending(f.at, item.name)
    BY DEF Frame, FirstStep, Pending
  <2> HIDE DEF item, f
  <2>5. frames \in Seq(Frames) /\ Len(frames) \in Nat
    BY DEF Typed, Calls
  <2>6. /\ Len(frames') = Len(frames) + 1
        /\ \A i \in 1 .. Len(frames) : frames'[i] = frames[i]
        /\ frames'[Len(frames) + 1] = f
    BY <2>3, <2>5
  <2>7. CallBegins(item.name)
    BY <2>1, <2>2, <2>3, <2>4, <2>6 DEF CallBegins
  <2>8. QED
    BY <2>1, <2>2, <2>4, <2>6, <2>7, ResolvingWhenCallBegins
<1>4. CASE LoadStd
  <2>1. /\ Active /\ Top.name \in Names /\ Pending(Top.at, Top.name)
        /\ UNCHANGED ran
    BY <1>4, AtProps DEF LoadStd, FrameOK, Pending
  <2>2. CASE Top.name \in Builtins /\ Allows(Top.name, Top.name)
    <3>1. /\ stack' = SubSeq(stack, 1, Len(stack) - 1)
          /\ cache' = [cache EXCEPT ![Top.name] = Top.name]
          /\ events' = Append(events, Resolved(Top.name, Top.name))
          /\ frames' = ReturnToCaller
          /\ UNCHANGED past
      BY <1>4, <2>2 DEF LoadStd, Resolve
    <3>2. /\ cache'[Top.name] = Top.name
          /\ \A n \in Names \ {Top.name} : cache'[n] = cache[n]
      BY <2>1, <3>1 DEF Typed, TypeOK
    <3>3. cache'[Top.name] # NotCached
      BY <2>1, <3>2, LoaderAssumption
    <3>4. ~HasEvent(Top.name) /\ LeftBefore /\ ResolvedOnce
      BY <2>1, TopResolves DEF Resolving
    <3>5. CallReturns
      BY <2>1, <3>1, <3>2, <3>3, ReturnEffect DEF CallReturns
    <3>6. /\ LeftBefore' /\ ResolvedOnce'
          /\ \A n \in Names : HasEvent(n)' <=> HasEvent(n) \/ n = Top.name
          /\ \A n \in Names : Traced(n) => Traced(n)'
      BY <2>1, <3>1, <3>4, EventAdded
    <3>7. QED
      BY <2>1, <3>5, <3>6, ResolvingWhenCallReturns
  <2>3. CASE ~(Top.name \in Builtins /\ Allows(Top.name, Top.name))
    <3>1. Fail("std", Top.name) /\ UNCHANGED <<events, ran>>
      BY <1>4, <2>3 DEF LoadStd
    <3>2. \E k \in 0 .. Len(frames) : CallsAreCut(k)
      BY <2>1, <3>1, FailCuts
    <3>3. QED
      BY <3>1, <3>2, ResolvingWhenCut
  <2>4. QED
    BY <2>2, <2>3
<1>5. CASE Return
  <2>1. /\ Active /\ Top.name \in Names /\ ~Pending(Top.at, Top.name)
        /\ UNCHANGED <<events, ran>>
    BY <1>5 DEF Return, IsModule, Pending
  <2>2. CASE Source[Top.text].record
    <3>1. /\ stack' = SubSeq(stack, 1, Len(stack) - 1)
          /\ cache' = [cache EXCEPT ![Top.name] = Top.text]
          /\ frames' = ReturnToCaller
          /\ UNCHANGED past
      BY <1>5, <2>2 DEF Return
    <3>2. /\ cache'[Top.name] = Top.text
          /\ \A n \in Names \ {Top.name} : cache'[n] = cache[n]
      BY <2>1, <3>1 DEF Typed, TypeOK
    <3>3. cache'[Top.name] # NotCached
      <4>1. Top.text \in Texts
        BY <1>5, <2>1, TopTyped DEF Return, FrameOK
      <4>2. QED
        BY <3>2, <4>1, LoaderAssumption
    <3>4. HasEvent(Top.name)
      BY <2>1, TopResolves DEF Resolving
    <3>5. CallReturns
      BY <2>1, <3>1, <3>2, <3>3, ReturnEffect DEF CallReturns
    <3>6. /\ LeftBefore' /\ ResolvedOnce'
          /\ \A n : HasEvent(n)' <=> HasEvent(n)
          /\ \A n : Traced(n)' <=> Traced(n)
      BY <2>1, <3>1, EventsSame DEF Resolving
    <3>7. \A n \in Names : HasEvent(n)' <=> HasEvent(n) \/ n = Top.name
      BY <3>4, <3>6
    <3>8. QED
      BY <2>1, <3>5, <3>6, <3>7, ResolvingWhenCallReturns
  <2>3. CASE ~Source[Top.text].record
    <3>1. Fail("not a record", Top.name)
      BY <1>5, <2>3 DEF Return
    <3>2. \E k \in 0 .. Len(frames) : CallsAreCut(k)
      BY <2>1, <3>1, FailCuts
    <3>3. QED
      BY <2>1, <3>2, ResolvingWhenCut
  <2>4. QED
    BY <2>2, <2>3
<1>6. CASE Errs /\ (DigestPackage \/ ReadSource \/ CheckLock \/ TraceModule \/ Parse)
  <2>1. Active
    BY <1>6 DEF DigestPackage, ReadSource, CheckLock, TraceModule, Parse, At
  <2>2. UNCHANGED <<events, ran>>
    BY <1>6 DEF Errs
  <2>3. QED
    BY <1>6, <2>1, <2>2, ErrsCuts, ResolvingWhenCut
<1>7. CASE ~Errs /\ DigestPackage
  <2>1. Kind[Top.name] = "pkg" /\ UNCHANGED ran
    BY <1>7, AtProps DEF DigestPackage, FrameOK
  <2>2. QED
    BY <1>7, <2>1, DigestPackageEffect, ResolvingWhenTopResolves DEF Pending
<1>8. CASE ~Errs /\ ReadSource
  <2>1. UNCHANGED <<events, ran>>
    BY <1>8 DEF ReadSource
  <2>2. Top.name \in Names =>
          (Pending(AfterSource(Top), Top.name) <=> Pending(Top.at, Top.name))
    BY <1>8, Constants, ReadSourceEffect DEF AfterSource, Pending
  <2>3. Active /\ TopGoes(AfterSource(Top)) /\ UNCHANGED <<stack, cache, past>>
    BY <1>8, ReadSourceEffect
  <2>4. QED
    BY <2>1, <2>2, <2>3, ResolvingWhenTopGoesOn
<1>9. CASE ~Errs /\ CheckLock
  <2>1. UNCHANGED <<events, ran>>
    BY <1>9 DEF CheckLock
  <2>2. /\ Active /\ Top.at = "check" /\ TopGoes("trace") /\ UNCHANGED <<stack, cache, past>>
    BY <1>9, CheckLockEffect
  <2>3. Pending("check", Top.name) /\ Pending("trace", Top.name)
    BY DEF Pending
  <2>4. QED
    BY <2>1, <2>2, <2>3, ResolvingWhenTopGoesOn
<1>10. CASE ~Errs /\ TraceModule
  <2>1. UNCHANGED ran
    BY <1>10 DEF TraceModule
  <2>2. QED
    BY <1>10, <2>1, TraceModuleEffect, ResolvingWhenTopResolves DEF Pending
<1>11. CASE ~Errs /\ Parse
  <2>1. UNCHANGED events
    BY <1>11 DEF Parse
  <2>2. \A r \in ran' : r \in ran \/ r.name = Top.name
    BY <1>11, ParseEffect DEF Evaluated
  <2>3. QED
    BY <1>11, <2>1, <2>2, ParseEffect, ResolvingWhenTopGoes DEF Pending
<1>12. CASE NoteProgram
  <2>1. UNCHANGED <<stack, cache, past, events, ran>>
    BY <1>12 DEF NoteProgram
  <2>2. QED
    BY <1>12, <2>1, NoteProgramEffect, ResolvingWhenTopGoes DEF Pending
<1>13. QED
  BY <1>1, <1>2, <1>3, <1>4, <1>5, <1>6, <1>7, <1>8, <1>9, <1>10, <1>11, <1>12, Zenon DEF Step

LEMMA InitResolving == Init => Resolving
<1>1. SUFFICES ASSUME Init
               PROVE  Resolving
  OBVIOUS
<1>2. OnStack
  BY <1>1, InitOnStack
<1>3. LeftBefore /\ ResolvedOnce /\ ResolvedAreKnown
  BY <1>1 DEF Init, LeftBefore, ResolvedOnce, ResolvedAreKnown, HasEvent, Cached, NothingCached
<1>4. \A i \in 1 .. Len(frames) : frames[i].name \notin Names
  <2>1. Frame(Main, Main, "source").name = Main /\ Frame(Prompt, Main, "source").name = Prompt
    BY DEF Frame
  <2>2. frames = <<>> \/ \E f : frames = <<f>> /\ f.name \in {Main, Prompt}
    BY <1>1, <2>1 DEF Init
  <2>3. QED
    BY <2>2, Constants
<1>5. QED
  BY <1>2, <1>3, <1>4 DEF Resolving, CallsResolve

LEMMA NextResolving == Typed /\ Resolving /\ [Next]_vars => Resolving'
<1>1. SUFFICES ASSUME Typed, Resolving, [Next]_vars
               PROVE  Resolving'
  OBVIOUS
<1>2. Typed'
  BY <1>1, StepTyped
<1>3. CASE Step
  BY <1>1, <1>2, <1>3, ResolvingOfStep
<1>4. ASSUME OnStack', UNCHANGED <<stack, cache, past, events, ran>>,
             Len(frames') = Len(frames),
             \A i \in 1 .. Len(frames) : /\ frames'[i].name = frames[i].name
                                         /\ frames'[i].at = frames[i].at
      PROVE  Resolving'
  <2>1. CallsGoOn
    BY <1>4 DEF CallsGoOn
  <2>2. \A n : IsCalled(n)' <=> IsCalled(n)
    BY <1>1, <2>1, KnownWhenCallsGoOn
  <2>3. /\ LeftBefore' /\ ResolvedOnce'
        /\ \A n : HasEvent(n)' <=> HasEvent(n)
        /\ \A n : Traced(n)' <=> Traced(n)
    BY <1>1, <1>4, EventsSame DEF Resolving
  <2>4. \A i \in 1 .. Len(frames') : \A n \in Names :
          frames'[i].name = n => (HasEvent(n)' <=> ~Pending(frames'[i].at, n))
    BY <1>1, <1>4, <2>3 DEF Resolving, CallsResolve
  <2>5. CallsResolve'
    BY <2>4, CallsResolveNext
  <2>6. ResolvedAreKnown'
    <3>1. \A n \in Names : HasEvent(n)' => Cached(n)' \/ IsCalled(n)'
      BY <1>1, <1>4, <2>2, <2>3 DEF Resolving, ResolvedAreKnown, Cached
    <3>2. \A n \in Names : Cached(n)' => HasEvent(n)'
      BY <1>1, <1>4, <2>3 DEF Resolving, ResolvedAreKnown, Cached
    <3>3. \A r \in ran' : r.name \in Names => Traced(r.name)'
      BY <1>1, <1>4, <2>3 DEF Resolving, ResolvedAreKnown
    <3>4. QED
      BY <3>1, <3>2, <3>3 DEF ResolvedAreKnown, Traced
  <2>7. QED
    BY <1>4, <2>3, <2>5, <2>6 DEF Resolving
<1>5. OnStack'
  BY <1>1, NextOnStack DEF Resolving
<1>6. CASE UNCHANGED vars
  <2>1. UNCHANGED <<frames, stack, cache, past, events, ran>>
    BY <1>6 DEF vars
  <2>2. QED
    BY <1>4, <1>5, <2>1
<1>7. CASE Reset
  <2>1. /\ events' = <<>> /\ ran' = {} /\ cache' = NothingCached /\ frames' = <<>>
        /\ left' = {}
    BY <1>7 DEF Reset, Active
  <2>2. \A n \in Names : ~HasEvent(n)' /\ ~Cached(n)'
    BY <2>1 DEF HasEvent, Cached, NothingCached
  <2>3. LeftBefore' /\ ResolvedOnce' /\ ResolvedAreKnown'
    BY <2>1, <2>2 DEF LeftBefore, ResolvedOnce, ResolvedAreKnown
  <2>4. CallsResolve'
    BY <2>1 DEF CallsResolve
  <2>5. QED
    BY <1>5, <2>3, <2>4 DEF Resolving
<1>8. ASSUME NEW items \in Lines, Line(items)
      PROVE  Resolving'
  <2> DEFINE f == [Frame(Prompt, Nowhere, "run") EXCEPT !.items = items]
  <2>1. UNCHANGED <<stack, cache, past, events, ran>> /\ frames' = <<f>> /\ frames = <<>>
    BY <1>8 DEF Line, Active
  <2>2. f.name \notin Names
    BY Constants DEF Frame
  <2> HIDE DEF f
  <2>3. CallsResolve'
    BY <2>1, <2>2 DEF CallsResolve
  <2>4. \A n : ~IsCalled(n)
    BY <2>1 DEF IsCalled
  <2>5. /\ LeftBefore' /\ ResolvedOnce'
        /\ \A n : HasEvent(n)' <=> HasEvent(n)
        /\ \A n : Traced(n)' <=> Traced(n)
    BY <1>1, <2>1, EventsSame DEF Resolving
  <2>6. ResolvedAreKnown'
    <3>1. \A n \in Names : HasEvent(n)' => Cached(n)' \/ IsCalled(n)'
      BY <1>1, <2>1, <2>4, <2>5 DEF Resolving, ResolvedAreKnown, Cached
    <3>2. \A n \in Names : Cached(n)' => HasEvent(n)'
      BY <1>1, <2>1, <2>5 DEF Resolving, ResolvedAreKnown, Cached
    <3>3. \A r \in ran' : r.name \in Names => Traced(r.name)'
      BY <1>1, <2>1, <2>5 DEF Resolving, ResolvedAreKnown
    <3>4. QED
      BY <3>1, <3>2, <3>3 DEF ResolvedAreKnown, Traced
  <2>7. QED
    BY <1>5, <2>3, <2>5, <2>6 DEF Resolving
<1>9. ASSUME NEW change \in Edits, Edit(change[1], change[2])
      PROVE  Resolving'
  <2>1. UNCHANGED <<stack, cache, past, events, ran>>
    BY <1>9 DEF Edit
  <2>2. QED
    BY <1>1, <1>4, <1>5, <1>9, <2>1, EditedCalls
<1>10. QED
  BY <1>1, <1>3, <1>6, <1>7, <1>8, <1>9 DEF Next

\* A loader resolves a module again only after an error left the load that
\* resolved it, whatever is imported, fails, is caught or changes; what was
\* loaded or evaluated it has resolved: no module's code runs that the trace
\* does not name.
THEOREM LoaderResolvesOnce == Spec => []ResolvedAgainOnlyIfLeft
<1>1. Init => Typed /\ Resolving
  BY InitTyped, InitResolving
<1>2. Typed /\ Resolving /\ [Next]_vars => Typed' /\ Resolving'
  BY StepTyped, NextResolving
<1>3. Typed /\ Resolving => ResolvedAgainOnlyIfLeft
  BY ResolvingIs
<1>4. QED
  BY <1>1, <1>2, <1>3, PTL DEF Spec

-----------------------------------------------------------------------------
(* What is evaluated while nobody changes its file *)

InTrace(es, name, digest) ==
  \E i \in 1 .. Len(es) : es[i] = Resolved(name, digest)

InGraph(ns, text) == \E i \in 1 .. Len(ns) : ns[i] = Node(Main, text)

ContentsIn(fs, file) == IF file = Nowhere THEN Absent ELSE fs[file]

Accepted(name, text) == Expected(name) \in {NoEntry, text}

\* The innermost call, as long as its file stays as it was: what it has read
\* is what it has compared, traced and noted so far.
SteadyCall(f, fs, ns, es) ==
  /\ f.at = "source" /\ f.name = Main => f.file = Main
  /\ f.at = "note" => f.file = Main /\ f.text = ContentsIn(fs, Main)
  /\ f.at \in {"check", "trace"} => f.text = ContentsIn(fs, f.file)
  /\ f.at = "trace" => Accepted(f.name, f.text)
  /\ /\ f.at = "source" /\ f.name \in Names /\ Kind[f.name] = "pkg"
     /\ ContentsIn(fs, f.file) # Absent
     => /\ InTrace(es, f.name, ContentsIn(fs, f.file))
        /\ Accepted(f.name, ContentsIn(fs, f.file))
  /\ f.at = "parse" /\ f.name = Main => InGraph(ns, f.text)
  /\ f.at = "parse" /\ f.name \in Names => InTrace(es, f.name, f.text) /\ Accepted(f.name, f.text)

TopSteady == Active /\ Top.steady => SteadyCall(Top, files, nodes, events)

RanSteady ==
  \A r \in ran : r.steady =>
    /\ r.name = Main => InGraph(nodes, r.text)
    /\ r.name \in Names => InTrace(events, r.name, r.text) /\ Accepted(r.name, r.text)

LEMMA RanSteadyIs == ASSUME Typed, RanSteady PROVE SteadyLoadsAreTraced
<1>1. DOMAIN events = 1 .. Len(events) /\ DOMAIN nodes = 1 .. Len(nodes)
  BY LenProperties DEF Typed, TypeOK
<1>2. QED
  BY <1>1 DEF RanSteady, SteadyLoadsAreTraced, InTrace, InGraph, Accepted

\* Events and nodes stay, but for :reset.
TraceStays == \A n, d : InTrace(events, n, d) => InTrace(events', n, d)

GraphStays == \A t : InGraph(nodes, t) => InGraph(nodes', t)

LEMMA EventAppended ==
  ASSUME Typed, NEW name, NEW digest, events' = Append(events, Resolved(name, digest))
  PROVE  TraceStays /\ InTrace(events', name, digest)
<1>1. events \in Seq([name : Names, digest : Digests]) /\ Len(events) \in Nat
  BY DEF Typed, TypeOK
<1>2. /\ Len(events') = Len(events) + 1
      /\ \A i \in 1 .. Len(events) : events'[i] = events[i] /\ i \in 1 .. Len(events')
      /\ events'[Len(events) + 1] = Resolved(name, digest)
      /\ Len(events) + 1 \in 1 .. Len(events')
  BY <1>1
<1>3. QED
  BY <1>2, Zenon DEF TraceStays, InTrace

LEMMA NodeAppended ==
  ASSUME Typed, NEW node, nodes' = Append(nodes, node)
  PROVE  GraphStays /\ \E i \in 1 .. Len(nodes') : nodes'[i] = node
<1>1. nodes \in Seq([spec : Names \union {Main}, digest : Digests \union {NoEntry}])
      /\ Len(nodes) \in Nat
  BY DEF Typed, TypeOK
<1>2. /\ Len(nodes') = Len(nodes) + 1
      /\ \A i \in 1 .. Len(nodes) : nodes'[i] = nodes[i] /\ i \in 1 .. Len(nodes')
      /\ nodes'[Len(nodes) + 1] = node
      /\ Len(nodes) + 1 \in 1 .. Len(nodes')
  BY <1>1
<1>3. QED
  BY <1>2, Zenon DEF GraphStays, InGraph

LEMMA NotedStays ==
  ASSUME Typed, Top.name \in Names, NEW digest, NoteCurrent(digest)
  PROVE  GraphStays
<1>1. /\ nodes \in Seq([spec : Names \union {Main}, digest : Digests \union {NoEntry}])
      /\ Len(nodes) \in Nat /\ DOMAIN nodes = 1 .. Len(nodes)
  BY LenProperties DEF Typed, TypeOK
<1>2. nodes' = [i \in 1 .. Len(nodes) |-> IF nodes[i].spec = Top.name /\ nodes[i].digest = NoEntry
                                          THEN Node(Top.name, digest)
                                          ELSE nodes[i]]
  BY <1>1 DEF NoteCurrent
<1>3. Len(nodes') = Len(nodes)
  BY <1>1, <1>2
<1>4. ASSUME NEW t, NEW i \in 1 .. Len(nodes), nodes[i] = Node(Main, t)
      PROVE  nodes'[i] = Node(Main, t)
  <2>1. nodes[i].spec # Top.name
    BY <1>4, Constants DEF Node
  <2>2. QED
    BY <1>2, <1>4, <2>1
<1>5. QED
  BY <1>3, <1>4 DEF GraphStays, InGraph

LEMMA RanStays ==
  ASSUME RanSteady, TraceStays, GraphStays, UNCHANGED <<fixed, ran>>
  PROVE  RanSteady'
  BY DEF RanSteady, TraceStays, GraphStays, Accepted, Expected, fixed

LEMMA SameStays ==
  /\ UNCHANGED events => TraceStays
  /\ UNCHANGED nodes => GraphStays
  BY DEF TraceStays, GraphStays, InTrace, InGraph

\* After a step that leaves the innermost call evaluating, or none.
LEMMA TopSteadyWhenRuns ==
  ASSUME \/ frames' = <<>>
         \/ frames'[Len(frames')].at = "run"
  PROVE  TopSteady'
<1>1. CASE frames' = <<>>
  BY <1>1 DEF TopSteady, Active
<1>2. CASE frames'[Len(frames')].at = "run"
  <2>1. Top'.at = "run"
    BY <1>2 DEF Top
  <2>2. QED
    BY <2>1 DEF TopSteady, SteadyCall
<1>3. QED
  BY <1>1, <1>2

LEMMA TopSteadyWhenLeaves ==
  ASSUME Typed, TopLeaves
  PROVE  TopSteady'
<1>1. Len(frames) \in Nat /\ Len(frames) > 1 /\ Len(frames') = Len(frames) - 1
  BY DEF Typed, Calls, TopLeaves
<1>2. Len(frames') \in 1 .. Len(frames) - 1
  BY <1>1
<1>3. QED
  BY <1>2, TopSteadyWhenRuns DEF TopLeaves

LEMMA TopAfter ==
  ASSUME NEW at, TopGoes(at)
  PROVE  /\ Top'.name = Top.name
         /\ Top'.file = Top.file
         /\ Top'.steady = Top.steady
         /\ Top'.at = at
         /\ Top'.text = frames'[Len(frames)].text
  BY DEF TopGoes, Top

LEMMA TopSteadyAfter ==
  ASSUME UNCHANGED fixed,
         Active' /\ Top'.steady => SteadyCall(Top', files', nodes', events')
  PROVE  TopSteady'
  BY DEF TopSteady, SteadyCall, Accepted, Expected, fixed

\* After an error, caught or not.
LEMMA TopSteadyWhenCut ==
  ASSUME Typed, Typed', TopSteady, UNCHANGED <<fixed, files, nodes, events>>,
         \E k \in 0 .. Len(frames) : CallsAreCut(k)
  PROVE  TopSteady'
<1>1. PICK k \in 0 .. Len(frames) : CallsAreCut(k)
  OBVIOUS
<1>2. /\ Len(frames) \in Nat /\ Len(frames) >= 1 /\ frames' \in Seq(Frames)
      /\ Len(frames') = k
  BY <1>1, ActiveNat DEF CallsAreCut, Typed, Calls
<1>3. CASE k = 0
  <2>1. frames' = <<>>
    BY <1>2, <1>3
  <2>2. QED
    BY <2>1, TopSteadyWhenRuns
<1>4. CASE k # 0 /\ k # Len(frames)
  <2>1. k \in 1 .. k /\ k \in 1 .. Len(frames) - 1
    BY <1>1, <1>2, <1>4
  <2>2. frames[k].at = "run"
    BY <2>1, Zenon DEF Typed, Calls, Waiting
  <2>3. frames'[Len(frames')].at = "run"
    BY <1>1, <1>2, <2>1, <2>2 DEF CallsAreCut
  <2>4. QED
    BY <2>3, TopSteadyWhenRuns
<1>5. CASE k # 0 /\ k = Len(frames)
  <2>1. k \in 1 .. k /\ Len(frames') = Len(frames)
    BY <1>1, <1>2, <1>5
  <2>2. /\ Top'.name = Top.name /\ Top'.at = Top.at /\ Top'.file = Top.file
        /\ Top'.text = Top.text /\ Top'.steady = Top.steady
    BY <1>1, <1>5, <2>1 DEF CallsAreCut, Top
  <2>3. Active
    BY <1>1 DEF CallsAreCut
  <2>4. ASSUME Top'.steady
        PROVE  SteadyCall(Top', files', nodes', events')
    <3>1. SteadyCall(Top, files, nodes, events)
      BY <2>2, <2>3, <2>4 DEF TopSteady
    <3>2. QED
      BY <2>2, <3>1 DEF SteadyCall
  <2>5. QED
    BY <2>4, TopSteadyAfter
<1>6. QED
  BY <1>3, <1>4, <1>5

LEMMA ContentsIs == \A file : Contents(file) = ContentsIn(files, file)
  BY DEF Contents, ContentsIn

LEMMA SteadyOfImport ==
  ASSUME Typed, Typed', RanSteady, TopSteady, ImportBegin
  PROVE  RanSteady' /\ TopSteady'
<1> DEFINE item == Head(Top.items)
           f == Frame(item.name, Locate[item.name][HereOf(item)], FirstStep(Kind[item.name]))
<1>1. /\ AtImport
      /\ UNCHANGED <<fixed, files, events, ran>>
      /\ frames' = Append(frames, f)
      /\ NoteImport(item.name)
  BY DEF ImportBegin
<1>2. item.name \in Names /\ item.name # Main
  BY <1>1, AtImportProps, Constants
<1>3. f.name = item.name /\ f.at = FirstStep(Kind[item.name])
  BY DEF Frame
<1>4. /\ f.at \in {"resolve", "digest", "source"}
      /\ f.at = "source" => Kind[f.name] # "pkg"
  BY <1>3 DEF FirstStep
<1> HIDE DEF item, f
<1>5. Top' = f
  BY <1>1 DEF Typed, Calls, Top
<1>6. SteadyCall(f, files', nodes', events')
  BY <1>2, <1>3, <1>4 DEF SteadyCall
<1>7. TopSteady'
  BY <1>1, <1>5, <1>6, TopSteadyAfter
<1>8. TraceStays /\ GraphStays
  BY <1>1, SameStays, NodeAppended DEF NoteImport
<1>9. QED
  BY <1>1, <1>7, <1>8, RanStays

LEMMA SteadyOfPackage ==
  ASSUME Typed, Typed', RanSteady, TopSteady, DigestPackage, ~Errs
  PROVE  RanSteady' /\ TopSteady'
<1> DEFINE read == ContentsIn(files, Top.file)
           got == IF read = Absent THEN Unknown ELSE read
<1>1. UNCHANGED <<fixed, files, ran>>
  BY DEF DigestPackage
<1>2. /\ Active /\ Top.name \in Names /\ TopGoes("source")
      /\ Accepted(Top.name, got)
      /\ events' = Append(events, Resolved(Top.name, got))
      /\ NoteCurrent(got)
  BY DigestPackageEffect, ContentsIs DEF Accepted
<1>3. read # Absent => got = read
  OBVIOUS
<1>4. read = ContentsIn(files', Top.file)
  BY <1>1
<1> HIDE DEF read, got
<1>5. TraceStays /\ GraphStays /\ InTrace(events', Top.name, got)
  BY <1>2, EventAppended, NotedStays
<1>6. Top'.name = Top.name /\ Top'.file = Top.file /\ Top'.at = "source"
  BY <1>2, TopAfter
<1>7. SteadyCall(Top', files', nodes', events')
  BY <1>2, <1>3, <1>4, <1>5, <1>6, Constants DEF SteadyCall
<1>8. QED
  BY <1>1, <1>5, <1>7, RanStays, TopSteadyAfter

LEMMA SteadyOfSource ==
  ASSUME Typed, Typed', RanSteady, TopSteady, ReadSource, ~Errs
  PROVE  RanSteady' /\ TopSteady'
<1> DEFINE read == ContentsIn(files, Top.file)
<1>1. UNCHANGED <<fixed, files, nodes, events, ran>>
  BY DEF ReadSource, graph
<1>2. /\ Active /\ Top.at = "source"
      /\ TopGoes(AfterSource(Top))
      /\ frames'[Len(frames)].text = read
      /\ read # Absent
  BY ReadSourceEffect, ContentsIs
<1>3. /\ Top'.name = Top.name /\ Top'.file = Top.file /\ Top'.at = AfterSource(Top)
      /\ Top'.steady = Top.steady
      /\ Top'.text = read
  BY <1>2, TopAfter
<1>4. ASSUME Top.steady
      PROVE  SteadyCall(Top', files, nodes, events)
  <2>1. SteadyCall(Top, files, nodes, events)
    BY <1>2, <1>4 DEF TopSteady
  <2>2. CASE Top.name = Main
    <3>1. AfterSource(Top) = "note"
      BY <2>2, Constants DEF AfterSource
    <3>2. Top.file = Main
      BY <1>2, <2>1, <2>2 DEF SteadyCall
    <3>3. QED
      BY <1>3, <3>1, <3>2 DEF SteadyCall
  <2>3. CASE Top.name \in Names
    <3>1. Top.name # Main /\ Top.name # Prompt
      BY <2>3, Constants
    <3>2. CASE Kind[Top.name] = "pkg"
      <4>1. AfterSource(Top) = "parse"
        BY <3>1, <3>2 DEF AfterSource
      <4>2. InTrace(events, Top.name, read) /\ Accepted(Top.name, read)
        BY <1>2, <2>1, <2>3, <3>2 DEF SteadyCall
      <4>3. QED
        BY <1>3, <3>1, <4>1, <4>2 DEF SteadyCall
    <3>3. CASE Kind[Top.name] # "pkg"
      <4>1. AfterSource(Top) = "check"
        BY <3>1, <3>3 DEF AfterSource
      <4>2. QED
        BY <1>3, <4>1 DEF SteadyCall
    <3>4. QED
      BY <3>2, <3>3
  <2>4. CASE Top.name = Prompt
    <3>1. AfterSource(Top) = "parse" /\ Top.name \notin Names /\ Top.name # Main
      BY <2>4, Constants DEF AfterSource
    <3>2. QED
      BY <1>3, <3>1 DEF SteadyCall
  <2>5. Top.name \in Called
    BY <1>2, TopTyped
  <2>6. QED
    BY <2>2, <2>3, <2>4, <2>5 DEF Called
<1> HIDE DEF read
<1>5. TopSteady'
  BY <1>1, <1>3, <1>4, TopSteadyAfter
<1>6. QED
  BY <1>1, <1>5, SameStays, RanStays

LEMMA SteadyOfProgram ==
  ASSUME Typed, Typed', RanSteady, TopSteady, NoteProgram
  PROVE  RanSteady' /\ TopSteady'
<1>1. UNCHANGED <<fixed, files, events, ran>>
  BY DEF NoteProgram
<1>2. /\ Active /\ Top.at = "note"
      /\ TopGoes("parse")
      /\ frames'[Len(frames)].text = Top.text
  BY NoteProgramEffect
<1>3. /\ Top'.name = Top.name /\ Top'.at = "parse" /\ Top'.steady = Top.steady
      /\ Top'.text = Top.text
  BY <1>2, TopAfter
<1>4. Top.name = Main /\ Top.text # Absent
  BY <1>2, TopTyped, Constants DEF FrameOK
<1> DEFINE node == Node(Main, IF files[Main] = Absent THEN NoEntry ELSE files[Main])
<1>5. nodes' = Append(nodes, node)
  BY DEF NoteProgram
<1>6. GraphStays /\ \E i \in 1 .. Len(nodes') : nodes'[i] = node
  BY <1>5, NodeAppended
<1>7. ASSUME Top.steady
      PROVE  SteadyCall(Top', files', nodes', events')
  <2>1. Top.text = ContentsIn(files, Main)
    BY <1>2, <1>7 DEF TopSteady, SteadyCall
  <2>2. Top.text = files[Main]
    BY <1>4, <2>1 DEF ContentsIn
  <2>3. node = Node(Main, Top.text)
    BY <1>4, <2>2
  <2>4. InGraph(nodes', Top.text)
    BY <1>6, <2>3 DEF InGraph
  <2>5. QED
    BY <1>3, <1>4, <2>4, Constants DEF SteadyCall
<1> HIDE DEF node
<1>8. TopSteady'
  BY <1>1, <1>3, <1>7, TopSteadyAfter
<1>9. QED
  BY <1>1, <1>6, <1>8, SameStays, RanStays

LEMMA SteadyOfCheck ==
  ASSUME Typed, Typed', RanSteady, TopSteady, CheckLock, ~Errs
  PROVE  RanSteady' /\ TopSteady'
<1>1. UNCHANGED <<fixed, files, nodes, events, ran>>
  BY DEF CheckLock, graph
<1>2. /\ Active /\ Top.at = "check"
      /\ TopGoes("trace")
      /\ frames'[Len(frames)].text = Top.text
      /\ Allows(Top.name, ContentsIn(files, Top.file))
  BY CheckLockEffect, ContentsIs
<1>3. /\ Top'.name = Top.name /\ Top'.file = Top.file /\ Top'.at = "trace"
      /\ Top'.steady = Top.steady
      /\ Top'.text = Top.text
  BY <1>2, TopAfter
<1>4. ASSUME Top.steady
      PROVE  SteadyCall(Top', files, nodes, events)
  <2>1. Top.text = ContentsIn(files, Top.file)
    BY <1>2, <1>4 DEF TopSteady, SteadyCall
  <2>2. Accepted(Top.name, Top.text)
    BY <1>2, <2>1 DEF Allows, Accepted
  <2>3. QED
    BY <1>3, <2>1, <2>2 DEF SteadyCall
<1>5. TopSteady'
  BY <1>1, <1>3, <1>4, TopSteadyAfter
<1>6. QED
  BY <1>1, <1>5, SameStays, RanStays

LEMMA SteadyOfTrace ==
  ASSUME Typed, Typed', RanSteady, TopSteady, TraceModule, ~Errs
  PROVE  RanSteady' /\ TopSteady'
<1> DEFINE read == ContentsIn(files, Top.file)
<1>1. UNCHANGED <<fixed, files, nodes, ran>>
  BY DEF TraceModule, graph
<1>2. /\ Active /\ Top.at = "trace" /\ Top.name \in Names
      /\ TopGoes("parse")
      /\ frames'[Len(frames)].text = Top.text
      /\ events' = Append(events, Resolved(Top.name, read))
  BY TraceModuleEffect, ContentsIs
<1>3. /\ Top'.name = Top.name /\ Top'.at = "parse" /\ Top'.steady = Top.steady
      /\ Top'.text = Top.text
  BY <1>2, TopAfter
<1>4. ASSUME Top.steady
      PROVE  Top.text = read /\ Accepted(Top.name, Top.text)
  BY <1>2, <1>4 DEF TopSteady, SteadyCall
<1> HIDE DEF read
<1>5. TraceStays /\ InTrace(events', Top.name, read)
  BY <1>2, EventAppended
<1>6. ASSUME Top.steady
      PROVE  SteadyCall(Top', files', nodes', events')
  BY <1>2, <1>3, <1>4, <1>5, <1>6, Constants DEF SteadyCall
<1>7. TopSteady'
  BY <1>1, <1>3, <1>6, TopSteadyAfter
<1>8. QED
  BY <1>1, <1>5, <1>7, SameStays, RanStays

LEMMA SteadyOfParse ==
  ASSUME Typed, Typed', RanSteady, TopSteady, Parse, ~Errs
  PROVE  RanSteady' /\ TopSteady'
<1>1. UNCHANGED <<fixed, nodes, events>>
  BY DEF Parse, graph
<1>2. /\ Active /\ Top.at = "parse"
      /\ TopGoes("run")
      /\ ran' = ran \union {Evaluated(Top)}
  BY ParseEffect
<1>3. Top'.at = "run"
  BY <1>2, TopAfter
<1>4. TopSteady'
  BY <1>1, <1>3, TopSteadyAfter DEF SteadyCall
<1>5. ASSUME NEW r \in ran', r.steady
      PROVE  /\ r.name = Main => InGraph(nodes, r.text)
             /\ r.name \in Names => InTrace(events, r.name, r.text) /\ Accepted(r.name, r.text)
  <2>1. CASE r \in ran
    BY <1>5, <2>1 DEF RanSteady
  <2>2. CASE r = Evaluated(Top)
    <3>1. r.name = Top.name /\ r.text = Top.text /\ Top.steady
      BY <1>5, <2>2 DEF Evaluated
    <3>2. SteadyCall(Top, files, nodes, events)
      BY <1>2, <3>1 DEF TopSteady
    <3>3. QED
      BY <1>2, <3>1, <3>2 DEF SteadyCall
  <2>3. QED
    BY <1>2, <1>5, <2>1, <2>2
<1>6. RanSteady'
  BY <1>1, <1>5 DEF RanSteady, Accepted, Expected, fixed
<1>7. QED
  BY <1>4, <1>6

LEMMA SteadyOfStep ==
  ASSUME Typed, Typed', RanSteady, TopSteady, Step
  PROVE  RanSteady' /\ TopSteady'
<1>1. CASE Errs /\ (DigestPackage \/ ReadSource \/ CheckLock \/ TraceModule \/ Parse)
  <2>1. Active
    BY <1>1 DEF DigestPackage, ReadSource, CheckLock, TraceModule, Parse, At
  <2>2. UNCHANGED <<fixed, files, nodes, events, ran>>
    BY <1>1 DEF Errs, graph
  <2>3. QED
    BY <1>1, <2>1, <2>2, ErrsCuts, SameStays, RanStays, TopSteadyWhenCut
<1>2. CASE ImportCached
  <2>1. UNCHANGED <<fixed, nodes, events, ran>>
    BY <1>2 DEF ImportCached, graph
  <2>2. frames'[Len(frames')].at = "run"
    BY <1>2, ImportCachedEffect DEF TopGoes
  <2>3. QED
    BY <2>1, <2>2, SameStays, RanStays, TopSteadyWhenRuns
<1>3. CASE LoadStd
  <2>1. Active /\ Top.name \in Names /\ UNCHANGED <<fixed, files, nodes, ran>>
    BY <1>3, AtProps DEF LoadStd, FrameOK, graph
  <2>2. CASE Top.name \in Builtins /\ Allows(Top.name, Top.name)
    <3>1. /\ events' = Append(events, Resolved(Top.name, Top.name))
          /\ frames' = ReturnToCaller
      BY <1>3, <2>2 DEF LoadStd, Resolve
    <3>2. TraceStays
      BY <3>1, EventAppended
    <3>3. TopSteady'
      BY <2>1, <3>1, ReturnEffect, TopSteadyWhenLeaves
    <3>4. QED
      BY <2>1, <3>2, <3>3, SameStays, RanStays
  <2>3. CASE ~(Top.name \in Builtins /\ Allows(Top.name, Top.name))
    <3>1. Fail("std", Top.name) /\ UNCHANGED events
      BY <1>3, <2>3 DEF LoadStd
    <3>2. \E k \in 0 .. Len(frames) : CallsAreCut(k)
      BY <2>1, <3>1, FailCuts
    <3>3. QED
      BY <2>1, <3>1, <3>2, SameStays, RanStays, TopSteadyWhenCut
  <2>4. QED
    BY <2>2, <2>3
<1>4. CASE Return
  <2>1. Active /\ Top.name \in Names /\ UNCHANGED <<fixed, files, nodes, events, ran>>
    BY <1>4 DEF Return, IsModule, graph
  <2>2. TopSteady'
    <3>1. CASE frames' = ReturnToCaller
      BY <2>1, <3>1, ReturnEffect, TopSteadyWhenLeaves
    <3>2. CASE Fail("not a record", Top.name)
      BY <2>1, <3>2, FailCuts, TopSteadyWhenCut
    <3>3. QED
      BY <1>4, <3>1, <3>2 DEF Return
  <2>3. QED
    BY <2>1, <2>2, SameStays, RanStays
<1>5. CASE Finish \/ ImportCycle \/ ItemFails
  <2>1. UNCHANGED <<fixed, files, nodes, events, ran>>
    BY <1>5 DEF Finish, ImportCycle, ItemFails, graph
  <2>2. QED
    BY <1>5, <2>1, EndsCut, SameStays, RanStays, TopSteadyWhenCut
<1>6. CASE ImportBegin \/ NoteProgram
  BY <1>6, SteadyOfImport, SteadyOfProgram
<1>7. CASE ~Errs /\ (DigestPackage \/ ReadSource \/ CheckLock \/ TraceModule \/ Parse)
  BY <1>7, SteadyOfPackage, SteadyOfSource, SteadyOfCheck, SteadyOfTrace, SteadyOfParse
<1>8. QED
  BY <1>1, <1>2, <1>3, <1>4, <1>5, <1>6, <1>7, Zenon DEF Step

LEMMA SteadyOfEdit ==
  ASSUME Typed, Typed', RanSteady, TopSteady, NEW change \in Edits, Edit(change[1], change[2])
  PROVE  RanSteady' /\ TopSteady'
<1>1. UNCHANGED <<fixed, nodes, events, ran>>
  BY DEF Edit, graph
<1>2. files' = [files EXCEPT ![change[1]] = change[2]] /\ files \in [Files -> Texts \union {Absent}]
  BY DEF Edit, Typed, TypeOK
<1>3. ASSUME Active', Top'.steady
      PROVE  SteadyCall(Top', files', nodes, events)
  <2>1. Len(frames') = Len(frames) /\ frames \in Seq(Frames) /\ frames' \in Seq(Frames)
    BY EditedCalls DEF Typed, Calls
  <2>2. Active
    BY <1>3, <2>1 DEF Active
  <2>3. Len(frames) \in 1 .. Len(frames)
    BY <2>2, TopIsLast DEF Typed
  <2>4. /\ Top'.name = Top.name /\ Top'.at = Top.at /\ Top'.file = Top.file
        /\ Top'.text = Top.text
        /\ Top'.steady = (Top.steady /\ Top.file # change[1])
    BY <2>1, <2>3, EditedCalls DEF Top
  <2>5. Top.steady /\ Top.file # change[1]
    BY <1>3, <2>4
  <2>6. SteadyCall(Top, files, nodes, events)
    BY <2>2, <2>5 DEF TopSteady
  <2>7. Top.file \in Files \union {Nowhere}
    BY <2>2, TopTyped
  <2>8. ContentsIn(files', Top.file) = ContentsIn(files, Top.file)
    BY <1>2, <2>5, <2>7 DEF ContentsIn
  <2>9. QED
    BY <2>4, <2>6, <2>8 DEF SteadyCall
<1>4. TopSteady'
  BY <1>1, <1>3, TopSteadyAfter
<1>5. QED
  BY <1>1, <1>4, SameStays, RanStays

\* As long as nobody changes a module's file while it is loaded, the text
\* that is evaluated is the one in the trace, and the one the lock file asks
\* for; the same holds of the program and the module graph.
THEOREM LoaderTracesSteadyLoads == Spec => []SteadyLoadsAreTraced
<1> DEFINE Inv == Typed /\ RanSteady /\ TopSteady
<1>1. Init => Inv
  <2>1. SUFFICES ASSUME Init
                 PROVE  RanSteady /\ TopSteady
    BY InitTyped
  <2>2. RanSteady
    BY <2>1 DEF Init, RanSteady
  <2>3. \A n : LET f == Frame(n, Main, "source") IN f.name = n /\ f.file = Main /\ f.at = "source"
    BY DEF Frame
  <2>4. frames = <<>> \/ \E f : /\ frames = <<f>>
                                /\ f.name \in {Main, Prompt} /\ f.file = Main /\ f.at = "source"
    BY <2>1, <2>3, Zenon DEF Init
  <2>5. TopSteady
    <3>1. CASE frames = <<>>
      BY <3>1 DEF TopSteady, Active
    <3>2. ASSUME NEW f, frames = <<f>>, f.name \in {Main, Prompt}, f.file = Main, f.at = "source"
          PROVE  TopSteady
      <4>1. Top = f
        BY <3>2 DEF Top
      <4>2. SteadyCall(f, files, nodes, events)
        BY <3>2, Constants DEF SteadyCall
      <4>3. QED
        BY <4>1, <4>2 DEF TopSteady
    <3>3. QED
      BY <2>4, <3>1, <3>2
  <2>6. QED
    BY <2>2, <2>5
<1>2. Inv /\ [Next]_vars => Inv'
  <2>1. SUFFICES ASSUME Typed, RanSteady, TopSteady, [Next]_vars
                 PROVE  Typed' /\ RanSteady' /\ TopSteady'
    OBVIOUS
  <2>2. Typed'
    BY <2>1, StepTyped
  <2>3. CASE Step
    BY <2>1, <2>2, <2>3, SteadyOfStep
  <2>4. CASE UNCHANGED vars
    <3>1. UNCHANGED <<fixed, files, nodes, frames, events, ran>>
      BY <2>4 DEF vars, graph
    <3>2. RanSteady'
      BY <2>1, <3>1, SameStays, RanStays
    <3>3. TopSteady'
      BY <2>1, <3>1 DEF TopSteady, Active, Top, SteadyCall, Accepted, Expected, fixed
    <3>4. QED
      BY <2>2, <3>2, <3>3
  <2>5. CASE Reset
    <3>1. ran' = {} /\ frames' = <<>>
      BY <2>5 DEF Reset, Active
    <3>2. QED
      BY <2>2, <3>1, TopSteadyWhenRuns DEF RanSteady
  <2>6. ASSUME NEW items \in Lines, Line(items)
        PROVE  RanSteady' /\ TopSteady'
    <3> DEFINE f == [Frame(Prompt, Nowhere, "run") EXCEPT !.items = items]
    <3>1. UNCHANGED <<fixed, nodes, events, ran>> /\ frames' = <<f>>
      BY <2>6 DEF Line, graph
    <3>2. f.at = "run"
      BY DEF Frame
    <3> HIDE DEF f
    <3>3. frames'[Len(frames')].at = "run"
      BY <3>1, <3>2
    <3>4. QED
      BY <2>1, <3>1, <3>3, SameStays, RanStays, TopSteadyWhenRuns
  <2>7. ASSUME NEW change \in Edits, Edit(change[1], change[2])
        PROVE  RanSteady' /\ TopSteady'
    BY <2>1, <2>2, <2>7, SteadyOfEdit
  <2>8. QED
    BY <2>1, <2>2, <2>3, <2>4, <2>5, <2>6, <2>7 DEF Next
<1>3. Inv => SteadyLoadsAreTraced
  BY RanSteadyIs
<1>4. QED
  BY <1>1, <1>2, <1>3, PTL DEF Spec

-----------------------------------------------------------------------------
(* What the cache says of imports *)

Needed == {"import", "eval"}

\* A call that evaluates the text of a module has loaded what the text needs,
\* but for what is still ahead.
ImportsOK(f, rs, c) ==
  f.name \in Names /\ f.at = "run" =>
    /\ \E r \in rs : r.name = f.name /\ r.text = f.text
    /\ NamesIn(f.items, Loads) \subseteq ImportsOf(f.text)
    /\ \A n \in NeedsOf(f.text) : c[n] # NotCached \/ n \in NamesIn(f.items, Needed)

CallsImport == \A i \in 1 .. Len(frames) : ImportsOK(frames[i], ran, cache)

\* The cache holds the texts of modules.
Exported == \A n \in Names : cache[n] # NotCached /\ Kind[n] # "std" => cache[n] \in Texts

CacheOK == CacheIsClosed /\ Exported

LEMMA NamesInTail ==
  ASSUME NEW items \in Seq(Items), items # <<>>, NEW do
  PROVE  /\ NamesIn(Tail(items), do) \subseteq NamesIn(items, do)
         /\ Head(items).do \in do => Head(items).name \in NamesIn(items, do)
         /\ \A n \in NamesIn(items, do) : n = Head(items).name \/ n \in NamesIn(Tail(items), do)
<1>1. /\ Len(items) \in Nat /\ Len(items) >= 1
      /\ DOMAIN items = 1 .. Len(items)
      /\ DOMAIN Tail(items) = 1 .. Len(items) - 1
      /\ \A i \in 1 .. Len(items) - 1 : Tail(items)[i] = items[i + 1]
      /\ Head(items) = items[1]
  OBVIOUS
<1>2. NamesIn(Tail(items), do) \subseteq NamesIn(items, do)
  <2>1. SUFFICES ASSUME NEW i \in DOMAIN Tail(items), Tail(items)[i].do \in do
                 PROVE  Tail(items)[i].name \in NamesIn(items, do)
    BY DEF NamesIn
  <2>2. i + 1 \in DOMAIN items /\ Tail(items)[i] = items[i + 1]
    BY <1>1
  <2>3. QED
    BY <2>1, <2>2 DEF NamesIn
<1>3. Head(items).do \in do => Head(items).name \in NamesIn(items, do)
  <2>1. 1 \in DOMAIN items
    BY <1>1
  <2>2. QED
    BY <1>1, <2>1 DEF NamesIn
<1>4. ASSUME NEW n \in NamesIn(items, do), n # Head(items).name
      PROVE  n \in NamesIn(Tail(items), do)
  <2>1. PICK i \in DOMAIN items : items[i].do \in do /\ items[i].name = n
    BY <1>4 DEF NamesIn
  <2>2. i # 1
    BY <1>1, <1>4, <2>1
  <2>3. i - 1 \in DOMAIN Tail(items) /\ Tail(items)[i - 1] = items[i]
    BY <1>1, <2>2
  <2>4. QED
    BY <2>1, <2>3 DEF NamesIn
<1>5. QED
  BY <1>2, <1>3, <1>4

\* A call that catches an error skips loads of the same call only.
LEMMA NamesInRest ==
  ASSUME NEW items \in Seq(Items), NEW n \in 1 .. Len(items), NEW do
  PROVE  /\ NamesIn(SubSeq(items, n + 1, Len(items)), do) \subseteq NamesIn(items, do)
         /\ SameCall(items, n) /\ Head(items).do \notin do =>
              NamesIn(items, do) \subseteq NamesIn(SubSeq(items, n + 1, Len(items)), do)
<1> DEFINE rest == SubSeq(items, n + 1, Len(items))
<1>1. /\ Len(items) \in Nat /\ n \in Nat /\ n <= Len(items)
      /\ DOMAIN items = 1 .. Len(items)
  OBVIOUS
<1>2. /\ DOMAIN rest = 1 .. Len(items) - n
      /\ \A i \in 1 .. Len(items) - n : rest[i] = items[i + n]
  <2>1. /\ Len(items) \in Int /\ n + 1 \in Int
        /\ \A i \in n + 1 .. Len(items) : items[i] \in Items
    BY <1>1
  <2>2. /\ rest \in Seq(Items)
        /\ Len(rest) = IF n + 1 <= Len(items) THEN Len(items) - (n + 1) + 1 ELSE 0
        /\ \A i \in 1 .. Len(items) - (n + 1) + 1 : rest[i] = items[n + 1 + i - 1]
    BY <2>1, SubSeqProperties
  <2> HIDE DEF rest
  <2>3. Len(rest) = Len(items) - n /\ DOMAIN rest = 1 .. Len(rest)
    BY <1>1, <2>2, LenProperties
  <2>4. \A i \in 1 .. Len(items) - n : i \in 1 .. Len(items) - (n + 1) + 1 /\ n + 1 + i - 1 = i + n
    BY <1>1
  <2>5. QED
    BY <2>2, <2>3, <2>4
<1> HIDE DEF rest
<1>3. NamesIn(rest, do) \subseteq NamesIn(items, do)
  <2>1. SUFFICES ASSUME NEW i \in DOMAIN rest, rest[i].do \in do
                 PROVE  rest[i].name \in NamesIn(items, do)
    BY DEF NamesIn
  <2>2. i + n \in DOMAIN items /\ rest[i] = items[i + n]
    BY <1>1, <1>2
  <2>3. QED
    BY <2>1, <2>2 DEF NamesIn
<1>4. ASSUME SameCall(items, n), Head(items).do \notin do, NEW m \in NamesIn(items, do)
      PROVE  m \in NamesIn(rest, do)
  <2>1. PICK i \in DOMAIN items : items[i].do \in do /\ items[i].name = m
    BY <1>4 DEF NamesIn
  <2>2. i \notin 1 .. n
    BY <1>4, <2>1 DEF SameCall
  <2>3. i - n \in DOMAIN rest /\ rest[i - n] = items[i]
    BY <1>1, <1>2, <2>2
  <2>4. QED
    BY <2>1, <2>3 DEF NamesIn
<1>5. QED
  BY <1>3, <1>4 DEF rest

LEMMA NamesInNone ==
  ASSUME NEW items \in Seq(Items), NEW do \in SUBSET Loads
  PROVE  /\ NamesIn(items, do) \subseteq Names
         /\ items = <<>> => NamesIn(items, do) = {}
<1>1. \A i \in DOMAIN items : items[i] \in Items
  OBVIOUS
<1>2. \A i \in DOMAIN items : items[i].do \in Loads => items[i].name \in Names
  BY <1>1 DEF Items, Loads
<1>3. items = <<>> => DOMAIN items = {}
  OBVIOUS
<1>4. QED
  BY <1>2, <1>3 DEF NamesIn

LEMMA ImportsAreNames ==
  ASSUME NEW text \in Texts
  PROVE  ImportsOf(text) \subseteq Names /\ NeedsOf(text) \subseteq Names
<1>1. Source[text].items \in Seq(Items)
  BY Constants
<1>2. Loads \in SUBSET Loads /\ {"import", "eval"} \in SUBSET Loads
  BY DEF Loads
<1>3. QED
  BY <1>1, <1>2, NamesInNone DEF ImportsOf, NeedsOf

\* A call is as before.
LEMMA ImportsStay ==
  ASSUME NEW f, NEW g, NEW rs, NEW ss, NEW c, NEW d,
         ImportsOK(f, rs, c), g.name = f.name, g.at = f.at, g.text = f.text, g.items = f.items,
         rs \subseteq ss,
         f.name \in Names /\ f.at = "run" => f.text \in Texts,
         \A n \in Names : c[n] # NotCached => d[n] # NotCached
  PROVE  ImportsOK(g, ss, d)
<1>1. f.name \in Names /\ f.at = "run" => NeedsOf(f.text) \subseteq Names
  BY ImportsAreNames
<1>2. QED
  BY <1>1 DEF ImportsOK

\* A call whose first import is in the cache goes on.
LEMMA ImportsGoOn ==
  ASSUME NEW f \in Frames, NEW g, NEW rs, NEW c, NEW d,
         ImportsOK(f, rs, c), g.name = f.name, g.at = f.at, g.text = f.text,
         g.items = Tail(f.items), f.items # <<>>, FrameOK(f),
         d[Head(f.items).name] # NotCached,
         \A n \in Names : c[n] # NotCached => d[n] # NotCached
  PROVE  ImportsOK(g, rs, d)
<1>1. f.items \in Seq(Items)
  BY DEF Frames
<1>2. /\ NamesIn(g.items, Loads) \subseteq NamesIn(f.items, Loads)
      /\ \A n \in NamesIn(f.items, Needed) : n = Head(f.items).name \/ n \in NamesIn(g.items, Needed)
  BY <1>1, NamesInTail
<1>3. f.name \in Names /\ f.at = "run" => NeedsOf(f.text) \subseteq Names
  BY ImportsAreNames DEF FrameOK
<1>4. QED
  BY <1>2, <1>3 DEF ImportsOK

\* A call that has caught an error goes on.
LEMMA ImportsOfCaught ==
  ASSUME NEW f \in Frames, NEW n \in 1 .. Len(f.items), FrameOK(f), NEW rs, NEW c,
         ImportsOK(f, rs, c), SameCall(f.items, n), Head(f.items).do \in {"try", "serve"}
  PROVE  ImportsOK(Rest(f, n), rs, c)
<1>1. f.items \in Seq(Items)
  BY DEF Frames
<1>2. /\ Rest(f, n).name = f.name /\ Rest(f, n).at = f.at /\ Rest(f, n).text = f.text
      /\ Rest(f, n).items = SubSeq(f.items, n + 1, Len(f.items))
  BY RestProps
<1>3. Head(f.items).do \notin Needed
  BY DEF Needed
<1>4. /\ NamesIn(Rest(f, n).items, Loads) \subseteq NamesIn(f.items, Loads)
      /\ NamesIn(f.items, Needed) \subseteq NamesIn(Rest(f, n).items, Needed)
  BY <1>1, <1>2, <1>3, NamesInRest
<1>5. QED
  BY <1>2, <1>4 DEF ImportsOK

\* What is cached stays in the cache until it is emptied.
CacheGrows == \A n \in Names : cache[n] # NotCached => cache'[n] # NotCached

Same(g, f) == g.name = f.name /\ g.at = f.at /\ g.text = f.text /\ g.items = f.items

LEMMA CallOK ==
  ASSUME Typed, NEW i \in 1 .. Len(frames)
  PROVE  frames[i] \in Frames /\ FrameOK(frames[i])
<1>1. frames \in Seq(Frames)
  BY DEF Typed, TypeOK
<1>2. QED
  BY <1>1, ElementOfSeq DEF Typed, Calls

\* The calls below keep what they have loaded.
LEMMA CallsBelowImport ==
  ASSUME Typed, CallsImport, NEW k \in Nat, k <= Len(frames),
         \A i \in 1 .. k : Same(frames'[i], frames[i]),
         ran \subseteq ran', CacheGrows
  PROVE  \A i \in 1 .. k : ImportsOK(frames'[i], ran', cache')
<1>1. SUFFICES ASSUME NEW i \in 1 .. k
               PROVE  ImportsOK(frames'[i], ran', cache')
  OBVIOUS
<1>2. Len(frames) \in Nat
  BY DEF Typed, Calls
<1>3. i \in 1 .. Len(frames)
  BY <1>2
<1>4. ImportsOK(frames[i], ran, cache) /\ FrameOK(frames[i])
  BY <1>3, CallOK DEF CallsImport
<1>5. frames[i].name \in Names /\ frames[i].at = "run" => frames[i].text \in Texts
  BY <1>4 DEF FrameOK
<1>6. Same(frames'[i], frames[i])
  OBVIOUS
<1>7. QED
  BY <1>4, <1>5, <1>6, ImportsStay DEF Same, CacheGrows

LEMMA ClosedStays ==
  ASSUME CacheOK, UNCHANGED cache
  PROVE  CacheOK'
  BY DEF CacheOK, CacheIsClosed, Exported, Cached

\* An error leaves every call, or all above the one that catches it.
LEMMA ImportsWhenFails ==
  ASSUME Typed, CallsImport, CacheOK, Active, NEW why, NEW name, Fail(why, name),
         UNCHANGED ran
  PROVE  CallsImport' /\ CacheOK'
<1>1. cache' = cache
  BY FailCases
<1>2. ASSUME frames' = <<>>
      PROVE  CallsImport'
  <2>1. 1 .. Len(frames') = {}
    BY <1>2
  <2>2. QED
    BY <2>1 DEF CallsImport
<1>3. ASSUME NEW k \in 1 .. Len(frames), NEW n \in 1 .. Len(frames[k].items), Caught(k, n)
      PROVE  CallsImport'
  <2>1. /\ Len(frames') = k
        /\ frames'[k] = Rest(frames[k], n)
        /\ \A i \in 1 .. k - 1 : frames'[i] = frames[i]
    BY <1>3, CallsCut DEF Caught, Typed
  <2>2. ImportsOK(Rest(frames[k], n), ran, cache)
    <3>1. frames[k] \in Frames /\ FrameOK(frames[k]) /\ ImportsOK(frames[k], ran, cache)
      BY CallOK DEF CallsImport
    <3>2. QED
      BY <1>3, <3>1, ImportsOfCaught DEF Caught
  <2>3. /\ Len(frames) \in Nat /\ k \in Nat
        /\ \A i \in 1 .. k : (i \in 1 .. k - 1 /\ i \in 1 .. Len(frames)) \/ i = k
    BY DEF Typed, Calls
  <2>4. \A i \in 1 .. Len(frames') : ImportsOK(frames'[i], ran', cache')
    BY <1>1, <2>1, <2>2, <2>3 DEF CallsImport
  <2>5. QED
    BY <2>4 DEF CallsImport
<1>4. CallsImport'
  BY <1>2, <1>3, FailCases, Zenon
<1>5. QED
  BY <1>1, <1>4, ClosedStays

\* The innermost call goes on.
LEMMA ImportsWhenTopGoes ==
  ASSUME Typed, CallsImport, Active, Len(frames') = Len(frames),
         \A i \in 1 .. Len(frames) - 1 : frames'[i] = frames[i],
         ImportsOK(frames'[Len(frames)], ran', cache'),
         ran \subseteq ran', UNCHANGED cache
  PROVE  CallsImport'
<1>1. Len(frames) \in Nat /\ Len(frames) \in 1 .. Len(frames)
  BY TopIsLast DEF Typed
<1>2. Len(frames) - 1 \in Nat /\ Len(frames) - 1 <= Len(frames)
  BY <1>1
<1>3. CacheGrows
  BY DEF CacheGrows
<1>4. \A i \in 1 .. Len(frames) - 1 : Same(frames'[i], frames[i])
  BY DEF Same
<1>5. \A i \in 1 .. Len(frames) - 1 : ImportsOK(frames'[i], ran', cache')
  BY <1>2, <1>3, <1>4, CallsBelowImport
<1>6. \A i \in 1 .. Len(frames) : i \in 1 .. Len(frames) - 1 \/ i = Len(frames)
  BY <1>1
<1>7. \A i \in 1 .. Len(frames') : ImportsOK(frames'[i], ran', cache')
  BY <1>5, <1>6
<1>8. QED
  BY <1>7 DEF CallsImport

\* It goes on without evaluating anything.
LEMMA ImportsWhenTopLoads ==
  ASSUME Typed, CallsImport, CacheOK, Active, NEW at, TopGoes(at),
         Top.at # "run", at # "run", UNCHANGED <<cache, ran>>
  PROVE  CallsImport' /\ CacheOK'
<1>1. CacheOK'
  BY DEF CacheOK, CacheIsClosed, Exported, Cached
<1>2. ImportsOK(Top, ran, cache)
  BY TopIsLast DEF Typed, CallsImport, Top
<1>3. ImportsOK(frames'[Len(frames)], ran', cache')
  BY <1>2 DEF TopGoes, ImportsOK
<1>4. CallsImport'
  BY <1>3, ImportsWhenTopGoes DEF TopGoes
<1>5. QED
  BY <1>1, <1>4

LEMMA ImportsOfCached ==
  ASSUME Typed, Typed', CallsImport, CacheOK, ImportCached
  PROVE  CallsImport' /\ CacheOK'
<1>1. /\ Active /\ Top \in Frames /\ FrameOK(Top) /\ Top.items # <<>>
  BY AtItemProps DEF ImportCached, AtImport
<1>2. /\ cache[Head(Top.items).name] # NotCached
      /\ frames' = SetTop(ItemDone(Top))
      /\ UNCHANGED <<cache, ran>>
  BY DEF ImportCached
<1>3. /\ Len(frames') = Len(frames)
      /\ \A i \in 1 .. Len(frames) - 1 : frames'[i] = frames[i]
      /\ frames'[Len(frames)] = ItemDone(Top)
  BY <1>1, <1>2, SetEffect
<1>4. ImportsOK(Top, ran, cache)
  BY <1>1, TopIsLast DEF Typed, CallsImport, Top
<1>5. ImportsOK(ItemDone(Top), ran, cache)
  BY <1>1, <1>2, <1>4, ItemDoneProps, ImportsGoOn
<1>6. CallsImport'
  BY <1>1, <1>2, <1>3, <1>5, ImportsWhenTopGoes
<1>7. CacheOK'
  BY <1>2 DEF CacheOK, CacheIsClosed, Exported, Cached
<1>8. QED
  BY <1>6, <1>7

LEMMA ImportsOfParse ==
  ASSUME Typed, Typed', CallsImport, CacheOK, Parse, ~Errs
  PROVE  CallsImport' /\ CacheOK'
<1> DEFINE f == [Top EXCEPT !.at = "run", !.here = DirOf[Top.file],
                              !.items = Source[Top.text].items]
<1>1. Active /\ Top \in Frames /\ Top.at = "parse" /\ FrameOK(Top)
  BY AtProps DEF Parse
<1>2. /\ frames' = SetTop(f)
      /\ ran' = ran \union {Evaluated(Top)}
      /\ UNCHANGED cache
  BY DEF Parse, Errs, graph, told
<1>3. /\ f.name = Top.name /\ f.at = "run" /\ f.text = Top.text
      /\ f.items = Source[Top.text].items
  BY <1>1, RecordSet
<1> HIDE DEF f
<1>4. /\ Len(frames') = Len(frames)
      /\ \A i \in 1 .. Len(frames) - 1 : frames'[i] = frames[i]
      /\ frames'[Len(frames)] = f
  BY <1>1, <1>2, SetEffect
<1>5. ImportsOK(Top, ran, cache) /\ Top.text \in Texts
  BY <1>1, TopIsLast DEF Typed, CallsImport, Top, FrameOK
<1>6. Evaluated(Top).name = Top.name /\ Evaluated(Top).text = Top.text
  BY DEF Evaluated
<1>7. ImportsOK(f, ran', cache')
  BY <1>2, <1>3, <1>6 DEF ImportsOK, ImportsOf, NeedsOf, Needed
<1>8. CallsImport'
  BY <1>1, <1>2, <1>4, <1>7, ImportsWhenTopGoes
<1>9. QED
  BY <1>2, <1>8, ClosedStays

LEMMA ImportsOfBegin ==
  ASSUME Typed, Typed', CallsImport, CacheOK, ImportBegin
  PROVE  CallsImport' /\ CacheOK'
<1> DEFINE item == Head(Top.items)
           f == Frame(item.name, Locate[item.name][HereOf(item)], FirstStep(Kind[item.name]))
<1>1. AtImport /\ UNCHANGED <<cache, ran>>
  BY DEF ImportBegin
<1>2. frames' = Append(frames, f)
  BY DEF ImportBegin
<1>3. f.at # "run"
  BY DEF Frame, FirstStep
<1> HIDE DEF item, f
<1>4. ImportsOK(f, ran', cache')
  BY <1>3 DEF ImportsOK
<1>5. frames \in Seq(Frames) /\ Len(frames) \in Nat
  BY DEF Typed, Calls
<1>6. /\ Len(frames') = Len(frames) + 1
      /\ \A i \in 1 .. Len(frames) : frames'[i] = frames[i]
      /\ frames'[Len(frames) + 1] = f
  BY <1>2, <1>5
<1>7. \A i \in 1 .. Len(frames') : i \in 1 .. Len(frames) \/ i = Len(frames) + 1
  BY <1>5, <1>6
<1>8. CallsImport'
  BY <1>1, <1>4, <1>6, <1>7 DEF CallsImport
<1>9. QED
  BY <1>1, <1>8, ClosedStays

\* The caller of a module that returns has one import less ahead.
LEMMA ImportsWhenCallReturns ==
  ASSUME Typed, CallsImport, CacheOK, Active, Top.name \in Names,
         frames' = ReturnToCaller, UNCHANGED ran, NEW exports, exports # NotCached,
         cache' = [cache EXCEPT ![Top.name] = exports],
         Kind[Top.name] # "std" => exports \in Texts /\ \A n \in NeedsOf(exports) : Cached(n)
  PROVE  CallsImport' /\ CacheOK'
<1> DEFINE k == Len(frames) - 1
           caller == frames[k]
<1>1. /\ Len(frames) > 1
      /\ Len(frames') = k
      /\ frames'[k] = ItemDone(caller)
      /\ \A i \in 1 .. Len(frames) - 2 : frames'[i] = frames[i]
      /\ Waiting(caller, Top)
  BY CallsPop DEF Typed
<1>2. Len(frames) \in Nat
  BY DEF Typed, Calls
<1>3. /\ k \in 1 .. Len(frames)
      /\ Len(frames) - 2 \in Nat /\ Len(frames) - 2 <= Len(frames)
      /\ \A i \in 1 .. k : i \in 1 .. Len(frames) - 2 \/ i = k
  BY <1>1, <1>2
<1>4. cache'[Top.name] = exports /\ \A n \in Names \ {Top.name} : cache'[n] = cache[n]
  BY DEF Typed, TypeOK
<1>5. CacheGrows
  BY <1>4 DEF CacheGrows
<1>6. \A i \in 1 .. Len(frames) - 2 : ImportsOK(frames'[i], ran', cache')
  <2>1. \A i \in 1 .. Len(frames) - 2 : Same(frames'[i], frames[i])
    BY <1>1 DEF Same
  <2>2. QED
    BY <1>3, <1>5, <2>1, CallsBelowImport
<1>7. ImportsOK(ItemDone(caller), ran', cache')
  <2>1. caller \in Frames /\ FrameOK(caller) /\ ImportsOK(caller, ran, cache)
    BY <1>3, CallOK DEF CallsImport
  <2>2. caller.items # <<>> /\ Head(caller.items).name = Top.name
    BY <1>1 DEF Waiting
  <2>3. cache'[Head(caller.items).name] # NotCached
    BY <1>4, <2>2
  <2> HIDE DEF caller
  <2>4. /\ ItemDone(caller).name = caller.name
        /\ ItemDone(caller).at = caller.at
        /\ ItemDone(caller).text = caller.text
        /\ ItemDone(caller).items = Tail(caller.items)
    BY <2>1, <2>2, ItemDoneProps
  <2>5. \A n \in Names : cache[n] # NotCached => cache'[n] # NotCached
    BY <1>5 DEF CacheGrows
  <2>6. ImportsOK(ItemDone(caller), ran, cache')
    BY <2>1, <2>2, <2>3, <2>4, <2>5, ImportsGoOn
  <2>7. QED
    BY <2>6
<1>8. CallsImport'
  BY <1>1, <1>3, <1>6, <1>7 DEF CallsImport
<1>9. ASSUME NEW m \in Names, cache'[m] # NotCached, Kind[m] # "std", NEW n \in NeedsOf(cache'[m])
      PROVE  cache'[n] # NotCached
  <2>1. Cached(n) /\ cache'[m] \in Texts
    <3>1. CASE m = Top.name
      BY <1>4, <1>9, <3>1
    <3>2. CASE m # Top.name
      <4>1. cache'[m] = cache[m]
        BY <1>4, <3>2
      <4>2. Cached(m)
        BY <1>9, <4>1 DEF Cached
      <4>3. QED
        BY <1>9, <4>1, <4>2 DEF CacheOK, CacheIsClosed, Exported, Cached
    <3>3. QED
      BY <3>1, <3>2
  <2>2. n \in Names
    BY <1>9, <2>1, ImportsAreNames
  <2>3. QED
    BY <1>5, <2>1, <2>2 DEF CacheGrows, Cached
<1>10. CacheIsClosed'
  BY <1>9 DEF CacheIsClosed, Cached
<1>11. Exported'
  <2>1. SUFFICES ASSUME NEW m \in Names, cache'[m] # NotCached, Kind[m] # "std"
                 PROVE  cache'[m] \in Texts
    BY DEF Exported
  <2>2. m # Top.name => cache'[m] = cache[m]
    BY <1>4
  <2>3. QED
    BY <1>4, <2>1, <2>2 DEF CacheOK, Exported
<1>12. QED
  BY <1>8, <1>10, <1>11 DEF CacheOK

LEMMA ImportsOfStd ==
  ASSUME Typed, Typed', CallsImport, CacheOK, LoadStd
  PROVE  CallsImport' /\ CacheOK'
<1>1. /\ Active /\ Top.name \in Names /\ Kind[Top.name] = "std" /\ UNCHANGED ran
  BY AtProps DEF LoadStd, FrameOK
<1>2. CASE Top.name \in Builtins /\ Allows(Top.name, Top.name)
  <2>1. /\ cache' = [cache EXCEPT ![Top.name] = Top.name]
        /\ frames' = ReturnToCaller
    BY <1>2 DEF LoadStd
  <2>2. Top.name # NotCached
    BY <1>1, LoaderAssumption
  <2>3. QED
    BY <1>1, <2>1, <2>2, ImportsWhenCallReturns
<1>3. CASE ~(Top.name \in Builtins /\ Allows(Top.name, Top.name))
  <2>1. Fail("std", Top.name)
    BY <1>3 DEF LoadStd
  <2>2. QED
    BY <1>1, <2>1, ImportsWhenFails
<1>4. QED
  BY <1>2, <1>3

LEMMA ImportsOfReturn ==
  ASSUME Typed, Typed', CallsImport, CacheOK, Return
  PROVE  CallsImport' /\ CacheOK'
<1>1. /\ Active /\ Top.name \in Names /\ Top.at = "run" /\ Top.items = <<>>
      /\ UNCHANGED ran
  BY DEF Return, IsModule
<1>2. CASE Source[Top.text].record
  <2>1. /\ cache' = [cache EXCEPT ![Top.name] = Top.text]
        /\ frames' = ReturnToCaller
    BY <1>2 DEF Return
  <2>2. Top.text \in Texts /\ Top.items \in Seq(Items)
    BY <1>1, TopTyped DEF FrameOK
  <2>3. Top.text # NotCached
    BY <2>2, LoaderAssumption
  <2>4. ImportsOK(Top, ran, cache)
    BY <1>1, TopIsLast DEF Typed, CallsImport, Top
  <2>5. NamesIn(Top.items, Needed) = {}
    <3>1. Needed \in SUBSET Loads
      BY DEF Needed, Loads
    <3>2. QED
      BY <1>1, <2>2, <3>1, NamesInNone
  <2>6. \A n \in NeedsOf(Top.text) : Cached(n)
    BY <1>1, <2>4, <2>5 DEF ImportsOK, Cached
  <2>7. QED
    BY <1>1, <2>1, <2>2, <2>3, <2>6, ImportsWhenCallReturns
<1>3. CASE ~Source[Top.text].record
  <2>1. Fail("not a record", Top.name)
    BY <1>3 DEF Return
  <2>2. QED
    BY <1>1, <2>1, ImportsWhenFails
<1>4. QED
  BY <1>2, <1>3

LEMMA ImportsOfStep ==
  ASSUME Typed, Typed', CallsImport, CacheOK, Step
  PROVE  CallsImport' /\ CacheOK'
<1>1. CASE Finish \/ ImportCycle \/ ItemFails
  <2>1. CASE Finish
    <3>1. frames' = <<>> /\ UNCHANGED cache
      BY <2>1 DEF Finish
    <3>2. CallsImport'
      BY <3>1 DEF CallsImport
    <3>3. QED
      BY <3>1, <3>2, ClosedStays
  <2>2. CASE ImportCycle
    BY <2>2, AtItemProps, ImportsWhenFails, Zenon DEF ImportCycle, AtImport
  <2>3. CASE ItemFails
    BY <2>3, AtItemProps, ImportsWhenFails, Zenon DEF ItemFails
  <2>4. QED
    BY <1>1, <2>1, <2>2, <2>3
<1>2. CASE ImportCached
  BY <1>2, ImportsOfCached
<1>3. CASE ImportBegin
  BY <1>3, ImportsOfBegin
<1>4. CASE LoadStd
  BY <1>4, ImportsOfStd
<1>5. CASE Return
  BY <1>5, ImportsOfReturn
<1>6. CASE Errs /\ (DigestPackage \/ ReadSource \/ CheckLock \/ TraceModule \/ Parse)
  <2>1. Active
    BY <1>6 DEF DigestPackage, ReadSource, CheckLock, TraceModule, Parse, At
  <2>2. QED
    BY <1>6, <2>1, ImportsWhenFails, Zenon DEF Errs
<1>7. CASE ~Errs /\ Parse
  BY <1>7, ImportsOfParse
<1>8. CASE ~Errs /\ DigestPackage
  <2>1. Active /\ Top.at = "digest" /\ TopGoes("source") /\ UNCHANGED <<cache, ran>>
    BY <1>8, DigestPackageEffect DEF DigestPackage
  <2>2. QED
    BY <2>1, ImportsWhenTopLoads
<1>9. CASE ~Errs /\ ReadSource
  <2>1. Active /\ Top.at = "source" /\ TopGoes(AfterSource(Top)) /\ UNCHANGED <<cache, ran>>
    BY <1>9, ReadSourceEffect DEF ReadSource
  <2>2. AfterSource(Top) # "run"
    BY DEF AfterSource
  <2>3. QED
    BY <2>1, <2>2, ImportsWhenTopLoads
<1>10. CASE ~Errs /\ CheckLock
  <2>1. Active /\ Top.at = "check" /\ TopGoes("trace") /\ UNCHANGED <<cache, ran>>
    BY <1>10, CheckLockEffect DEF CheckLock
  <2>2. QED
    BY <2>1, ImportsWhenTopLoads
<1>11. CASE ~Errs /\ TraceModule
  <2>1. Active /\ Top.at = "trace" /\ TopGoes("parse") /\ UNCHANGED <<cache, ran>>
    BY <1>11, TraceModuleEffect DEF TraceModule
  <2>2. QED
    BY <2>1, ImportsWhenTopLoads
<1>12. CASE NoteProgram
  <2>1. Active /\ Top.at = "note" /\ TopGoes("parse") /\ UNCHANGED <<cache, ran>>
    BY <1>12, NoteProgramEffect DEF NoteProgram
  <2>2. QED
    BY <2>1, ImportsWhenTopLoads
<1>13. QED
  BY <1>1, <1>2, <1>3, <1>4, <1>5, <1>6, <1>7, <1>8, <1>9, <1>10, <1>11, <1>12, Zenon DEF Step

-----------------------------------------------------------------------------
(* Cycles *)

LEMMA LeastNatural ==
  ASSUME NEW T, T \subseteq Nat, T # {}
  PROVE  \E m \in T : \A k \in T : m <= k
<1> DEFINE R == OpToRel(<, Nat)
<1>1. IsWellFoundedOn(R, Nat)
  BY NatLessThanWellFounded
<1>2. \A x, y \in Nat : x < y => <<x, y>> \in R
  BY DEF OpToRel
<1> HIDE DEF R
<1>3. PICK m \in T : \A k \in T : <<k, m>> \notin R
  BY <1>1, WFMin
<1>4. ASSUME NEW k \in T
      PROVE  m <= k
  <2>1. m \in Nat /\ k \in Nat
    OBVIOUS
  <2>2. ~(k < m)
    BY <1>2, <1>3, <2>1
  <2>3. QED
    BY <2>1, <2>2
<1>5. QED
  BY <1>4

\* A set with everything that name, and what is in the set, imports.
Closed(S, name) == \A r \in ran : r.name \in S \union {name} => ImportsOf(r.text) \subseteq S

\* What a call of such a module is about to import is in the set.
LEMMA NextImport ==
  ASSUME NEW f \in Frames, ImportsOK(f, ran, cache), f.at = "run", f.items # <<>>,
         Head(f.items).do \in Loads, f.name \in Names, NEW S, NEW name, Closed(S, name),
         f.name \in S \union {name}
  PROVE  Head(f.items).name \in S
<1>1. f.items \in Seq(Items)
  BY DEF Frames
<1>2. Head(f.items).name \in NamesIn(f.items, Loads)
  BY <1>1, NamesInTail
<1>3. PICK r \in ran : r.name = f.name /\ r.text = f.text
  BY DEF ImportsOK
<1>4. NamesIn(f.items, Loads) \subseteq ImportsOf(f.text)
  BY DEF ImportsOK
<1>5. ImportsOf(r.text) \subseteq S
  BY <1>3 DEF Closed
<1>6. QED
  BY <1>2, <1>3, <1>4, <1>5

\* From the call of name on, each call imports the module of the next one.
LEMMA ChainOfCalls ==
  ASSUME Typed, CallsImport, NEW k \in 2 .. Len(frames), NEW S, Closed(S, frames[k].name)
  PROVE  \A j \in k .. Len(frames) : frames[j].name \in S \union {frames[k].name}
<1> DEFINE name == frames[k].name
           T == {j \in k .. Len(frames) : frames[j].name \notin S \union {name}}
<1>1. Len(frames) \in Nat
  BY DEF Typed, Calls
<1>2. SUFFICES ASSUME T # {}
               PROVE  FALSE
  OBVIOUS
<1>3. T \subseteq Nat
  BY <1>1
<1>4. PICK m \in T : \A j \in T : m <= j
  BY <1>2, <1>3, LeastNatural
<1>5. m \in k .. Len(frames) /\ m # k
  BY <1>4
<1>6. /\ m - 1 \in k .. Len(frames)
      /\ m - 1 \in 1 .. Len(frames)
      /\ m - 1 \in 1 .. Len(frames) - 1
      /\ m - 1 # 1
      /\ m - 1 + 1 = m
      /\ ~(m <= m - 1)
  BY <1>1, <1>5
<1>7. frames[m - 1].name \in S \union {name}
  BY <1>4, <1>6
<1>8. /\ frames[m - 1] \in Frames
      /\ ImportsOK(frames[m - 1], ran, cache)
      /\ frames[m - 1].name \in Names
      /\ Waiting(frames[m - 1], frames[m])
  BY <1>6, CallOK DEF CallsImport, Typed, Calls
<1>9. frames[m].name \in S
  BY <1>7, <1>8, NextImport DEF Waiting
<1>10. QED
  BY <1>4, <1>9

\* An import that is on the stack and not in the cache is one whose load was
\* left by an error, or closes a cycle of calls.
LEMMA CycleIsReal ==
  ASSUME Typed, OnStack, CallsImport, AtImport,
         NEW name, name = Head(Top.items).name, Stacked(name), ~Cached(name)
  PROVE  ImportsItself(name) \/ WasLeft(name)
<1>1. Len(frames) \in Nat
  BY DEF Typed, Calls
<1>2. /\ Active /\ Top \in Frames /\ Top.at = "run" /\ Top.items # <<>>
      /\ Head(Top.items).do \in Loads
  BY AtItemProps, AtImportProps DEF AtImport
<1>3. IsCalled(name) \/ WasLeft(name)
  BY KnownIs DEF Known
<1>4. ASSUME NEW k \in 2 .. Len(frames), frames[k].name = name
      PROVE  ImportsItself(name)
  <2>1. Top.name \in Names /\ ImportsOK(Top, ran, cache)
    <3>1. \A n \in Nat : \A j \in 2 .. n : n # 1
      OBVIOUS
    <3>2. Len(frames) \in 1 .. Len(frames) /\ (Top.name \in Names <=> Len(frames) # 1)
      BY <1>2, TopIsLast DEF Typed
    <3>3. QED
      BY <1>1, <3>1, <3>2, Zenon DEF CallsImport, Top
  <2>2. Len(frames) \in k .. Len(frames)
    BY <1>1
  <2>3. ASSUME NEW S \in SUBSET Names, Closed(S, name)
        PROVE  name \in S
    <3>1. Top.name \in S \union {name}
      BY <1>4, <2>2, <2>3, ChainOfCalls DEF Top
    <3>2. QED
      BY <1>2, <2>1, <2>3, <3>1, NextImport
  <2>4. QED
    BY <2>3 DEF ImportsItself, Closed
<1>5. QED
  BY <1>3, <1>4 DEF IsCalled

LEMMA CycleOfStep ==
  ASSUME Typed, OnStack, CallsImport, Step
  PROVE  CycleErrorsAreReal
<1>1. CASE ImportCycle
  <2>1. PICK name : /\ name = Head(Top.items).name
                    /\ AtImport /\ Stacked(name) /\ ~Cached(name)
                    /\ outcome' = Tag("cycle", name)
    BY <1>1 DEF ImportCycle, Fail, Cached
  <2>2. ImportsItself(name) \/ WasLeft(name)
    BY <2>1, CycleIsReal
  <2>3. outcome'.name = name
    BY <2>1 DEF Tag
  <2>4. QED
    BY <2>2, <2>3 DEF CycleErrorsAreReal
<1>2. CASE ~ImportCycle
  <2>1. \A why, name : Tag(why, name).why = why
    BY DEF Tag
  <2>2. outcome' = outcome \/ \E why \in Reasons \ {"cycle"} : \E name : outcome' = Tag(why, name)
    BY <1>2 DEF Step, Finish, ImportCached, ItemFails, ImportBegin, LoadStd,
       DigestPackage, ReadSource, NoteProgram, CheckLock, TraceModule, Parse, Return, Fail, Reasons,
       told
  <2>3. QED
    BY <2>1, <2>2 DEF CycleErrorsAreReal
<1>3. QED
  BY <1>1, <1>2

-----------------------------------------------------------------------------
(* The module graph *)

HasNode(name) == \E i \in 1 .. Len(nodes) : nodes[i].spec = name

NodesDiffer == \A i, j \in 1 .. Len(nodes) : nodes[i].spec = nodes[j].spec => i = j

EdgesDiffer ==
  \A i, j \in 1 .. Len(edges) : edges[i][2] = edges[j][2] => i = j \/ WasLeft(edges[i][2])

EdgesLead ==
  \A e \in 1 .. Len(edges) : \E i, j \in 1 .. Len(nodes) :
    /\ i < j \/ WasLeft(edges[e][2])
    /\ nodes[i].spec = edges[e][1]
    /\ nodes[j].spec = edges[e][2]

NodesAreKnown == \A n \in Names : HasNode(n) <=> Known(n)

Noted == {"parse", "run"}

\* The program has its node exactly if it is past the step that notes it.
ProgramNoted ==
  \A i \in 1 .. Len(frames) : frames[i].name = Main => (HasNode(Main) <=> frames[i].at \in Noted)

Forest == NodesDiffer /\ EdgesDiffer /\ EdgesLead /\ NodesAreKnown /\ ProgramNoted

LEMMA ForestIs == ASSUME Typed, OnStack, Forest PROVE GraphIsLoadForest
<1>1. DOMAIN nodes = 1 .. Len(nodes) /\ DOMAIN edges = 1 .. Len(edges)
  BY LenProperties DEF Typed, TypeOK
<1>2. \A i, j \in DOMAIN nodes : nodes[i].spec = nodes[j].spec => i = j
  BY <1>1 DEF Forest, NodesDiffer
<1>3. \A i, j \in DOMAIN edges : edges[i][2] = edges[j][2] => i = j \/ WasLeft(edges[i][2])
  BY <1>1 DEF Forest, EdgesDiffer
<1>4. \A e \in DOMAIN edges : \E i, j \in DOMAIN nodes :
        /\ i < j \/ WasLeft(edges[e][2])
        /\ nodes[i].spec = edges[e][1]
        /\ nodes[j].spec = edges[e][2]
  BY <1>1, Zenon DEF Forest, EdgesLead
<1>5. \A n \in Names : (\E i \in DOMAIN nodes : nodes[i].spec = n) <=>
                       (Cached(n) \/ Stacked(n) \/ WasLeft(n))
  BY <1>1, KnownIs, Zenon DEF Forest, NodesAreKnown, HasNode
<1>6. QED
  BY <1>2, <1>3, <1>4, <1>5, Zenon DEF GraphIsLoadForest

\* Nodes change in nothing but digests.
SameSpecs ==
  /\ Len(nodes') = Len(nodes)
  /\ \A i \in 1 .. Len(nodes) : nodes'[i].spec = nodes[i].spec

\* The calls of the program are where they were, as far as its node goes.
SameProgram ==
  \A i \in 1 .. Len(frames') : frames'[i].name = Main =>
    /\ i \in 1 .. Len(frames)
    /\ frames[i].name = Main
    /\ frames'[i].at \in Noted <=> frames[i].at \in Noted

LEMMA ForestStays ==
  ASSUME Forest, SameSpecs, UNCHANGED edges, SameKnown, SameProgram,
         left \subseteq left'
  PROVE  Forest'
<1>1. \A n : HasNode(n)' <=> HasNode(n)
  BY DEF SameSpecs, HasNode
<1>2. NodesDiffer'
  BY DEF Forest, NodesDiffer, SameSpecs
<1>3. EdgesDiffer'
  <2>1. SUFFICES ASSUME NEW i \in 1 .. Len(edges), NEW j \in 1 .. Len(edges),
                        edges[i][2] = edges[j][2], i # j
                 PROVE  \E l \in left' : l.name = edges[i][2]
    BY DEF EdgesDiffer, WasLeft
  <2>2. PICK l \in left : l.name = edges[i][2]
    BY <2>1 DEF Forest, EdgesDiffer, WasLeft
  <2>3. QED
    BY <2>2
<1>4. EdgesLead'
  <2>1. Len(nodes') = Len(nodes) /\ edges' = edges
    BY DEF SameSpecs
  <2>2. ASSUME NEW e \in 1 .. Len(edges)
        PROVE  \E i, j \in 1 .. Len(nodes) :
                 /\ i < j \/ \E l \in left' : l.name = edges[e][2]
                 /\ nodes'[i].spec = edges[e][1]
                 /\ nodes'[j].spec = edges[e][2]
    <3>1. PICK i \in 1 .. Len(nodes), j \in 1 .. Len(nodes) :
            /\ i < j \/ WasLeft(edges[e][2])
            /\ nodes[i].spec = edges[e][1]
            /\ nodes[j].spec = edges[e][2]
      BY DEF Forest, EdgesLead
    <3>2. i < j \/ \E l \in left' : l.name = edges[e][2]
      BY <3>1 DEF WasLeft
    <3>3. nodes'[i].spec = nodes[i].spec /\ nodes'[j].spec = nodes[j].spec
      BY DEF SameSpecs
    <3>4. QED
      BY <3>1, <3>2, <3>3
  <2>3. QED
    BY <2>1, <2>2 DEF EdgesLead, WasLeft
<1>5. NodesAreKnown'
  BY <1>1 DEF Forest, NodesAreKnown, SameKnown
<1>6. ProgramNoted'
  BY <1>1 DEF Forest, ProgramNoted, SameProgram
<1>7. QED
  BY <1>2, <1>3, <1>4, <1>5, <1>6 DEF Forest

LEMMA NodeAdded ==
  ASSUME Typed, Forest, NEW node, ~HasNode(node.spec), nodes' = Append(nodes, node)
  PROVE  /\ Len(nodes) \in Nat
         /\ Len(nodes') = Len(nodes) + 1
         /\ \A i \in 1 .. Len(nodes) : nodes'[i] = nodes[i]
         /\ nodes'[Len(nodes) + 1] = node
         /\ NodesDiffer'
         /\ \A n : HasNode(n)' <=> HasNode(n) \/ n = node.spec
<1>1. nodes \in Seq([spec : Names \union {Main}, digest : Digests \union {NoEntry}])
  BY DEF Typed, TypeOK
<1>2. /\ Len(nodes) \in Nat
      /\ Len(nodes') = Len(nodes) + 1
      /\ \A i \in 1 .. Len(nodes) : nodes'[i] = nodes[i]
      /\ nodes'[Len(nodes) + 1] = node
  BY <1>1
<1>3. \A i \in 1 .. Len(nodes') : i \in 1 .. Len(nodes) \/ i = Len(nodes) + 1
  BY <1>2
<1>4. \A i \in 1 .. Len(nodes) : i \in 1 .. Len(nodes') /\ nodes[i].spec # node.spec
  BY <1>2 DEF HasNode
<1>5. NodesDiffer'
  BY <1>2, <1>3, <1>4 DEF Forest, NodesDiffer
<1>6. Len(nodes) + 1 \in 1 .. Len(nodes')
  BY <1>2
<1>7. \A n : HasNode(n)' <=> HasNode(n) \/ n = node.spec
  BY <1>2, <1>3, <1>4, <1>6 DEF HasNode
<1>8. QED
  BY <1>2, <1>5, <1>7

LEMMA EdgesStay ==
  ASSUME Forest, Len(nodes) \in Nat, Len(nodes') \in Nat, Len(nodes) <= Len(nodes'),
         \A i \in 1 .. Len(nodes) : nodes'[i] = nodes[i],
         NEW e \in 1 .. Len(edges)
  PROVE  \E i, j \in 1 .. Len(nodes') :
           /\ i < j \/ WasLeft(edges[e][2])
           /\ nodes'[i].spec = edges[e][1]
           /\ nodes'[j].spec = edges[e][2]
<1>1. PICK i \in 1 .. Len(nodes), j \in 1 .. Len(nodes) :
        /\ i < j \/ WasLeft(edges[e][2])
        /\ nodes[i].spec = edges[e][1]
        /\ nodes[j].spec = edges[e][2]
  BY DEF Forest, EdgesLead
<1>2. i \in 1 .. Len(nodes') /\ j \in 1 .. Len(nodes')
  OBVIOUS
<1>3. QED
  BY <1>1, <1>2

LEMMA ForestWhenGraphSame ==
  ASSUME Forest, UNCHANGED graph, SameKnown, SameProgram, left \subseteq left'
  PROVE  Forest'
<1>1. SameSpecs /\ UNCHANGED edges
  BY DEF SameSpecs, graph
<1>2. QED
  BY <1>1, ForestStays

\* The program is the outermost call.
LEMMA ProgramIsFirst ==
  ASSUME Typed, NEW i \in 1 .. Len(frames), frames[i].name = Main
  PROVE  i = 1
  BY Constants DEF Typed, Calls

LEMMA ProgramWhenTopGoes ==
  ASSUME Typed, Active, NEW at, TopGoes(at), Top.name = Main => (at \in Noted <=> Top.at \in Noted)
  PROVE  SameProgram
<1>1. Len(frames) \in Nat
  BY DEF Typed, Calls
<1>2. \A i \in 1 .. Len(frames) : i \in 1 .. Len(frames) - 1 \/ i = Len(frames)
  BY <1>1
<1>3. QED
  BY <1>2 DEF TopGoes, SameProgram, Top

LEMMA ForestWhenCut ==
  ASSUME Typed, Forest, NEW k, CallsAreCut(k), UNCHANGED graph
  PROVE  Forest'
<1>1. SameKnown
  BY KnownWhenCut
<1>2. left \subseteq left'
  BY DEF CallsAreCut
<1>3. Len(frames) \in Nat /\ \A i \in 1 .. k : i \in 1 .. Len(frames)
  BY DEF CallsAreCut, Typed, Calls
<1>4. SameProgram
  BY <1>3 DEF CallsAreCut, SameProgram
<1>5. QED
  BY <1>1, <1>2, <1>4, ForestWhenGraphSame

LEMMA ForestWhenTopGoes ==
  ASSUME Typed, Forest, Active, NEW at, TopGoes(at), UNCHANGED <<stack, cache, past, graph>>,
         Top.name = Main => (at \in Noted <=> Top.at \in Noted)
  PROVE  Forest'
<1>1. CallsGoOn
  BY TopGoesOn
<1>2. SameKnown /\ SameProgram
  BY <1>1, KnownWhenCallsGoOn, ProgramWhenTopGoes
<1>3. left \subseteq left'
  BY DEF past
<1>4. QED
  BY <1>2, <1>3, ForestWhenGraphSame

LEMMA ForestWhenCallReturns ==
  ASSUME Typed, OnStack, Forest, CallReturns, UNCHANGED graph
  PROVE  Forest'
<1>1. SameKnown
  BY KnownWhenCallReturns
<1>2. /\ Len(frames) \in Nat
      /\ Len(frames') = Len(frames) - 1
      /\ \A i \in 1 .. Len(frames) - 1 :
           frames'[i].name = frames[i].name /\ frames'[i].at = frames[i].at
  BY DEF CallReturns, TopLeaves, Typed, Calls
<1>3. \A i \in 1 .. Len(frames) - 1 : i \in 1 .. Len(frames)
  BY <1>2
<1>4. SameProgram
  BY <1>2, <1>3 DEF SameProgram
<1>5. left \subseteq left'
  BY DEF CallReturns, past
<1>6. QED
  BY <1>1, <1>4, <1>5, ForestWhenGraphSame

\* A module gets its node, and the edge from its importer's.
LEMMA ForestOfBegin ==
  ASSUME Typed, Typed', OnStack, Forest, ImportBegin
  PROVE  Forest'
<1> DEFINE item == Head(Top.items)
           name == item.name
           f == Frame(name, Locate[name][HereOf(item)], FirstStep(Kind[name]))
           node == Node(name, IF Kind[name] = "std" THEN name ELSE NoEntry)
<1>1. AtImport /\ UNCHANGED <<cache, past>>
  BY DEF ImportBegin
<1>2. Active /\ Top.at = "run" /\ Top.name \in Called /\ name \in Names
  BY <1>1, AtItemProps, AtImportProps, TopTyped DEF AtImport
<1>3. /\ ~Cached(name)
      /\ ~Stacked(name)
      /\ stack' = Append(stack, name)
      /\ NoteImport(name)
      /\ frames' = Append(frames, f)
  BY DEF ImportBegin, Cached
<1>4. f.name = name /\ node.spec = name
  BY DEF Frame, Node
<1>5. /\ nodes' = IF HasNode(name) THEN nodes ELSE Append(nodes, node)
      /\ edges' = IF Top.name = Prompt THEN edges ELSE Append(edges, <<Top.name, name>>)
  <2>1. DOMAIN nodes = 1 .. Len(nodes)
    BY LenProperties DEF Typed, TypeOK
  <2>2. HasNode(name) <=> \E i \in DOMAIN nodes : nodes[i].spec = name
    BY <2>1 DEF HasNode
  <2>3. QED
    BY <1>3, <2>2, Zenon DEF NoteImport
<1> HIDE DEF item, name, f, node
<1>6. HasNode(name) <=> WasLeft(name)
  BY <1>2, <1>3, KnownIs DEF Forest, NodesAreKnown
<1>7. /\ Len(nodes) \in Nat /\ Len(nodes') \in Nat /\ Len(nodes) <= Len(nodes')
      /\ \A i \in 1 .. Len(nodes) : nodes'[i] = nodes[i]
      /\ NodesDiffer'
      /\ \A n : HasNode(n)' <=> HasNode(n) \/ n = name
      /\ \E j \in 1 .. Len(nodes') : nodes'[j].spec = name /\ (j > Len(nodes) \/ WasLeft(name))
  <2>1. CASE HasNode(name)
    <3>1. nodes' = nodes
      BY <1>5, <2>1
    <3>2. Len(nodes) \in Nat
      BY DEF Typed, TypeOK
    <3>3. NodesDiffer'
      BY <3>1 DEF Forest, NodesDiffer
    <3>4. \A n : HasNode(n)' <=> HasNode(n) \/ n = name
      BY <2>1, <3>1 DEF HasNode
    <3>5. \E j \in 1 .. Len(nodes) : nodes[j].spec = name
      BY <2>1 DEF HasNode
    <3>6. QED
      BY <1>6, <2>1, <3>1, <3>2, <3>3, <3>4, <3>5
  <2>2. CASE ~HasNode(name)
    <3>1. nodes' = Append(nodes, node)
      BY <1>5, <2>2
    <3>2. /\ Len(nodes) \in Nat
          /\ Len(nodes') = Len(nodes) + 1
          /\ \A i \in 1 .. Len(nodes) : nodes'[i] = nodes[i]
          /\ nodes'[Len(nodes) + 1] = node
          /\ NodesDiffer'
          /\ \A n : HasNode(n)' <=> HasNode(n) \/ n = name
      BY <1>4, <2>2, <3>1, NodeAdded
    <3>3. Len(nodes) + 1 \in 1 .. Len(nodes') /\ Len(nodes) + 1 > Len(nodes)
      BY <3>2
    <3>4. QED
      BY <1>4, <3>2, <3>3
  <2>3. QED
    BY <2>1, <2>2
<1>8. /\ edges \in Seq((Names \union {Main}) \X Names) /\ Len(edges) \in Nat
      /\ frames \in Seq(Frames) /\ Len(frames) \in Nat
  BY DEF Typed, TypeOK
<1>9. \A e \in 1 .. Len(edges) : edges[e][2] = name => WasLeft(name)
  BY <1>6 DEF Forest, EdgesLead, HasNode
<1>10. Top.name # Prompt => HasNode(Top.name)
  <2>1. CASE Top.name \in Names
    BY <1>2, <2>1, TopIsCalled DEF Forest, NodesAreKnown, Known
  <2>2. CASE Top.name = Main
    BY <1>2, <2>2, TopIsLast DEF Typed, Forest, ProgramNoted, Noted, Top
  <2>3. QED
    BY <1>2, <2>1, <2>2 DEF Called
<1>11. \A n : WasLeft(n)' <=> WasLeft(n)
  BY <1>1 DEF WasLeft, past
<1>12. left' = left
  BY <1>1 DEF past
<1>13. EdgesDiffer' /\ EdgesLead'
  <2>1. CASE Top.name = Prompt
    <3>1. edges' = edges
      BY <1>5, <2>1
    <3>2. EdgesDiffer'
      BY <1>12, <3>1 DEF Forest, EdgesDiffer, WasLeft
    <3>3. \A e \in 1 .. Len(edges) : \E i, j \in 1 .. Len(nodes') :
             /\ i < j \/ WasLeft(edges[e][2])
             /\ nodes'[i].spec = edges[e][1]
             /\ nodes'[j].spec = edges[e][2]
      BY <1>7, EdgesStay
    <3>4. EdgesLead'
      BY <1>12, <3>1, <3>3 DEF EdgesLead, WasLeft
    <3>5. QED
      BY <3>2, <3>4
  <2>2. CASE Top.name # Prompt
    <3> DEFINE edge == <<Top.name, name>>
    <3>1. edges' = Append(edges, edge) /\ edge[1] = Top.name /\ edge[2] = name
      BY <1>5, <2>2
    <3> HIDE DEF edge
    <3>2. /\ Len(edges') = Len(edges) + 1
          /\ \A e \in 1 .. Len(edges) : edges'[e] = edges[e]
          /\ edges'[Len(edges) + 1] = edge
      BY <1>8, <3>1
    <3>3. \A e \in 1 .. Len(edges') : e \in 1 .. Len(edges) \/ e = Len(edges) + 1
      BY <1>8, <3>2
    <3>4. ASSUME NEW i \in 1 .. Len(edges'), NEW j \in 1 .. Len(edges'),
                 edges'[i][2] = edges'[j][2], i # j
          PROVE  WasLeft(edges'[i][2])
      <4>1. CASE i \in 1 .. Len(edges) /\ j \in 1 .. Len(edges)
        BY <3>2, <3>4, <4>1 DEF Forest, EdgesDiffer
      <4>2. CASE i = Len(edges) + 1 /\ j \in 1 .. Len(edges)
        BY <1>9, <3>1, <3>2, <3>4, <4>2
      <4>3. CASE j = Len(edges) + 1 /\ i \in 1 .. Len(edges)
        BY <1>9, <3>1, <3>2, <3>4, <4>3
      <4>4. QED
        BY <3>3, <3>4, <4>1, <4>2, <4>3
    <3>5. ASSUME NEW e \in 1 .. Len(edges')
          PROVE  \E i, j \in 1 .. Len(nodes') :
                   /\ i < j \/ WasLeft(edges'[e][2])
                   /\ nodes'[i].spec = edges'[e][1]
                   /\ nodes'[j].spec = edges'[e][2]
      <4>1. CASE e \in 1 .. Len(edges)
        <5>1. edges'[e] = edges[e]
          BY <3>2, <4>1
        <5>2. \E i, j \in 1 .. Len(nodes') :
                /\ i < j \/ WasLeft(edges[e][2])
                /\ nodes'[i].spec = edges[e][1]
                /\ nodes'[j].spec = edges[e][2]
          BY <1>7, <4>1, EdgesStay
        <5>3. QED
          BY <5>1, <5>2
      <4>2. CASE e = Len(edges) + 1
        <5>1. PICK i \in 1 .. Len(nodes) : nodes[i].spec = Top.name
          BY <1>10, <2>2 DEF HasNode
        <5>2. PICK j \in 1 .. Len(nodes') :
                nodes'[j].spec = name /\ (j > Len(nodes) \/ WasLeft(name))
          BY <1>7
        <5>3. i \in 1 .. Len(nodes') /\ (j > Len(nodes) => i < j)
          BY <1>7
        <5>4. nodes'[i].spec = edges'[e][1] /\ edges'[e][2] = name
          BY <1>7, <3>1, <3>2, <4>2, <5>1
        <5>5. QED
          BY <5>2, <5>3, <5>4
      <4>3. QED
        BY <3>3, <4>1, <4>2
    <3>6. EdgesDiffer'
      BY <1>12, <3>4 DEF EdgesDiffer, WasLeft
    <3>7. EdgesLead'
      BY <1>12, <3>5 DEF EdgesLead, WasLeft
    <3>8. QED
      BY <3>6, <3>7
  <2>3. QED
    BY <2>1, <2>2
<1>14. /\ Len(frames') = Len(frames) + 1
       /\ \A i \in 1 .. Len(frames) : frames'[i] = frames[i]
       /\ frames'[Len(frames) + 1] = f
  BY <1>3, <1>8
<1>15. CallBegins(name)
  BY <1>1, <1>2, <1>3, <1>4, <1>14 DEF CallBegins
<1>16. NodesAreKnown'
  <2>1. \A n : Known(n)' <=> Known(n) \/ n = name
    BY <1>2, <1>15, KnownWhenCallBegins
  <2>2. QED
    BY <1>7, <2>1 DEF Forest, NodesAreKnown
<1>17. \A i \in 1 .. Len(frames') : i \in 1 .. Len(frames) \/ i = Len(frames) + 1
  BY <1>8, <1>14
<1>18. name # Main
  BY <1>2, Constants
<1>19. ProgramNoted'
  BY <1>4, <1>7, <1>14, <1>17, <1>18 DEF Forest, ProgramNoted
<1>20. QED
  BY <1>7, <1>13, <1>16, <1>19 DEF Forest

LEMMA ForestOfProgram ==
  ASSUME Typed, Typed', Forest, NoteProgram
  PROVE  Forest'
<1> DEFINE node == Node(Main, IF files[Main] = Absent THEN NoEntry ELSE files[Main])
<1>1. Active /\ Top.at = "note" /\ TopGoes("parse") /\ Top.name = Main
  BY NoteProgramEffect, TopTyped DEF FrameOK
<1>2. nodes' = Append(nodes, node) /\ UNCHANGED <<edges, cache, stack, past>>
  BY DEF NoteProgram
<1>3. node.spec = Main
  BY DEF Node
<1>4. Len(frames) \in 1 .. Len(frames)
  BY <1>1, TopIsLast DEF Typed
<1>5. Len(frames) = 1
  BY <1>1, <1>4, ProgramIsFirst DEF Top
<1>6. ~HasNode(Main)
  BY <1>1, <1>4 DEF Forest, ProgramNoted, Noted, Top
<1> HIDE DEF node
<1>7. /\ Len(nodes) \in Nat
      /\ Len(nodes') = Len(nodes) + 1
      /\ \A i \in 1 .. Len(nodes) : nodes'[i] = nodes[i]
      /\ NodesDiffer'
      /\ \A n : HasNode(n)' <=> HasNode(n) \/ n = Main
  BY <1>2, <1>3, <1>6, NodeAdded
<1>8. EdgesDiffer'
  BY <1>2 DEF Forest, EdgesDiffer, WasLeft, past
<1>9. EdgesLead'
  <2>1. \A e \in 1 .. Len(edges) : \E i, j \in 1 .. Len(nodes') :
          /\ i < j \/ WasLeft(edges[e][2])
          /\ nodes'[i].spec = edges[e][1]
          /\ nodes'[j].spec = edges[e][2]
    BY <1>7, EdgesStay
  <2>2. left' = left /\ edges' = edges
    BY <1>2 DEF past
  <2>3. QED
    BY <2>1, <2>2 DEF EdgesLead, WasLeft
<1>10. NodesAreKnown'
  <2>1. SameKnown
    BY <1>1, <1>2, TopGoesOn, KnownWhenCallsGoOn
  <2>2. QED
    BY <1>7, <2>1, Constants DEF Forest, NodesAreKnown, SameKnown
<1>11. \A i \in 1 .. Len(frames') : frames'[i].at = "parse"
  BY <1>1, <1>5 DEF TopGoes
<1>12. ProgramNoted'
  BY <1>7, <1>11 DEF ProgramNoted, Noted
<1>13. QED
  BY <1>7, <1>8, <1>9, <1>10, <1>12 DEF Forest

LEMMA ForestOfPackage ==
  ASSUME Typed, Typed', Forest, DigestPackage, ~Errs
  PROVE  Forest'
<1>1. /\ Active /\ Top.name \in Names /\ TopGoes("source")
      /\ UNCHANGED <<stack, cache, past, edges>>
      /\ \E got : NoteCurrent(got)
  BY DigestPackageEffect DEF DigestPackage
<1>2. SameSpecs
  <2>1. nodes \in Seq([spec : Names \union {Main}, digest : Digests \union {NoEntry}])
    BY DEF Typed, TypeOK
  <2>2. DOMAIN nodes = 1 .. Len(nodes) /\ Len(nodes) \in Nat
    BY <2>1, LenProperties
  <2>3. PICK got : nodes' = [i \in 1 .. Len(nodes) |->
                               IF nodes[i].spec = Top.name /\ nodes[i].digest = NoEntry
                               THEN Node(Top.name, got)
                               ELSE nodes[i]]
    BY <1>1, <2>2 DEF NoteCurrent
  <2>4. Node(Top.name, got).spec = Top.name
    BY DEF Node
  <2>5. \A i \in 1 .. Len(nodes) : nodes'[i].spec = nodes[i].spec
    BY <2>3, <2>4
  <2>6. nodes' \in Seq([spec : Names \union {Main}, digest : Digests \union {NoEntry}])
    BY DEF Typed, TypeOK
  <2>7. DOMAIN nodes' = 1 .. Len(nodes) /\ DOMAIN nodes' = 1 .. Len(nodes')
        /\ Len(nodes') \in Nat
    BY <2>3, <2>6, LenProperties
  <2>8. \A k, n \in Nat : 1 .. k = 1 .. n => k = n
    <3>1. SUFFICES ASSUME NEW k \in Nat, NEW n \in Nat, 1 .. k = 1 .. n, k < n
                   PROVE  FALSE
      OBVIOUS
    <3>2. n \in 1 .. n /\ n \notin 1 .. k
      BY <3>1
    <3>3. QED
      BY <3>1, <3>2
  <2>9. Len(nodes') = Len(nodes)
    BY <2>2, <2>7, <2>8, Zenon
  <2>10. QED
    BY <2>5, <2>9 DEF SameSpecs
<1>3. SameKnown
  BY <1>1, TopGoesOn, KnownWhenCallsGoOn
<1>4. Top.name # Main
  BY <1>1, Constants
<1>5. SameProgram
  BY <1>1, <1>4, ProgramWhenTopGoes
<1>6. left \subseteq left'
  BY <1>1 DEF past
<1>7. QED
  BY <1>1, <1>2, <1>3, <1>5, <1>6, ForestStays

LEMMA ForestOfStep ==
  ASSUME Typed, Typed', OnStack, Forest, Step
  PROVE  Forest'
<1>1. CASE Finish \/ ImportCycle \/ ItemFails
  <2>1. UNCHANGED graph
    BY <1>1 DEF Finish, ImportCycle, ItemFails
  <2>2. QED
    BY <1>1, <2>1, EndsCut, ForestWhenCut
<1>2. CASE ImportCached
  <2>1. UNCHANGED <<stack, cache, past, graph>>
    BY <1>2 DEF ImportCached
  <2>2. Active /\ TopGoes("run") /\ Top.at = "run"
    BY <1>2, ImportCachedEffect
  <2>3. QED
    BY <2>1, <2>2, ForestWhenTopGoes
<1>3. CASE ImportBegin
  BY <1>3, ForestOfBegin
<1>4. CASE LoadStd
  <2>1. /\ Active /\ Top.name \in Names /\ UNCHANGED graph
    BY <1>4, AtProps DEF LoadStd, FrameOK
  <2>2. CASE Top.name \in Builtins /\ Allows(Top.name, Top.name)
    <3>1. /\ stack' = SubSeq(stack, 1, Len(stack) - 1)
          /\ cache' = [cache EXCEPT ![Top.name] = Top.name]
          /\ frames' = ReturnToCaller
          /\ UNCHANGED past
      BY <1>4, <2>2 DEF LoadStd
    <3>2. /\ cache'[Top.name] = Top.name
          /\ \A n \in Names \ {Top.name} : cache'[n] = cache[n]
      BY <2>1, <3>1 DEF Typed, TypeOK
    <3>3. cache'[Top.name] # NotCached
      BY <2>1, <3>2, LoaderAssumption
    <3>4. CallReturns
      BY <2>1, <3>1, <3>2, <3>3, ReturnEffect DEF CallReturns
    <3>5. QED
      BY <2>1, <3>4, ForestWhenCallReturns
  <2>3. CASE ~(Top.name \in Builtins /\ Allows(Top.name, Top.name))
    BY <1>4, <2>1, <2>3, FailCuts, ForestWhenCut DEF LoadStd
  <2>4. QED
    BY <2>2, <2>3
<1>5. CASE Return
  <2>1. /\ Active /\ Top.name \in Names /\ Top.at = "run" /\ UNCHANGED graph
    BY <1>5 DEF Return, IsModule
  <2>2. CASE Source[Top.text].record
    <3>1. /\ stack' = SubSeq(stack, 1, Len(stack) - 1)
          /\ cache' = [cache EXCEPT ![Top.name] = Top.text]
          /\ frames' = ReturnToCaller
          /\ UNCHANGED past
      BY <1>5, <2>2 DEF Return
    <3>2. /\ cache'[Top.name] = Top.text
          /\ \A n \in Names \ {Top.name} : cache'[n] = cache[n]
      BY <2>1, <3>1 DEF Typed, TypeOK
    <3>3. cache'[Top.name] # NotCached
      <4>1. Top.text \in Texts
        BY <2>1, TopTyped DEF FrameOK
      <4>2. QED
        BY <3>2, <4>1, LoaderAssumption
    <3>4. CallReturns
      BY <2>1, <3>1, <3>2, <3>3, ReturnEffect DEF CallReturns
    <3>5. QED
      BY <2>1, <3>4, ForestWhenCallReturns
  <2>3. CASE ~Source[Top.text].record
    BY <1>5, <2>1, <2>3, FailCuts, ForestWhenCut DEF Return
  <2>4. QED
    BY <2>2, <2>3
<1>6. CASE Errs /\ (DigestPackage \/ ReadSource \/ CheckLock \/ TraceModule \/ Parse)
  <2>1. Active
    BY <1>6 DEF DigestPackage, ReadSource, CheckLock, TraceModule, Parse, At
  <2>2. UNCHANGED graph
    BY <1>6 DEF Errs
  <2>3. QED
    BY <1>6, <2>1, <2>2, ErrsCuts, ForestWhenCut
<1>7. CASE ~Errs /\ DigestPackage
  BY <1>7, ForestOfPackage
<1>8. CASE ~Errs /\ ReadSource
  <2>1. /\ Active /\ Top.at = "source" /\ TopGoes(AfterSource(Top))
        /\ UNCHANGED <<stack, cache, past, graph>>
    BY <1>8, ReadSourceEffect DEF ReadSource
  <2>2. Top.name = Main => AfterSource(Top) = "note"
    BY Constants DEF AfterSource
  <2>3. QED
    BY <2>1, <2>2, ForestWhenTopGoes DEF Noted
<1>9. CASE ~Errs /\ CheckLock
  <2>1. /\ Active /\ Top.at = "check" /\ TopGoes("trace") /\ UNCHANGED <<stack, cache, past, graph>>
    BY <1>9, CheckLockEffect DEF CheckLock
  <2>2. QED
    BY <2>1, ForestWhenTopGoes DEF Noted
<1>10. CASE ~Errs /\ TraceModule
  <2>1. /\ Active /\ Top.name \in Names /\ TopGoes("parse") /\ UNCHANGED <<stack, cache, past, graph>>
    BY <1>10, TraceModuleEffect DEF TraceModule
  <2>2. QED
    BY <2>1, Constants, ForestWhenTopGoes
<1>11. CASE ~Errs /\ Parse
  <2>1. /\ Active /\ Top.at = "parse" /\ TopGoes("run") /\ UNCHANGED <<stack, cache, past, graph>>
    BY <1>11, ParseEffect DEF Parse
  <2>2. QED
    BY <2>1, ForestWhenTopGoes DEF Noted
<1>12. CASE NoteProgram
  BY <1>12, ForestOfProgram
<1>13. QED
  BY <1>1, <1>2, <1>3, <1>4, <1>5, <1>6, <1>7, <1>8, <1>9, <1>10, <1>11, <1>12, Zenon DEF Step

-----------------------------------------------------------------------------
(* Imports are sound *)

\* The cache holds a module only with all that its text needs, the module
\* graph is the forest of the loads but for what errors have left, and a
\* cycle is reported of a module only if the texts that were evaluated have
\* one, or if an error has left its load.
THEOREM LoaderImportsAreSound == Spec => ImportsAreSound
<1> DEFINE Inv == /\ Typed /\ OnStack
                  /\ CallsImport /\ CacheOK
                  /\ Forest
<1>1. Init => Inv
  <2>1. SUFFICES ASSUME Init
                 PROVE  CallsImport /\ CacheOK /\ Forest
    BY InitTyped, InitOnStack
  <2>2. /\ ran = {} /\ nodes = <<>> /\ edges = <<>> /\ left = {}
        /\ cache = NothingCached
    BY <2>1 DEF Init
  <2>3. /\ Len(frames) \in {0, 1}
        /\ \A i \in 1 .. Len(frames) : frames[i].name \notin Names /\ frames[i].at = "source"
    <3>1. /\ Frame(Main, Main, "source").name = Main
          /\ Frame(Main, Main, "source").at = "source"
          /\ Frame(Prompt, Main, "source").name = Prompt
          /\ Frame(Prompt, Main, "source").at = "source"
      BY DEF Frame
    <3>2. frames = <<>> \/ \E f : frames = <<f>> /\ f.name \in {Main, Prompt} /\ f.at = "source"
      BY <2>1, <3>1 DEF Init
    <3>3. QED
      BY <3>2, Constants
  <2>4. CallsImport
    BY <2>3 DEF CallsImport, ImportsOK
  <2>5. \A n \in Names : ~Cached(n)
    BY <2>2 DEF Cached, NothingCached
  <2>6. CacheOK
    BY <2>5 DEF CacheOK, CacheIsClosed, Exported, Cached
  <2>7. \A n : ~HasNode(n) /\ ~WasLeft(n) /\ ~IsCalled(n)
    BY <2>2, <2>3 DEF HasNode, WasLeft, IsCalled
  <2>8. NodesDiffer /\ EdgesDiffer /\ EdgesLead
    BY <2>2 DEF NodesDiffer, EdgesDiffer, EdgesLead
  <2>9. NodesAreKnown
    BY <2>5, <2>7 DEF NodesAreKnown, Known
  <2>10. ProgramNoted
    BY <2>3, <2>7 DEF ProgramNoted, Noted
  <2>11. QED
    BY <2>4, <2>6, <2>8, <2>9, <2>10 DEF Forest
<1>2. Inv /\ [Next]_vars => Inv'
  <2>1. SUFFICES ASSUME Inv, [Next]_vars
                 PROVE  Inv'
    OBVIOUS
  <2>2. Typed' /\ OnStack'
    BY <2>1, StepTyped, NextOnStack, Zenon
  <2>3. SUFFICES CallsImport' /\ CacheOK' /\ Forest'
    BY <2>2
  <2>4. CASE Step
    BY <2>1, <2>2, <2>4, ImportsOfStep, ForestOfStep
  <2>5. CASE UNCHANGED vars
    <3>1. UNCHANGED <<frames, stack, cache, past, ran, graph>>
      BY <2>5 DEF vars
    <3>2. CallsImport'
      BY <2>1, <3>1 DEF CallsImport, ImportsOK, NamesIn
    <3>3. CacheOK'
      BY <2>1, <3>1, ClosedStays
    <3>4. SameProgram /\ SameKnown /\ left \subseteq left'
      BY <3>1 DEF SameProgram, SameKnown, Known, Cached, IsCalled, WasLeft, past
    <3>5. Forest'
      BY <2>1, <3>1, <3>4, ForestWhenGraphSame
    <3>6. QED
      BY <3>2, <3>3, <3>5
  <2>6. CASE Reset
    <3>1. /\ frames' = <<>> /\ ran' = {} /\ nodes' = <<>> /\ edges' = <<>> /\ left' = {}
          /\ cache' = NothingCached
      BY <2>6 DEF Reset, Active
    <3>2. \A n \in Names : ~Cached(n)'
      BY <3>1 DEF Cached, NothingCached
    <3>3. CallsImport' /\ CacheOK'
      BY <3>1, <3>2 DEF CallsImport, CacheOK, CacheIsClosed, Exported, Cached
    <3>4. NodesDiffer' /\ EdgesDiffer' /\ EdgesLead'
      BY <3>1 DEF NodesDiffer, EdgesDiffer, EdgesLead
    <3>5. NodesAreKnown'
      BY <3>1, <3>2 DEF NodesAreKnown, HasNode, Known, IsCalled, WasLeft
    <3>6. ProgramNoted'
      BY <3>1 DEF ProgramNoted
    <3>7. QED
      BY <3>3, <3>4, <3>5, <3>6 DEF Forest
  <2>7. ASSUME NEW items \in Lines, Line(items)
        PROVE  CallsImport' /\ CacheOK' /\ Forest'
    <3> DEFINE f == [Frame(Prompt, Nowhere, "run") EXCEPT !.items = items]
    <3>1. /\ frames' = <<f>> /\ frames = <<>>
          /\ UNCHANGED <<stack, cache, past, ran, graph>>
      BY <2>7 DEF Line, Active
    <3>2. f.name = Prompt
      BY DEF Frame
    <3> HIDE DEF f
    <3>3. Len(frames') = 1 /\ \A i \in 1 .. Len(frames') : frames'[i].name = Prompt
      BY <3>1, <3>2
    <3>4. CallsImport'
      BY <3>3, Constants DEF CallsImport, ImportsOK
    <3>5. CacheOK'
      BY <2>1, <3>1, ClosedStays
    <3>6. SameProgram
      BY <3>3, Constants DEF SameProgram
    <3>7. \A n : ~IsCalled(n) /\ ~IsCalled(n)'
      BY <3>1, <3>3 DEF IsCalled
    <3>8. SameKnown /\ left \subseteq left'
      BY <3>1, <3>7 DEF SameKnown, Known, Cached, WasLeft, past
    <3>9. Forest'
      BY <2>1, <3>1, <3>6, <3>8, ForestWhenGraphSame
    <3>10. QED
      BY <3>4, <3>5, <3>9
  <2>8. ASSUME NEW change \in Edits, Edit(change[1], change[2])
        PROVE  CallsImport' /\ CacheOK' /\ Forest'
    <3>1. /\ UNCHANGED <<stack, cache, past, ran, graph>>
          /\ frames' = Edited(frames, change[1])
      BY <2>8 DEF Edit, Edited
    <3>2. /\ Len(frames') = Len(frames)
          /\ \A i \in 1 .. Len(frames) : Same(frames'[i], frames[i])
      <4>1. Calls(frames)
        BY <2>1 DEF Typed
      <4>2. QED
        BY <3>1, <4>1, CallsEdited DEF Same
    <3>3. Len(frames) \in Nat
      BY <2>1 DEF Typed, Calls
    <3>4. CallsImport'
      <4>1. CacheGrows
        BY <3>1 DEF CacheGrows
      <4>2. \A i \in 1 .. Len(frames) : ImportsOK(frames'[i], ran', cache')
        BY <2>1, <3>1, <3>2, <3>3, <4>1, CallsBelowImport
      <4>3. QED
        BY <3>2, <4>2 DEF CallsImport
    <3>5. CacheOK'
      BY <2>1, <3>1, ClosedStays
    <3>6. SameProgram
      BY <3>2 DEF SameProgram, Same
    <3>7. CallsGoOn
      BY <2>1, <2>2, <2>8, EditGoesOn
    <3>8. SameKnown /\ left \subseteq left'
      BY <2>1, <3>1, <3>7, KnownWhenCallsGoOn DEF past
    <3>9. Forest'
      BY <2>1, <3>1, <3>6, <3>8, ForestWhenGraphSame
    <3>10. QED
      BY <3>4, <3>5, <3>9
  <2>9. QED
    BY <2>1, <2>4, <2>5, <2>6, <2>7, <2>8 DEF Next
<1>3. Inv => CacheIsClosed /\ GraphIsLoadForest
  BY ForestIs DEF CacheOK
<1>4. Inv /\ [Next]_vars => [CycleErrorsAreReal]_vars
  <2>1. SUFFICES ASSUME Inv, Next
                 PROVE  CycleErrorsAreReal
    OBVIOUS
  <2>2. CASE Step
    BY <2>1, <2>2, CycleOfStep
  <2>3. CASE ~Step
    <3>1. \A why, name : Tag(why, name).why = why
      BY DEF Tag
    <3>2. outcome' = outcome \/ outcome' = Tag("none", Prompt)
      BY <2>1, <2>3 DEF Next, Reset, Line, Edit
    <3>3. QED
      BY <3>1, <3>2 DEF CycleErrorsAreReal
  <2>4. QED
    BY <2>2, <2>3
<1> HIDE DEF Inv
<1>5. QED
  BY <1>1, <1>2, <1>3, <1>4, PTL DEF Spec, ImportsAreSound

=============================================================================
