------------------------------ MODULE BuildProofs -----------------------------
(***************************************************************************)
(* The analysers of Build keep the context of the node they are at, however *)
(* deep a program is nested: a build that succeeds has found no asm! and no *)
(* direct call of port:: outside of unsafe and no break outside of a loop in*)
(* checked code, what the analysers report at a node is what is wrong there,*)
(* and a build fails for a reason only.  Of Codegen: a block ends with its  *)
(* own deferred expressions.                                                *)
(*                                                                          *)
(* The inductive invariant of Build has two parts.  BuildInv says of every  *)
(* open construct what the local variable of the call that visits it holds: *)
(* what was around it.  ContextInv adds whose names each scope of the chain *)
(* has and whose assignments the counter counts.  DeferInv, of Codegen, says*)
(* where on the stack each deferred expression is.                          *)
(***************************************************************************)
EXTENDS Build, BasicLemmas, TLAPS

(* The construct at place i is walked by an analyser with these skips.      *)
Seen(p, i, skips) == \A j \in 1 .. i : p[j].kind \notin skips

(* One of the constructs at the first n places is of this kind.             *)
Around(p, n, kind) == \E j \in 1 .. n : p[j].kind = kind

(* ... and is walked.                                                       *)
SeenAround(p, kind, skips) ==
  \E i \in 1 .. Len(p) : p[i].kind = kind /\ Seen(p, i, skips)

Shape ==
  /\ path \in Seq(Frame)
  /\ saved \in Seq([inLoop : BOOLEAN, inUnsafe : BOOLEAN])
  /\ secSaved \in Seq([unsafe : BOOLEAN, mutations : Nat])
  /\ Len(saved) = Len(path) /\ Len(secSaved) = Len(path)
  /\ inLoop \in BOOLEAN /\ inUnsafe \in BOOLEAN /\ secUnsafe \in BOOLEAN
  /\ mutations \in Nat

Flags ==
  /\ inLoop <=> SeenAround(path, "loop", SemaSkips)
  /\ inUnsafe <=> SeenAround(path, "unsafe", SemaSkips)
  /\ secUnsafe <=> SeenAround(path, "unsafe", SecSkips)

(* What the calls that visit construct i of path p have saved, in semaSaved *)
(* and in securitySaved.                                                    *)
SavedRight(p, semaSaved, securitySaved, i) ==
  /\ Seen(p, i, SemaSkips) => (semaSaved[i].inLoop <=> Around(p, i - 1, "loop"))
  /\ Seen(p, i, SemaSkips) => (semaSaved[i].inUnsafe <=> Around(p, i - 1, "unsafe"))
  /\ Seen(p, i, SecSkips) => (securitySaved[i].unsafe <=> Around(p, i - 1, "unsafe"))

Locals == \A i \in 1 .. Len(path) : SavedRight(path, saved, secSaved, i)

Verdict ==
  /\ guardFault => semaErrors \/ secErrors
  /\ phase \in {"generate", "built", "unwritten"} => ~semaErrors /\ ~secErrors

WalkInv == Shape /\ Flags /\ Locals

BuildInv == WalkInv /\ Verdict

-----------------------------------------------------------------------------

(* Opening a construct appends one frame of its kind.                       *)
LEMMA OpenAppends ==
  ASSUME Shape, NEW k \in Kinds, NEW names \in SUBSET Names, Open(k, names)
  PROVE  /\ path' \in Seq(Frame)
         /\ Len(path') = Len(path) + 1
         /\ \A i \in 1 .. Len(path) : path'[i] = path[i]
         /\ path'[Len(path) + 1].kind = k
<1> DEFINE f == [kind |-> k, names |-> names, assigned |-> FALSE]
<1>1. f \in Frame
  BY DEF Frame
<1>2. path' = Append(path, f) /\ path \in Seq(Frame)
  BY DEF Open, Shape
<1> HIDE DEF f
<1>3. /\ path' \in Seq(Frame)
      /\ Len(path') = Len(path) + 1
      /\ \A i \in 1 .. Len(path) : path'[i] = path[i]
      /\ path'[Len(path) + 1] = f
  BY <1>1, <1>2
<1> QED
  BY <1>3 DEF f

(* What is left of a sequence, and what is taken off it.                    *)
LEMMA ShortenSeq ==
  ASSUME NEW S, NEW s \in Seq(S), Len(s) # 0
  PROVE  /\ Front(s) \in Seq(S) /\ Len(Front(s)) = Len(s) - 1
         /\ Last(s) \in S
         /\ \A i \in 1 .. Len(s) - 1 : Front(s)[i] = s[i]
<1> DEFINE m == Len(s) - 1
<1>1. m \in Nat /\ m + 1 = Len(s) /\ s[m + 1] \in S
  OBVIOUS
<1>2. \A i \in 1 .. m : s[i] \in S
  OBVIOUS
<1>3. Front(s) = SubSeq(s, 1, m) /\ Last(s) = s[m + 1]
  BY <1>1 DEF Front, Last
<1> HIDE DEF m
<1>4. /\ SubSeq(s, 1, m) \in Seq(S) /\ Len(SubSeq(s, 1, m)) = m
      /\ \A i \in 1 .. m : SubSeq(s, 1, m)[i] = s[i]
  BY <1>1, <1>2
<1>5. m = Len(s) - 1
  BY <1>1
<1> QED
  BY <1>1, <1>3, <1>4, <1>5

(* Closing one takes the last frame away.                                   *)
LEMMA CloseTakesLast ==
  ASSUME Shape, Close
  PROVE  /\ path' \in Seq(Frame)
         /\ Len(path) \in Nat \ {0}
         /\ Len(path') = Len(path) - 1
         /\ \A i \in 1 .. Len(path) - 1 : path'[i] = path[i]
         /\ Top = path[Len(path)].kind
BY DEF Shape, Close, Front, Last, Top

(* A frame that takes something up keeps its kind and its place.            *)
SameKinds ==
  /\ path' \in Seq(Frame)
  /\ Len(path') = Len(path)
  /\ \A i \in 1 .. Len(path) : path'[i].kind = path[i].kind

LEMMA DeclareKeepsKinds ==
  ASSUME Shape, HasStatements, NEW x \in Names, Declare(x)
  PROVE  /\ SameKinds
         /\ \A i \in 1 .. Len(path) :
              /\ path'[i].assigned = path[i].assigned
              /\ path'[i].names = IF i = Len(path) THEN path[i].names \cup {x} ELSE path[i].names
<1> DEFINE n == Len(path)
           f == [path[n] EXCEPT !.names = path[n].names \cup {x}]
<1>1. path \in Seq(Frame) /\ n \in 1 .. Len(path)
  BY DEF Shape, HasStatements
<1>2. /\ f \in Frame /\ f.kind = path[n].kind /\ f.assigned = path[n].assigned
      /\ f.names = path[n].names \cup {x}
  <2>1. path[n] \in Frame
    BY <1>1
  <2> HIDE DEF n
  <2> QED
    BY <2>1 DEF Frame
<1>3. path' = [path EXCEPT ![n] = f]
  BY <1>1 DEF Declare
<1> HIDE DEF f
<1>4. Len(path') = n /\ \A i \in 1 .. n : path'[i] = IF i = n THEN f ELSE path[i]
  BY <1>1, <1>3
<1>5. SameKinds
  <2> HIDE DEF n
  <2> QED
    BY <1>1, <1>2, <1>3 DEF SameKinds, n
<1> QED
  BY <1>2, <1>4, <1>5

LEMMA AssignmentKeepsKinds ==
  ASSUME Shape, NoteAssignment
  PROVE  /\ SameKinds
         /\ \A i \in 1 .. Len(path) :
              /\ path'[i].assigned <=> path[i].assigned \/ (i \in FunctionAt /\ ~Within({"size"}))
              /\ path'[i].names = path[i].names
<1> DEFINE noted(i) == path[i].assigned \/ (i \in FunctionAt /\ ~Within({"size"}))
           f(i) == [path[i] EXCEPT !.assigned = noted(i)]
<1>1. path \in Seq(Frame) /\ Len(path) \in Nat /\ DOMAIN path = 1 .. Len(path)
  BY DEF Shape
<1>2. ASSUME NEW i \in 1 .. Len(path)
      PROVE  /\ f(i) \in Frame /\ f(i).kind = path[i].kind /\ f(i).names = path[i].names
             /\ f(i).assigned = noted(i)
  <2>1. path[i] \in Frame
    BY <1>1
  <2>2. noted(i) \in BOOLEAN
    BY <2>1, Zenon DEF Frame
  <2> HIDE DEF noted
  <2> QED
    BY <2>1, <2>2 DEF Frame
<1>3. path' = [i \in 1 .. Len(path) |-> f(i)]
  BY <1>1 DEF NoteAssignment
<1> HIDE DEF f
<1>4. SameKinds
  BY <1>1, <1>2, <1>3 DEF SameKinds
<1>5. \A i \in 1 .. Len(path) : /\ path'[i].assigned = noted(i) /\ path'[i].names = path[i].names
  <2> HIDE DEF noted
  <2> QED
    BY <1>2, <1>3
<1> QED
  BY <1>4, <1>5, Zenon

-----------------------------------------------------------------------------

(* In walked code the flags say what is around the node.                    *)
LEMMA FlagsInWalkedCode ==
  ASSUME WalkInv
  PROVE  /\ ~Within(SemaSkips) => /\ inLoop <=> Within({"loop"})
                                  /\ inUnsafe <=> Within({"unsafe"})
         /\ ~Within(SecSkips) => (secUnsafe <=> Within({"unsafe"}))
<1>1. DOMAIN path = 1 .. Len(path) /\ Len(path) \in Nat
  BY DEF WalkInv, Shape
<1>2. ASSUME NEW skips, NEW kind, ~Within(skips)
      PROVE  SeenAround(path, kind, skips) <=> Within({kind})
  BY <1>1, <1>2 DEF Within, SeenAround, Seen
<1> QED
  BY <1>2 DEF WalkInv, Flags

(* Entering a construct keeps the walk's part of the invariant.             *)
LEMMA EnterKeepsWalk ==
  ASSUME WalkInv, NEW k \in Kinds, NEW names \in SUBSET Names,
         Open(k, names), SemaOpen(k, names), SecOpen(k)
  PROVE  WalkInv'
<1> DEFINE n == Len(path)
<1>1. /\ path' \in Seq(Frame) /\ Len(path') = n + 1 /\ n \in Nat
      /\ \A i \in 1 .. n : path'[i] = path[i]
      /\ path'[n + 1].kind = k
      /\ DOMAIN path = 1 .. n
  BY OpenAppends DEF WalkInv, Shape
<1>2. Shape'
  <2>1. /\ [inLoop |-> inLoop, inUnsafe |-> inUnsafe] \in [inLoop : BOOLEAN, inUnsafe : BOOLEAN]
        /\ [unsafe |-> secUnsafe, mutations |-> mutations] \in [unsafe : BOOLEAN, mutations : Nat]
    BY DEF WalkInv, Shape
  <2>2. /\ saved' = Append(saved, [inLoop |-> inLoop, inUnsafe |-> inUnsafe])
        /\ secSaved' = Append(secSaved, [unsafe |-> secUnsafe, mutations |-> mutations])
    BY DEF SemaOpen, SecOpen
  <2>3. /\ saved' \in Seq([inLoop : BOOLEAN, inUnsafe : BOOLEAN]) /\ Len(saved') = n + 1
        /\ secSaved' \in Seq([unsafe : BOOLEAN, mutations : Nat]) /\ Len(secSaved') = n + 1
    BY <2>1, <2>2 DEF WalkInv, Shape
  <2>4. inLoop' \in BOOLEAN /\ inUnsafe' \in BOOLEAN /\ secUnsafe' \in BOOLEAN
    BY Zenon DEF WalkInv, Shape, SemaOpen, SecOpen
  <2>5. mutations' \in Nat
    BY DEF WalkInv, Shape, SecOpen
  <2> QED
    BY <1>1, <2>3, <2>4, <2>5 DEF Shape
<1>3. /\ \A i \in 1 .. n : saved'[i] = saved[i] /\ secSaved'[i] = secSaved[i]
      /\ saved'[n + 1] = [inLoop |-> inLoop, inUnsafe |-> inUnsafe]
      /\ secSaved'[n + 1] = [unsafe |-> secUnsafe, mutations |-> mutations]
  BY DEF WalkInv, Shape, SemaOpen, SecOpen
<1>4. ASSUME NEW skips, NEW i \in 1 .. n
      PROVE  Seen(path', i, skips) <=> Seen(path, i, skips)
  BY <1>1 DEF Seen
<1>5. ASSUME NEW skips
      PROVE  /\ Within(skips) <=> ~Seen(path, n, skips)
             /\ Seen(path', n + 1, skips) <=> Seen(path, n, skips) /\ k \notin skips
  BY <1>1 DEF Seen, Within
<1>6. ASSUME NEW kind, NEW i \in 1 .. n + 1
      PROVE  Around(path', i - 1, kind) <=> Around(path, i - 1, kind)
  BY <1>1 DEF Around
<1>7. ASSUME NEW kind, NEW skips, kind \notin skips
      PROVE  SeenAround(path', kind, skips) <=>
               SeenAround(path, kind, skips) \/ (k = kind /\ ~Within(skips))
  BY <1>1, <1>4, <1>5, <1>7 DEF SeenAround
<1>8. ASSUME NEW kind, NEW skips, Seen(path, n, skips)
      PROVE  SeenAround(path, kind, skips) <=> Around(path, n, kind)
  BY <1>1, <1>8 DEF SeenAround, Seen, Around
<1>9. Flags'
  <2>1. /\ inLoop' <=> inLoop \/ (k = "loop" /\ ~Within(SemaSkips))
        /\ inUnsafe' <=> inUnsafe \/ (k = "unsafe" /\ ~Within(SemaSkips))
        /\ secUnsafe' <=> secUnsafe \/ (k = "unsafe" /\ ~Within(SecSkips))
    BY Zenon DEF SemaOpen, SecOpen
  <2>2. /\ "loop" \notin SemaSkips /\ "unsafe" \notin SemaSkips
        /\ "unsafe" \notin SecSkips
    BY DEF SemaSkips, SecSkips
  <2> QED
    BY <1>7, <2>1, <2>2, Zenon DEF WalkInv, Flags
<1>10. Locals'
  <2> SUFFICES ASSUME NEW i \in 1 .. Len(path')
               PROVE  SavedRight(path', saved', secSaved', i)
    BY DEF Locals
  <2>1. CASE i \in 1 .. n
    BY <2>1, <1>3, <1>4, <1>6, <1>1, Zenon DEF WalkInv, Locals, SavedRight
  <2>2. CASE i = n + 1
    <3>1. i - 1 = n /\ i \in 1 .. n + 1
      BY <2>2, <1>1
    <3>2. /\ saved'[i].inLoop = inLoop /\ saved'[i].inUnsafe = inUnsafe
          /\ secSaved'[i].unsafe = secUnsafe
      BY <1>3, <2>2
    <3>3. /\ Seen(path', i, SemaSkips) => Seen(path, n, SemaSkips)
          /\ Seen(path', i, SecSkips) => Seen(path, n, SecSkips)
      BY <1>5, <2>2
    <3> QED
      BY <3>1, <3>2, <3>3, <1>6, <1>8, Zenon DEF WalkInv, Flags, SavedRight
  <2> QED
    BY <2>1, <2>2, <1>1
<1> QED
  BY <1>2, <1>9, <1>10 DEF WalkInv

(* Leaving one does, because the local variables are right.                 *)
LEMMA LeaveKeepsWalk ==
  ASSUME WalkInv, Close, SemaClose, SecClose
  PROVE  WalkInv'
<1> DEFINE n == Len(path)
<1>1. /\ path' \in Seq(Frame) /\ n \in Nat \ {0} /\ Len(path') = n - 1
      /\ \A i \in 1 .. n - 1 : path'[i] = path[i]
      /\ Top = path[n].kind
      /\ DOMAIN path = 1 .. n
  BY CloseTakesLast DEF WalkInv, Shape
<1>2. Shape'
  <2>1. /\ saved' \in Seq([inLoop : BOOLEAN, inUnsafe : BOOLEAN]) /\ Len(saved') = n - 1
        /\ Last(saved) \in [inLoop : BOOLEAN, inUnsafe : BOOLEAN]
    <3>1. /\ saved \in Seq([inLoop : BOOLEAN, inUnsafe : BOOLEAN]) /\ Len(saved) = n
          /\ saved' = Front(saved)
      BY DEF WalkInv, Shape, SemaClose
    <3> QED
      BY <1>1, <3>1, ShortenSeq
  <2>2. /\ secSaved' \in Seq([unsafe : BOOLEAN, mutations : Nat]) /\ Len(secSaved') = n - 1
        /\ Last(secSaved) \in [unsafe : BOOLEAN, mutations : Nat]
    <3>1. /\ secSaved \in Seq([unsafe : BOOLEAN, mutations : Nat]) /\ Len(secSaved) = n
          /\ secSaved' = Front(secSaved)
      BY DEF WalkInv, Shape, SecClose
    <3> QED
      BY <1>1, <3>1, ShortenSeq
  <2>3. /\ Last(saved).inLoop \in BOOLEAN /\ Last(saved).inUnsafe \in BOOLEAN
        /\ Last(secSaved).unsafe \in BOOLEAN /\ Last(secSaved).mutations \in Nat
    BY <2>1, <2>2
  <2>4. inLoop' \in BOOLEAN /\ inUnsafe' \in BOOLEAN /\ secUnsafe' \in BOOLEAN
    BY <2>3, Zenon DEF WalkInv, Shape, SemaClose, SecClose
  <2>5. mutations' \in Nat
    BY <2>3 DEF WalkInv, Shape, SecClose
  <2> QED
    BY <1>1, <2>1, <2>2, <2>4, <2>5 DEF Shape
<1>3. /\ \A i \in 1 .. n - 1 : saved'[i] = saved[i] /\ secSaved'[i] = secSaved[i]
      /\ Last(saved) = saved[n] /\ Last(secSaved) = secSaved[n]
  BY <1>1 DEF WalkInv, Shape, SemaClose, SecClose, Front, Last
<1>4. ASSUME NEW skips, NEW i \in 1 .. n - 1
      PROVE  Seen(path', i, skips) <=> Seen(path, i, skips)
  <2>1. \A j \in 1 .. i : path'[j] = path[j]
    BY <1>1
  <2> QED
    BY <2>1, Zenon DEF Seen
<1>5. ASSUME NEW skips
      PROVE  Within(skips) <=> ~Seen(path, n, skips)
  BY <1>1 DEF Seen, Within
<1>6. ASSUME NEW kind, NEW i \in 1 .. n
      PROVE  Around(path', i - 1, kind) <=> Around(path, i - 1, kind)
  BY <1>1 DEF Around
<1>7. ASSUME NEW kind, NEW skips
      PROVE  /\ Within(skips) => (SeenAround(path', kind, skips) <=> SeenAround(path, kind, skips))
             /\ ~Within(skips) /\ Top # kind =>
                  (SeenAround(path', kind, skips) <=> SeenAround(path, kind, skips))
             /\ ~Within(skips) => (SeenAround(path', kind, skips) <=> Around(path, n - 1, kind))
  <2>1. SeenAround(path', kind, skips) <=>
          \E i \in 1 .. n - 1 : path[i].kind = kind /\ Seen(path, i, skips)
    <3>1. Len(path') = n - 1 /\ \A i \in 1 .. n - 1 : path'[i] = path[i]
      BY <1>1
    <3> HIDE DEF n
    <3> QED
      BY <3>1, <1>4, Zenon DEF SeenAround
  <2>2. \A i \in 1 .. n : i = n \/ i \in 1 .. n - 1
    BY <1>1
  <2>3. n \in 1 .. n /\ \A i \in 1 .. n - 1 : i \in 1 .. n
    BY <1>1
  <2>4. SeenAround(path, kind, skips) <=>
          \/ SeenAround(path', kind, skips)
          \/ Top = kind /\ Seen(path, n, skips)
    BY <1>1, <2>1, <2>2, <2>3, Zenon DEF SeenAround
  <2>5. Seen(path, n, skips) => \A i \in 1 .. n - 1 : Seen(path, i, skips)
    BY <1>1 DEF Seen
  <2>6. ~Within(skips) => (SeenAround(path', kind, skips) <=> Around(path, n - 1, kind))
    BY <1>5, <2>1, <2>5, Zenon DEF Around
  <2> QED
    BY <1>5, <2>4, <2>6, Zenon
<1>8. Flags'
  <2>1. /\ inLoop' <=> IF ~Within(SemaSkips) /\ Top = "loop" THEN saved[n].inLoop ELSE inLoop
        /\ inUnsafe' <=> IF ~Within(SemaSkips) /\ Top = "unsafe" THEN saved[n].inUnsafe ELSE inUnsafe
        /\ secUnsafe' <=> IF ~Within(SecSkips) /\ Top \in {"unsafe", "fn"}
                          THEN secSaved[n].unsafe ELSE secUnsafe
    BY <1>3, Zenon DEF SemaClose, SecClose
  <2>2. n \in 1 .. n
    BY <1>1
  <2>3. /\ ~Within(SemaSkips) => (saved[n].inLoop <=> Around(path, n - 1, "loop"))
        /\ ~Within(SemaSkips) => (saved[n].inUnsafe <=> Around(path, n - 1, "unsafe"))
        /\ ~Within(SecSkips) => (secSaved[n].unsafe <=> Around(path, n - 1, "unsafe"))
    BY <1>5, <2>2, Zenon DEF WalkInv, Locals, SavedRight
  <2> QED
    BY <1>7, <2>1, <2>3, Zenon DEF WalkInv, Flags
<1>9. Locals'
  <2> SUFFICES ASSUME NEW i \in 1 .. n - 1
               PROVE  SavedRight(path', saved', secSaved', i)
    BY <1>1 DEF Locals
  <2>1. i \in 1 .. n
    BY <1>1
  <2> QED
    BY <2>1, <1>3, <1>4, <1>6, Zenon DEF WalkInv, Locals, SavedRight
<1> QED
  BY <1>2, <1>8, <1>9 DEF WalkInv

(* A node without constructs of its own does.                               *)
LEMMA NodeKeepsWalk ==
  ASSUME WalkInv, SameKinds \/ UNCHANGED path,
         UNCHANGED <<saved, secSaved, inLoop, inUnsafe, secUnsafe>>,
         mutations' \in Nat
  PROVE  WalkInv'
<1>1. /\ path' \in Seq(Frame) /\ Len(path') = Len(path) /\ Len(path) \in Nat
      /\ \A i \in 1 .. Len(path) : path'[i].kind = path[i].kind
  BY DEF SameKinds, WalkInv, Shape
<1>2. Shape'
  BY <1>1 DEF WalkInv, Shape
<1>3. ASSUME NEW skips, NEW i \in 1 .. Len(path)
      PROVE  Seen(path', i, skips) <=> Seen(path, i, skips)
  BY <1>1 DEF Seen
<1>4. ASSUME NEW kind, NEW i \in 1 .. Len(path)
      PROVE  Around(path', i - 1, kind) <=> Around(path, i - 1, kind)
  BY <1>1 DEF Around
<1>5. ASSUME NEW kind, NEW skips
      PROVE  SeenAround(path', kind, skips) <=> SeenAround(path, kind, skips)
  BY <1>1, <1>3 DEF SeenAround
<1> QED
  BY <1>1, <1>2, <1>3, <1>4, <1>5, Zenon DEF WalkInv, Flags, Locals, SavedRight

-----------------------------------------------------------------------------

(* What a step may do to the verdict of a build that goes on: errors stay,  *)
(* and one about the guards is found by one of the analysers.               *)
Judged ==
  /\ semaErrors => semaErrors'
  /\ secErrors => secErrors'
  /\ guardFault' => guardFault \/ semaErrors' \/ secErrors'
  /\ phase' \in {"register", "walk"}

LEMMA JudgedKeepsVerdict ==
  ASSUME Verdict, Judged
  PROVE  Verdict'
<1>1. phase' \notin {"generate", "built", "unwritten"}
  BY DEF Judged
<1> QED
  BY <1>1, Zenon DEF Verdict, Judged

(* Errors are never taken back.                                             *)
LEMMA ErrorsStay ==
  /\ \A diagnostics : Report(diagnostics) => (semaErrors => semaErrors')
  /\ \A diagnostics : SecFinds(diagnostics) => (secErrors => secErrors')
BY Zenon DEF Report, SecFinds

(* Nothing is held against the guards at a node without such an error.      *)
LEMMA HarmlessNode ==
  ASSUME NEW found, Judge(found), found \cap GuardFaults = {}
  PROVE  guardFault' => guardFault
BY Zenon DEF Judge

LEMMA InitInv == Init => BuildInv
<1> SUFFICES ASSUME Init PROVE BuildInv
  OBVIOUS
<1>1. Shape
  <2>1. path = <<>> /\ saved = <<>> /\ secSaved = <<>> /\ mutations = 0
    BY DEF Init, SemaInit, SecInit
  <2>2. inLoop \in BOOLEAN /\ inUnsafe \in BOOLEAN /\ secUnsafe \in BOOLEAN
    BY Zenon DEF Init, SemaInit, SecInit
  <2> QED
    BY <2>1, <2>2 DEF Shape
<1>2. Flags
  BY DEF Init, SemaInit, SecInit, Flags, SeenAround
<1>3. Locals
  BY DEF Init, Locals
<1>4. Verdict
  BY DEF Init, SemaInit, SecInit, Verdict
<1> QED
  BY <1>1, <1>2, <1>3, <1>4 DEF BuildInv, WalkInv

(* Before the walk the tree is not touched.                                 *)
LEMMA BeforeTheWalk ==
  ASSUME BuildInv, StartAnalysis \/ RegisterName \/ StartWalk
  PROVE  BuildInv'
<1>1. WalkInv'
  <2>1. /\ UNCHANGED <<path, saved, secSaved, inLoop, inUnsafe, secUnsafe, mutations>>
    BY DEF StartAnalysis, RegisterName, StartWalk, Register, semaVars, secVars
  <2> QED
    BY <2>1, NodeKeepsWalk DEF BuildInv, WalkInv, Shape
<1>2. CASE StartAnalysis
  <2>1. phase' \notin {"generate", "built", "unwritten"}
    BY <1>2 DEF StartAnalysis
  <2>2. UNCHANGED <<guardFault, semaErrors, secErrors>>
    BY <1>2 DEF StartAnalysis, judgement, semaVars, secVars
  <2> QED
    BY <1>1, <2>1, <2>2, Zenon DEF BuildInv, Verdict
<1>3. CASE RegisterName
  <2>1. PICK x \in Names : Register(x) /\ Judge(If(x \in scopes[1], "twice"))
    BY <1>3 DEF RegisterName
  <2>2. guardFault' => guardFault
    <3>1. If(x \in scopes[1], "twice") \cap GuardFaults = {}
      BY DEF If, GuardFaults
    <3> QED
      BY <2>1, <3>1, HarmlessNode
  <2>3. semaErrors => semaErrors'
    BY <2>1, ErrorsStay, Zenon DEF Register
  <2>4. secErrors' = secErrors /\ phase' = "register"
    BY <1>3 DEF RegisterName, secVars
  <2> QED
    BY <1>1, <2>2, <2>3, <2>4, JudgedKeepsVerdict, Zenon DEF BuildInv, Judged
<1>4. CASE StartWalk
  <2>1. Report({}) /\ Judge({}) /\ secErrors' = secErrors /\ phase' = "walk"
    BY <1>4 DEF StartWalk, secVars
  <2>2. guardFault' => guardFault
    BY <2>1, HarmlessNode
  <2>3. semaErrors => semaErrors'
    BY <2>1, ErrorsStay, Zenon
  <2> QED
    BY <1>1, <2>1, <2>2, <2>3, JudgedKeepsVerdict, Zenon DEF BuildInv, Judged
<1> QED
  BY <1>2, <1>3, <1>4

(* Constructs are entered and left.                                         *)
LEMMA ConstructsKeepInv ==
  ASSUME BuildInv, EnterNode \/ LeaveNode
  PROVE  BuildInv'
<1>1. CASE EnterNode
  <2>1. PICK k \in Kinds, names \in SUBSET Names :
          Open(k, names) /\ SemaOpen(k, names) /\ SecOpen(k)
    BY <1>1 DEF EnterNode
  <2>2. WalkInv'
    BY <2>1, EnterKeepsWalk DEF BuildInv
  <2>3. Judge({}) /\ phase' = "walk"
    BY <1>1 DEF EnterNode, Walking
  <2>4. guardFault' => guardFault
    BY <2>3, HarmlessNode
  <2>5. (semaErrors => semaErrors') /\ (secErrors => secErrors')
    BY <2>1, ErrorsStay, Zenon DEF SemaOpen, SecOpen
  <2> QED
    BY <2>2, <2>3, <2>4, <2>5, JudgedKeepsVerdict, Zenon DEF BuildInv, Judged
<1>2. CASE LeaveNode
  <2>1. Close /\ SemaClose /\ SecClose /\ Judge({}) /\ phase' = "walk"
    BY <1>2 DEF LeaveNode, Walking
  <2>2. WalkInv'
    BY <2>1, LeaveKeepsWalk DEF BuildInv
  <2>3. guardFault' => guardFault
    BY <2>1, HarmlessNode
  <2>4. (semaErrors => semaErrors') /\ (secErrors => secErrors')
    BY <2>1, ErrorsStay, Zenon DEF SemaClose, SecClose
  <2> QED
    BY <2>1, <2>2, <2>3, <2>4, JudgedKeepsVerdict, Zenon DEF BuildInv, Judged
<1> QED
  BY <1>1, <1>2

(* The analysers have a complaint where the rules of the language have one. *)
LEMMA GuardsAreFound ==
  ASSUME WalkInv
  PROVE  /\ Asm => (guardFault' => guardFault \/ semaErrors')
         /\ Break => (guardFault' => guardFault \/ semaErrors')
         /\ Port => (guardFault' => guardFault \/ secErrors')
<1>1. /\ ~Within({"statement", "size"}) => ~Within(SemaSkips)
      /\ ~Within({"statement", "size"}) /\ ~Within({"const"}) => ~Within(SecSkips)
  BY DEF Within, SemaSkips, SecSkips
<1>2. ASSUME Asm PROVE guardFault' => guardFault \/ semaErrors'
  <2>1. SemaAsm /\ Judge(If(~Within({"unsafe"}), "asm"))
    BY <1>2 DEF Asm
  <2>2. guardFault' => guardFault \/ (~Within({"unsafe"}) /\ ~Within({"statement", "size"}))
    BY <2>1, Zenon DEF Judge, If, Unchecked
  <2>3. ~inUnsafe /\ ~Within(SemaSkips) => semaErrors'
    <3>1. {"asm"} \ {"undeclared"} # {}
      OBVIOUS
    <3> QED
      BY <2>1, <3>1, Zenon DEF SemaAsm, SemaNode, Report
  <2> QED
    BY <1>1, <2>2, <2>3, FlagsInWalkedCode, Zenon
<1>3. ASSUME Break PROVE guardFault' => guardFault \/ semaErrors'
  <2>1. SemaBreak /\ Judge(If(~Within({"loop"}), "break"))
    BY <1>3 DEF Break
  <2>2. guardFault' => guardFault \/ (~Within({"loop"}) /\ ~Within({"statement", "size"}))
    BY <2>1, Zenon DEF Judge, If, Unchecked
  <2>3. ~inLoop /\ ~Within(SemaSkips) => semaErrors'
    <3>1. {"break"} \ {"undeclared"} # {}
      OBVIOUS
    <3> QED
      BY <2>1, <3>1, Zenon DEF SemaBreak, SemaNode, Report
  <2> QED
    BY <1>1, <2>2, <2>3, FlagsInWalkedCode, Zenon
<1>4. ASSUME Port PROVE guardFault' => guardFault \/ secErrors'
  <2>1. PICK form \in PortForms :
          /\ SecPort(form)
          /\ Judge(If(~Within({"unsafe"}), IF form = "callee" THEN "port" ELSE "hidden port"))
    BY <1>4 DEF Port
  <2>2. guardFault' => guardFault \/ (/\ form = "callee" /\ ~Within({"unsafe"})
                                      /\ ~Within({"statement", "size"}) /\ ~Within({"const"}))
    <3>1. {"hidden port"} \cap GuardFaults = {} /\ {"port"} \cap {"port", "hidden port"} # {}
      BY DEF GuardFaults
    <3>2. CASE form = "callee"
      BY <2>1, <3>1, <3>2, Zenon DEF Judge, If, Unchecked
    <3>3. CASE form # "callee"
      BY <2>1, <3>1, <3>3, Zenon DEF Judge, If
    <3> QED
      BY <3>2, <3>3
  <2>3. form = "callee" /\ ~secUnsafe /\ ~Within(SecSkips) => secErrors'
    <3>1. {"port"} \ {"race"} # {}
      OBVIOUS
    <3> QED
      BY <2>1, <3>1, Zenon DEF SecPort, SecNode, SecFinds
  <2> QED
    BY <1>1, <2>2, <2>3, FlagsInWalkedCode, Zenon
<1> QED
  BY <1>2, <1>3, <1>4, Zenon

(* The nodes that are looked at alone.                                      *)
LEMMA NodesKeepInv ==
  ASSUME BuildInv, Asm \/ Port \/ Use \/ Let \/ Assign \/ Break
  PROVE  BuildInv'
<1>1. WalkInv'
  <2>1. UNCHANGED <<saved, secSaved, inLoop, inUnsafe, secUnsafe>>
    BY DEF Asm, Port, Use, Let, Assign, Break, SemaAsm, SemaBreak, SemaUse,
           SemaOther, SemaLet, SemaNode, SecAsm, SecPort, SecOther, SecNode, SecAssign
  <2>2. mutations' \in Nat
    <3>1. mutations \in Nat
      BY DEF BuildInv, WalkInv, Shape
    <3>2. mutations' = mutations \/ mutations' = mutations + 1
      BY Zenon DEF Asm, Port, Use, Let, Assign, Break, SecAsm, SecPort,
                   SecOther, SecNode, SecAssign
    <3> QED
      BY <3>1, <3>2
  <2>3. SameKinds \/ UNCHANGED path
    BY DeclareKeepsKinds, AssignmentKeepsKinds
       DEF Asm, Port, Use, Let, Assign, Break, BuildInv, WalkInv
  <2> QED
    BY <2>1, <2>2, <2>3, NodeKeepsWalk DEF BuildInv
<1>2. Judged
  <2>1. semaErrors => semaErrors'
    BY ErrorsStay, Zenon
       DEF Asm, Port, Use, Let, Assign, Break, SemaAsm, SemaBreak, SemaUse,
           SemaOther, SemaLet, SemaNode
  <2>2. secErrors => secErrors'
    BY ErrorsStay, Zenon
       DEF Asm, Port, Use, Let, Assign, Break, SecAsm, SecPort, SecOther,
           SecNode, SecAssign
  <2>3. phase' = "walk"
    BY DEF Asm, Port, Use, Let, Assign, Break, Walking
  <2>4. guardFault' => guardFault \/ semaErrors' \/ secErrors'
    <3>1. CASE Asm \/ Break \/ Port
      BY <3>1, GuardsAreFound, Zenon DEF BuildInv
    <3>2. CASE Use \/ Let \/ Assign
      <4>1. PICK found : Judge(found) /\ found \cap GuardFaults = {}
        BY <3>2 DEF Use, Let, Assign, If, GuardFaults
      <4> QED
        BY <4>1, HarmlessNode
    <3> QED
      BY <3>1, <3>2
  <2> QED
    BY <2>1, <2>2, <2>3, <2>4, Zenon DEF Judged
<1> QED
  BY <1>1, <1>2, JudgedKeepsVerdict DEF BuildInv

(* The end of the build.                                                    *)
LEMMA EndKeepsInv ==
  ASSUME BuildInv, Finish \/ Generate \/ WriteFile \/ UNCHANGED vars
  PROVE  BuildInv'
<1>1. /\ UNCHANGED <<path, saved, secSaved, inLoop, inUnsafe, secUnsafe, mutations>>
      /\ UNCHANGED <<guardFault, semaErrors, secErrors>>
  BY DEF Finish, Generate, WriteFile, vars, buildVars, judgement, semaVars, secVars
<1>2. WalkInv'
  BY <1>1, NodeKeepsWalk DEF BuildInv, WalkInv, Shape
<1>3. \/ phase' = phase \/ phase' = "failed" \/ (~semaErrors /\ ~secErrors)
      \/ phase = "generate"
  BY DEF Finish, Generate, WriteFile, vars, buildVars
<1>4. phase' \in {"generate", "built", "unwritten"} => ~semaErrors /\ ~secErrors
  BY <1>3, Zenon DEF BuildInv, Verdict
<1> QED
  BY <1>1, <1>2, <1>4, Zenon DEF BuildInv, Verdict

(* The analysers keep the context of the node, and an error they have       *)
(* reported ends the build: this is inductive.                              *)
THEOREM BuildInvariant == Spec => []BuildInv
<1>1. BuildInv /\ [Next]_vars => BuildInv'
  BY BeforeTheWalk, ConstructsKeepInv, NodesKeepInv, EndKeepsInv DEF Next
<1> QED
  BY InitInv, <1>1, PTL DEF Spec

(* For programs of any depth: qpc build writes no C file for a program with *)
(* an asm! or a direct call of port:: outside of an unsafe block, or a break*)
(* outside of a loop, in the code that the analysers walk.  Of a port:: that*)
(* is not called directly it says nothing.                                  *)
THEOREM BuiltProgramsAreGuarded == Spec => []BuiltIsGuarded
<1>1. BuildInv => BuiltIsGuarded
  BY Zenon DEF BuildInv, Verdict, BuiltIsGuarded
<1> QED
  BY BuildInvariant, <1>1, PTL

-----------------------------------------------------------------------------
(* What the analysers report is what is wrong at the node.                  *)

(* A declaration is at the first place, or a function at the second inside  *)
(* of a driver; everything else is inside of them.                          *)
Nesting ==
  /\ path # <<>> => path[1].kind \in Declarations
  /\ \A i \in 2 .. Len(path) :
       path[i].kind \in IF i = 2 /\ path[1].kind = "driver" THEN {"fn"} ELSE Nested

(* Each scope but the first, that of the declarations, is that of a walked  *)
(* construct at this place, and each walked construct with a scope has one. *)
ScopesAt(p, s, at) ==
  /\ at \in [1 .. Len(s) -> 0 .. Len(p)]
  /\ at[1] = 0
  /\ \A l, m \in 1 .. Len(s) : l < m => at[l] < at[m]
  /\ \A m \in 2 .. Len(s) : /\ at[m] \in 1 .. Len(p) /\ s[m] = p[at[m]].names
                            /\ p[at[m]].kind \in Scoped /\ Seen(p, at[m], SemaSkips)
  /\ \A i \in 1 .. Len(p) :
       p[i].kind \in Scoped /\ Seen(p, i, SemaSkips) => \E m \in 2 .. Len(s) : at[m] = i

Scoping ==
  /\ scopes \in Seq(SUBSET Names) /\ Len(scopes) # 0
  /\ \A i \in 1 .. Len(path) : path[i].kind \notin Scoped => path[i].names = {}
  /\ \E at \in [1 .. Len(scopes) -> 0 .. Len(path)] : ScopesAt(path, scopes, at)

(* The counter of a function is that of its own assignments.                *)
Counting ==
  \A i \in 1 .. Len(path) : path[i].kind = "fn" => (mutations > 0 <=> path[i].assigned)

(* Before the walk only names have been looked at.                          *)
NotWalking ==
  phase \in {"parsed", "register"} => path = <<>> /\ Len(scopes) = 1 /\ secReport = {}

ContextInv == Nesting /\ Scoping /\ Counting /\ NotWalking

Causes ==
  /\ semaErrors \/ secErrors => guardFault \/ nameFault
  /\ FailsForCause

ReportInv == BuildInv /\ ContextInv /\ ReportsExact /\ Causes

(* A new construct has the scopes of those around it, and one of its own.   *)
LEMMA EnterKeepsContext ==
  ASSUME WalkInv, Nesting, Scoping, Counting, NEW k \in Kinds, NEW names \in SUBSET Names,
         Open(k, names), SemaOpen(k, names), SecOpen(k)
  PROVE  Nesting' /\ Scoping' /\ Counting'
<1>1. PICK n \in Nat : n = Len(path) BY DEF WalkInv, Shape
<1> DEFINE f == [kind |-> k, names |-> names, assigned |-> FALSE]
<1>2. /\ Len(path') = n + 1
      /\ \A i \in 1 .. n : path'[i] = path[i]
      /\ path'[n + 1].kind = k /\ path'[n + 1].names = names /\ path'[n + 1].assigned = FALSE
  <2>1. f \in Frame /\ f.kind = k /\ f.names = names /\ f.assigned = FALSE BY DEF Frame
  <2>2. path' = Append(path, f) /\ path \in Seq(Frame) BY DEF Open, WalkInv, Shape
  <2> HIDE DEF f
  <2>3. Len(path') = n + 1 /\ path'[n + 1] = f /\ \A i \in 1 .. n : path'[i] = path[i]
    BY <1>1, <2>1, <2>2
  <2>4. QED BY <2>1, <2>3
<1>3. path = <<>> <=> n = 0 BY <1>1 DEF WalkInv, Shape
<1>4. Nesting'
  <2>1. CASE n = 0
    <3>1. k \in Declarations BY <1>3, <2>1 DEF Open, MayOpen
    <3>2. QED BY <1>2, <2>1, <3>1 DEF Nesting
  <2>2. CASE n # 0
    <3>1. Top = path[n].kind BY <1>1, <2>2 DEF Top, Last
    <3>2. path # <<>> /\ (Top = "driver" => k = "fn") /\ (Top # "driver" => k \in Nested)
      BY <1>3, <2>2 DEF Open, MayOpen, Nested
    <3>3. path'[1] = path[1] BY <1>2, <2>2
    <3>4. n > 1 => path[n].kind # "driver"
      BY <1>1 DEF Nesting, Nested
    <3>5. ASSUME NEW i \in 2 .. n + 1
          PROVE  path'[i].kind \in IF i = 2 /\ path'[1].kind = "driver" THEN {"fn"} ELSE Nested
      <4>1. CASE i \in 2 .. n BY <1>1, <1>2, <3>3, <4>1 DEF Nesting
      <4>2. CASE i = n + 1
        <5>1. n = 1 => path[n].kind = path[1].kind OBVIOUS
        <5>2. QED BY <1>2, <3>1, <3>2, <3>3, <3>4, <4>2
      <4>3. QED BY <4>1, <4>2
    <3>6. QED BY <1>2, <3>2, <3>3, <3>5 DEF Nesting
  <2>3. QED BY <2>1, <2>2
<1>5. PICK m \in Nat \ {0} : m = Len(scopes) BY DEF Scoping
<1>6. PICK at \in [1 .. m -> 0 .. n] : ScopesAt(path, scopes, at)
  BY <1>1, <1>5 DEF Scoping
<1>7. /\ at[1] = 0
      /\ \A l, o \in 1 .. m : l < o => at[l] < at[o]
      /\ \A l \in 2 .. m : /\ scopes[l] = path[at[l]].names /\ at[l] \in 1 .. n
                           /\ path[at[l]].kind \in Scoped /\ Seen(path, at[l], SemaSkips)
      /\ \A i \in 1 .. n :
           path[i].kind \in Scoped /\ Seen(path, i, SemaSkips) => \E l \in 2 .. m : at[l] = i
  BY <1>1, <1>5, <1>6 DEF ScopesAt
<1>8. ASSUME NEW i \in 1 .. n
      PROVE  Seen(path', i, SemaSkips) <=> Seen(path, i, SemaSkips)
  <2>1. \A j \in 1 .. i : path'[j] = path[j] BY <1>2
  <2>2. QED BY <2>1, Zenon DEF Seen
<1>9. /\ Within(SemaSkips) <=> ~Seen(path, n, SemaSkips)
      /\ Seen(path', n + 1, SemaSkips) <=> ~Within(SemaSkips) /\ k \notin SemaSkips
  <2>1. DOMAIN path = 1 .. n BY <1>1 DEF WalkInv, Shape
  <2>2. Within(SemaSkips) <=> ~Seen(path, n, SemaSkips) BY <2>1 DEF Seen, Within
  <2>3. Seen(path', n + 1, SemaSkips) <=> Seen(path, n, SemaSkips) /\ k \notin SemaSkips
    BY <1>2 DEF Seen
  <2>4. QED BY <2>2, <2>3
<1>10. k \notin Scoped => names = {} BY DEF Open, Scoped
<1>11. \A i \in 1 .. n + 1 : path'[i].kind \notin Scoped => path'[i].names = {}
  <2>1. \A i \in 1 .. n : path[i].kind \notin Scoped => path[i].names = {}
    BY <1>1 DEF Scoping
  <2>2. QED BY <1>2, <1>10, <2>1
<1>12. Scoping'
  <2>1. CASE k \in Scoped /\ ~Within(SemaSkips)
    <3>1. /\ scopes' \in Seq(SUBSET Names) /\ Len(scopes') = m + 1
          /\ scopes'[m + 1] = names /\ \A l \in 1 .. m : scopes'[l] = scopes[l]
      <4>1. scopes' = Append(scopes, names) /\ scopes \in Seq(SUBSET Names)
        BY <2>1 DEF SemaOpen, Scoping
      <4>2. QED BY <1>5, <4>1
    <3> DEFINE to == [l \in 1 .. m + 1 |-> IF l = m + 1 THEN n + 1 ELSE at[l]]
    <3>2. /\ to \in [1 .. m + 1 -> 0 .. n + 1] /\ to[m + 1] = n + 1
          /\ \A l \in 1 .. m : to[l] = at[l]
      OBVIOUS
    <3> HIDE DEF to
    <3>3. k \notin SemaSkips BY <2>1 DEF Scoped, SemaSkips
    <3>4. to[1] = 0 BY <1>7, <3>2
    <3>5. ASSUME NEW l \in 1 .. m + 1, NEW o \in 1 .. m + 1, l < o PROVE to[l] < to[o]
      <4>1. l \in 1 .. m BY <3>5
      <4>2. PICK a \in 0 .. n : a = to[l] /\ a = at[l] BY <3>2, <4>1
      <4>3. CASE o = m + 1 BY <3>2, <4>2, <4>3
      <4>4. CASE o \in 1 .. m BY <1>7, <3>2, <3>5, <4>1, <4>4
      <4>5. o = m + 1 \/ o \in 1 .. m OBVIOUS
      <4>6. QED BY <4>3, <4>4, <4>5
    <3>6. ASSUME NEW l \in 2 .. m + 1
          PROVE  /\ to[l] \in 1 .. n + 1 /\ scopes'[l] = path'[to[l]].names
                 /\ path'[to[l]].kind \in Scoped /\ Seen(path', to[l], SemaSkips)
      <4>1. CASE l = m + 1 BY <1>2, <1>9, <2>1, <3>1, <3>2, <3>3, <4>1
      <4>2. CASE l \in 2 .. m
        <5>1. PICK a \in 1 .. n : a = at[l] /\ a = to[l] BY <1>7, <3>2, <4>2
        <5>2. /\ scopes[l] = path[a].names /\ path[a].kind \in Scoped
              /\ Seen(path, a, SemaSkips)
          BY <1>7, <4>2, <5>1
        <5>3. scopes'[l] = scopes[l] BY <3>1, <4>2
        <5>4. QED BY <1>2, <1>8, <5>1, <5>2, <5>3
      <4>3. QED BY <4>1, <4>2
    <3>7. ASSUME NEW i \in 1 .. n + 1, path'[i].kind \in Scoped, Seen(path', i, SemaSkips)
          PROVE  \E l \in 2 .. m + 1 : to[l] = i
      <4>1. CASE i = n + 1
        <5>1. m + 1 \in 2 .. m + 1 OBVIOUS
        <5>2. QED BY <3>2, <4>1, <5>1
      <4>2. CASE i \in 1 .. n
        <5>1. PICK l \in 2 .. m : at[l] = i BY <1>2, <1>7, <1>8, <3>7, <4>2
        <5>2. l \in 2 .. m + 1 /\ to[l] = i BY <3>2, <5>1
        <5>3. QED BY <5>2
      <4>3. QED BY <4>1, <4>2
    <3>8. ScopesAt(path', scopes', to)
      BY <1>2, <3>1, <3>2, <3>4, <3>5, <3>6, <3>7 DEF ScopesAt
    <3>9. to \in [1 .. Len(scopes') -> 0 .. Len(path')] /\ Len(scopes') # 0
      BY <1>2, <3>1, <3>2
    <3>10. \A i \in 1 .. Len(path') : path'[i].kind \notin Scoped => path'[i].names = {}
      BY <1>2, <1>11
    <3>11. QED BY <3>1, <3>8, <3>9, <3>10 DEF Scoping
  <2>2. CASE ~ (k \in Scoped /\ ~Within(SemaSkips))
    <3>1. scopes' = scopes BY <2>2 DEF SemaOpen
    <3>2. at \in [1 .. m -> 0 .. n + 1] BY <1>7
    <3>3. ASSUME NEW l \in 2 .. m
          PROVE  /\ at[l] \in 1 .. n + 1 /\ scopes[l] = path'[at[l]].names
                 /\ path'[at[l]].kind \in Scoped /\ Seen(path', at[l], SemaSkips)
      <4>1. PICK a \in 1 .. n :
              /\ a = at[l] /\ scopes[l] = path[a].names /\ path[a].kind \in Scoped
              /\ Seen(path, a, SemaSkips)
        BY <1>7
      <4>2. QED BY <1>2, <1>8, <4>1
    <3>4. ASSUME NEW i \in 1 .. n + 1, path'[i].kind \in Scoped, Seen(path', i, SemaSkips)
          PROVE  \E l \in 2 .. m : at[l] = i
      <4>1. i # n + 1 BY <1>2, <1>9, <2>2, <3>4
      <4>2. i \in 1 .. n BY <4>1
      <4>3. QED BY <1>2, <1>7, <1>8, <3>4, <4>2
    <3>5. ScopesAt(path', scopes', at)
      BY <1>2, <1>5, <1>7, <3>1, <3>2, <3>3, <3>4 DEF ScopesAt
    <3>6. scopes \in Seq(SUBSET Names) BY DEF Scoping
    <3>7. QED BY <1>2, <1>5, <1>11, <3>1, <3>2, <3>5, <3>6 DEF Scoping
  <2>3. QED BY <2>1, <2>2
<1>13. Counting'
  <2>1. CASE k = "fn"
    <3>1. n = 0 \/ (n = 1 /\ path[1].kind = "driver")
      BY <1>2, <1>4, <2>1, SMTT(30) DEF Nesting, Nested
    <3>2. ~Within(SecSkips)
      BY <1>1, <3>1 DEF Within, SecSkips, WalkInv, Shape
    <3>3. mutations' = 0 BY <2>1, <3>2 DEF SecOpen
    <3>4. \A i \in 1 .. n + 1 : path'[i].kind = "fn" => i = n + 1 BY <1>2, <3>1
    <3>5. QED BY <1>2, <3>3, <3>4 DEF Counting
  <2>2. CASE k # "fn"
    <3>1. mutations' = mutations BY <2>2 DEF SecOpen
    <3>2. \A i \in 1 .. n : path[i].kind = "fn" => (mutations > 0 <=> path[i].assigned)
      BY <1>1 DEF Counting
    <3>3. QED BY <1>2, <2>2, <3>1, <3>2 DEF Counting
  <2>3. QED BY <2>1, <2>2
<1>14. QED BY <1>4, <1>12, <1>13

(* Leaving it takes its scope away, and no other.                           *)
LEMMA LeaveKeepsContext ==
  ASSUME WalkInv, Nesting, Scoping, Counting, Close, SemaClose, SecClose
  PROVE  Nesting' /\ Scoping' /\ Counting'
<1>1. PICK n \in Nat \ {0} : n = Len(path) BY CloseTakesLast DEF WalkInv
<1>2. /\ Len(path') = n - 1
      /\ \A i \in 1 .. n - 1 : path'[i] = path[i]
      /\ Top = path[n].kind
  BY <1>1, CloseTakesLast DEF WalkInv
<1>3. Nesting'
  <2>1. path # <<>> BY DEF Close
  <2>2. path' # <<>> => n - 1 # 0
    BY <1>2, CloseTakesLast DEF WalkInv
  <2>3. n - 1 # 0 => path'[1] = path[1] BY <1>2
  <2>4. ASSUME NEW i \in 2 .. n - 1
        PROVE  path'[i].kind \in IF i = 2 /\ path'[1].kind = "driver" THEN {"fn"} ELSE Nested
    <3>1. path'[i] = path[i] /\ path'[1] = path[1] BY <1>2
    <3>2. i \in 2 .. Len(path) BY <1>1
    <3>3. QED BY <3>1, <3>2 DEF Nesting
  <2>5. QED BY <1>2, <2>1, <2>2, <2>3, <2>4 DEF Nesting
<1>4. PICK m \in Nat \ {0} : m = Len(scopes) BY DEF Scoping
<1>5. PICK at \in [1 .. m -> 0 .. n] : ScopesAt(path, scopes, at)
  BY <1>1, <1>4 DEF Scoping
<1>6. /\ at[1] = 0
      /\ \A l, o \in 1 .. m : l < o => at[l] < at[o]
      /\ \A l \in 2 .. m : /\ scopes[l] = path[at[l]].names /\ at[l] \in 1 .. n
                           /\ path[at[l]].kind \in Scoped /\ Seen(path, at[l], SemaSkips)
      /\ \A i \in 1 .. n :
           path[i].kind \in Scoped /\ Seen(path, i, SemaSkips) => \E l \in 2 .. m : at[l] = i
  BY <1>1, <1>4, <1>5 DEF ScopesAt
<1>7. \A i \in 1 .. n - 1 : Seen(path', i, SemaSkips) <=> Seen(path, i, SemaSkips)
  <2>1. \A i \in 1 .. n - 1 : \A j \in 1 .. i : path'[j] = path[j] BY <1>2
  <2>2. QED BY <2>1, Zenon DEF Seen
<1>8. Within(SemaSkips) <=> ~Seen(path, n, SemaSkips)
  <2>1. DOMAIN path = 1 .. n BY <1>1 DEF WalkInv, Shape
  <2>2. QED BY <2>1 DEF Seen, Within
<1>9. \A i \in 1 .. n - 1 : path'[i].kind \notin Scoped => path'[i].names = {}
  BY <1>1, <1>2, SMTT(30) DEF Scoping
<1>10. scopes \in Seq(SUBSET Names) BY DEF Scoping
(* Those scopes that are left belong to constructs that are left.           *)
<1>11. ASSUME NEW c \in Nat \ {0}, c <= m, \A l \in 2 .. c : at[l] # n,
              \A l \in c + 1 .. m : at[l] = n,
              scopes' \in Seq(SUBSET Names), Len(scopes') = c,
              \A l \in 1 .. c : scopes'[l] = scopes[l]
       PROVE  Scoping'
  <2> DEFINE to == [l \in 1 .. c |-> at[l]]
  <2>1. \A l \in 1 .. c : to[l] = at[l] OBVIOUS
  <2>2. ASSUME NEW l \in 1 .. c PROVE at[l] \in 0 .. n - 1
    <3>1. CASE l = 1 BY <1>6, <3>1
    <3>2. CASE l \in 2 .. c
      <4>1. at[l] # n BY <1>11, <3>2
      <4>2. l \in 2 .. m BY <1>11, <3>2
      <4>3. at[l] \in 1 .. n BY <1>6, <4>2
      <4>4. QED BY <4>1, <4>3
    <3>3. QED BY <3>1, <3>2
  <2>3. to \in [1 .. c -> 0 .. n - 1] BY <2>2
  <2> HIDE DEF to
  <2>4. to[1] = 0 BY <1>6, <2>1
  <2>5. \A l, o \in 1 .. c : l < o => to[l] < to[o]
    <3>1. \A l \in 1 .. c : l \in 1 .. m BY <1>11
    <3>2. QED BY <1>6, <2>1, <3>1
  <2>6. ASSUME NEW l \in 2 .. c
        PROVE  /\ to[l] \in 1 .. n - 1 /\ scopes'[l] = path'[to[l]].names
               /\ path'[to[l]].kind \in Scoped /\ Seen(path', to[l], SemaSkips)
    <3>1. l \in 2 .. m /\ l \in 1 .. c BY <1>11
    <3>2. PICK a \in 1 .. n :
            /\ a = at[l] /\ scopes[l] = path[a].names /\ path[a].kind \in Scoped
            /\ Seen(path, a, SemaSkips)
      BY <1>6, <3>1
    <3>3. a \in 1 .. n - 1 BY <1>11, <3>2
    <3>4. to[l] = a /\ scopes'[l] = scopes[l] BY <1>11, <2>1, <3>1, <3>2
    <3>5. path'[a] = path[a] /\ Seen(path', a, SemaSkips) BY <1>2, <1>7, <3>2, <3>3
    <3>6. QED BY <3>2, <3>3, <3>4, <3>5
  <2>7. ASSUME NEW i \in 1 .. n - 1, path'[i].kind \in Scoped, Seen(path', i, SemaSkips)
        PROVE  \E l \in 2 .. c : to[l] = i
    <3>1. i \in 1 .. n /\ path'[i] = path[i] BY <1>2
    <3>2. PICK l \in 2 .. m : at[l] = i BY <1>6, <1>7, <2>7, <3>1
    <3>3. l \in 2 .. c
      <4>1. l \notin c + 1 .. m BY <1>11, <3>2
      <4>2. QED BY <4>1
    <3>4. to[l] = i BY <2>1, <3>2, <3>3
    <3>5. QED BY <3>3, <3>4
  <2>8. ScopesAt(path', scopes', to)
    BY <1>2, <1>11, <2>3, <2>4, <2>5, <2>6, <2>7 DEF ScopesAt
  <2>9. to \in [1 .. Len(scopes') -> 0 .. Len(path')] /\ Len(scopes') # 0
    BY <1>2, <1>11, <2>3
  <2>10. \A i \in 1 .. Len(path') : path'[i].kind \notin Scoped => path'[i].names = {}
    BY <1>2, <1>9
  <2>11. QED BY <1>11, <2>8, <2>9, <2>10 DEF Scoping
<1>12. Scoping'
  <2>1. CASE ~Within(SemaSkips) /\ Top \in Scoped
    <3>1. scopes' = Front(scopes) BY <2>1 DEF SemaClose
    <3>2. PICK l \in 2 .. m : at[l] = n BY <1>2, <1>6, <1>8, <2>1
    <3>3. m \in 1 .. m /\ l \in 1 .. m BY <3>2
    <3>4. l = m
      <4>1. SUFFICES ASSUME l < m PROVE FALSE BY <3>3
      <4>2. at[l] < at[m] /\ at[m] \in 0 .. n BY <1>6, <3>3, <4>1
      <4>3. QED BY <3>2, <4>2
    <3>5. PICK c \in Nat \ {0} : c = m - 1 BY <3>2, <3>4
    <3>6. /\ scopes' \in Seq(SUBSET Names) /\ Len(scopes') = c
          /\ \A j \in 1 .. c : scopes'[j] = scopes[j]
      BY <1>4, <1>10, <3>1, <3>5, ShortenSeq
    <3>7. \A j \in 2 .. c : at[j] # n
      <4>1. ASSUME NEW j \in 2 .. c PROVE at[j] < at[m]
        <5>1. j \in 1 .. m /\ j < m BY <3>5
        <5>2. QED BY <1>6, <3>3, <5>1
      <4>2. QED BY <3>2, <3>4, <4>1
    <3>8. \A j \in c + 1 .. m : at[j] = n BY <3>2, <3>4, <3>5
    <3>9. c <= m BY <3>5
    <3>10. QED BY <1>11, <3>6, <3>7, <3>8, <3>9
  <2>2. CASE ~ (~Within(SemaSkips) /\ Top \in Scoped)
    <3>1. scopes' = scopes BY <2>2 DEF SemaClose
    <3>2. ASSUME NEW l \in 2 .. m PROVE at[l] # n BY <1>2, <1>6, <1>8, <2>2
    <3>3. m <= m /\ \A l \in m + 1 .. m : at[l] = n OBVIOUS
    <3>4. QED BY <1>4, <1>10, <1>11, <3>1, <3>2, <3>3
  <2>3. QED BY <2>1, <2>2
<1>13. Counting'
  <2>1. CASE Top = "fn"
    <3>1. n = 1 \/ (n = 2 /\ path[1].kind = "driver")
      <4>1. SUFFICES ASSUME n # 1 PROVE n = 2 /\ path[1].kind = "driver"
        OBVIOUS
      <4>2. n \in 2 .. Len(path) BY <1>1, <4>1
      <4>3. path[n].kind \notin Nested BY <1>2, <2>1 DEF Nested
      <4>4. QED BY <4>2, <4>3 DEF Nesting
    <3>2. \A i \in 1 .. n - 1 : path'[i].kind # "fn" BY <1>2, <3>1
    <3>3. QED BY <1>2, <3>2 DEF Counting
  <2>2. CASE Top # "fn"
    <3>1. mutations' = mutations BY <2>2 DEF SecClose
    <3>2. \A i \in 1 .. n - 1 : path[i].kind = "fn" => (mutations > 0 <=> path[i].assigned)
      BY <1>1 DEF Counting
    <3>3. QED BY <1>2, <3>1, <3>2 DEF Counting
  <2>3. QED BY <2>1, <2>2
<1>14. QED BY <1>3, <1>12, <1>13

(* A node that declares nothing leaves the scopes right.                    *)
LEMMA NodeKeepsContext ==
  ASSUME WalkInv, Nesting, Scoping, SameKinds \/ UNCHANGED path, UNCHANGED scopes,
         \A i \in 1 .. Len(path) : path'[i].names = path[i].names
  PROVE  Nesting' /\ Scoping'
<1>1. PICK n \in Nat : n = Len(path) BY DEF WalkInv, Shape
<1>2. /\ Len(path') = n
      /\ \A i \in 1 .. n : path'[i].kind = path[i].kind /\ path'[i].names = path[i].names
  BY <1>1 DEF SameKinds
<1>3. (path = <<>> <=> n = 0) /\ (path' = <<>> <=> n = 0)
  BY <1>1, <1>2 DEF WalkInv, Shape, SameKinds
<1>4. Nesting'
  <2>1. path' # <<>> => path'[1].kind \in Declarations
    <3>1. n # 0 => 1 \in 1 .. n OBVIOUS
    <3>2. QED BY <1>2, <1>3, <3>1 DEF Nesting
  <2>2. ASSUME NEW i \in 2 .. n
        PROVE  path'[i].kind \in IF i = 2 /\ path'[1].kind = "driver" THEN {"fn"} ELSE Nested
    <3>1. i \in 1 .. n /\ 1 \in 1 .. n OBVIOUS
    <3>2. path'[i].kind = path[i].kind /\ path'[1].kind = path[1].kind BY <1>2, <3>1
    <3>3. path[i].kind \in IF i = 2 /\ path[1].kind = "driver" THEN {"fn"} ELSE Nested
      BY <1>1 DEF Nesting
    <3>4. QED BY <3>2, <3>3
  <2>3. QED BY <1>2, <2>1, <2>2 DEF Nesting
<1>5. Scoping'
  <2>1. PICK at \in [1 .. Len(scopes) -> 0 .. n] : ScopesAt(path, scopes, at)
    BY <1>1 DEF Scoping
  <2>2. \A i \in 1 .. n : Seen(path', i, SemaSkips) <=> Seen(path, i, SemaSkips)
    <3>1. \A i \in 1 .. n : \A j \in 1 .. i : path'[j].kind = path[j].kind BY <1>2
    <3>2. QED BY <3>1, Zenon DEF Seen
  <2>3. ScopesAt(path', scopes, at)
    BY <1>1, <1>2, <2>1, <2>2 DEF ScopesAt
  <2>4. \A i \in 1 .. n : path'[i].kind \notin Scoped => path'[i].names = {}
    BY <1>1, <1>2 DEF Scoping
  <2>5. QED BY <1>2, <2>1, <2>3, <2>4 DEF Scoping
<1>6. QED BY <1>4, <1>5

(* In walked code, the last scope is that of the innermost construct if it  *)
(* has one.                                                                 *)
LEMMA LastScope ==
  ASSUME WalkInv, path # <<>>, Top \in Scoped, ~Within(SemaSkips), Scoping,
         NEW at \in [1 .. Len(scopes) -> 0 .. Len(path)], ScopesAt(path, scopes, at)
  PROVE  /\ Len(scopes) \in 2 .. Len(scopes) /\ at[Len(scopes)] = Len(path)
         /\ \A l \in 2 .. Len(scopes) : l # Len(scopes) => at[l] # Len(path)
         /\ Last(scopes) = Last(path).names
<1>1. PICK n \in Nat \ {0} : n = Len(path) BY DEF WalkInv, Shape
<1>2. PICK m \in Nat \ {0} : m = Len(scopes) BY DEF Scoping
<1>3. Top = path[n].kind /\ Last(path) = path[n] /\ Last(scopes) = scopes[m]
  BY <1>1, <1>2 DEF Top, Last
<1>4. Seen(path, n, SemaSkips)
  <2>1. DOMAIN path = 1 .. n BY <1>1 DEF WalkInv, Shape
  <2>2. QED BY <2>1 DEF Seen, Within
<1>5. PICK l \in 2 .. m : at[l] = n
  BY <1>1, <1>2, <1>3, <1>4 DEF ScopesAt
<1>6. \A j, o \in 1 .. m : j < o => at[j] < at[o] BY <1>2 DEF ScopesAt
<1>7. l = m
  <2>1. SUFFICES ASSUME l < m PROVE FALSE OBVIOUS
  <2>2. l \in 1 .. m /\ m \in 1 .. m OBVIOUS
  <2>3. at[l] < at[m] /\ at[m] \in 0 .. n BY <1>1, <1>2, <1>6, <2>1, <2>2
  <2>4. QED BY <1>5, <2>3
<1>8. ASSUME NEW j \in 2 .. m, j # m PROVE at[j] # n
  <2>1. j \in 1 .. m /\ m \in 1 .. m /\ j < m BY <1>8
  <2>2. at[j] < at[m] BY <1>6, <2>1
  <2>3. QED BY <1>5, <1>7, <2>2
<1>9. scopes[m] = path[at[m]].names BY <1>2, <1>5, <1>7 DEF ScopesAt
<1>10. QED BY <1>1, <1>2, <1>3, <1>5, <1>7, <1>8, <1>9

(* A let enters its name where the construct around it declares it.         *)
LEMMA LetKeepsContext ==
  ASSUME WalkInv, Nesting, Scoping, HasStatements, Top = "block",
         NEW x \in Names, Declare(x), SemaLet(x)
  PROVE  Nesting' /\ Scoping'
<1>1. PICK n \in Nat \ {0} : n = Len(path) BY DEF WalkInv, Shape, HasStatements
<1>2. /\ Len(path') = n
      /\ \A i \in 1 .. n : /\ path'[i].kind = path[i].kind
                           /\ path'[i].names = IF i = n THEN path[i].names \cup {x}
                                                        ELSE path[i].names
  BY <1>1, DeclareKeepsKinds DEF SameKinds, WalkInv
<1>3. path # <<>> /\ Top = path[n].kind /\ Top \in Scoped
  BY <1>1 DEF Top, Last, HasStatements, Scoped
<1>4. Nesting'
  <2>1. path'[1].kind \in Declarations
    <3>1. 1 \in 1 .. n OBVIOUS
    <3>2. QED BY <1>2, <1>3, <3>1 DEF Nesting
  <2>2. ASSUME NEW i \in 2 .. n
        PROVE  path'[i].kind \in IF i = 2 /\ path'[1].kind = "driver" THEN {"fn"} ELSE Nested
    <3>1. i \in 1 .. n /\ 1 \in 1 .. n OBVIOUS
    <3>2. path'[i].kind = path[i].kind /\ path'[1].kind = path[1].kind BY <1>2, <3>1
    <3>3. path[i].kind \in IF i = 2 /\ path[1].kind = "driver" THEN {"fn"} ELSE Nested
      BY <1>1 DEF Nesting
    <3>4. QED BY <3>2, <3>3
  <2>3. QED BY <1>2, <2>1, <2>2 DEF Nesting
<1>5. PICK m \in Nat \ {0} : m = Len(scopes) BY DEF Scoping
<1>6. PICK at \in [1 .. m -> 0 .. n] : ScopesAt(path, scopes, at)
  BY <1>1, <1>5 DEF Scoping
<1>7. /\ scopes' \in Seq(SUBSET Names) /\ Len(scopes') = m
      /\ \A l \in 2 .. m : scopes'[l] = IF at[l] = n THEN scopes[l] \cup {x} ELSE scopes[l]
  <2>1. scopes \in Seq(SUBSET Names) BY DEF Scoping
  <2>2. CASE Within(SemaSkips)
    <3>1. scopes' = scopes BY <2>2 DEF SemaLet, SemaOther, SemaNode
    <3>2. ~Seen(path, n, SemaSkips)
      <4>1. DOMAIN path = 1 .. n BY <1>1 DEF WalkInv, Shape
      <4>2. QED BY <2>2, <4>1 DEF Seen, Within
    <3>3. \A l \in 2 .. m : at[l] # n BY <1>5, <1>6, <3>2 DEF ScopesAt
    <3>4. QED BY <1>5, <2>1, <3>1, <3>3
  <2>3. CASE ~Within(SemaSkips)
    <3>1. scopes' = [scopes EXCEPT ![m] = scopes[m] \cup {x}]
      BY <1>5, <2>3 DEF SemaLet
    <3>2. at[m] = n /\ \A l \in 2 .. m : l # m => at[l] # n
      BY <1>1, <1>3, <1>5, <1>6, <2>3, LastScope
    <3>3. PICK v \in SUBSET Names : v = scopes[m] \cup {x}
      <4>1. scopes[m] \in SUBSET Names BY <1>5, <2>1
      <4>2. QED BY <4>1
    <3>4. /\ scopes' \in Seq(SUBSET Names) /\ Len(scopes') = m
          /\ \A l \in 1 .. m : scopes'[l] = IF l = m THEN v ELSE scopes[l]
      BY <1>5, <2>1, <3>1, <3>3
    <3>5. \A l \in 2 .. m : at[l] = n <=> l = m
      <4>1. \A l \in 2 .. m : l = m => at[l] = n BY <3>2
      <4>2. QED BY <3>2, <4>1
    <3>6. ASSUME NEW l \in 2 .. m
          PROVE  scopes'[l] = IF at[l] = n THEN scopes[l] \cup {x} ELSE scopes[l]
      <4>1. l \in 1 .. m OBVIOUS
      <4>2. QED BY <3>3, <3>4, <3>5, <4>1
    <3>7. QED BY <3>4, <3>6
  <2>4. QED BY <2>2, <2>3
<1>8. \A i \in 1 .. n : Seen(path', i, SemaSkips) <=> Seen(path, i, SemaSkips)
  <2>1. \A i \in 1 .. n : path'[i].kind = path[i].kind BY <1>2
  <2>2. \A i \in 1 .. n : \A j \in 1 .. i : j \in 1 .. n OBVIOUS
  <2>3. QED BY <2>1, <2>2, Zenon DEF Seen
<1>9. ScopesAt(path', scopes', at)
  <2>1. ASSUME NEW l \in 2 .. m
        PROVE  /\ at[l] \in 1 .. n /\ scopes'[l] = path'[at[l]].names
               /\ path'[at[l]].kind \in Scoped /\ Seen(path', at[l], SemaSkips)
    <3>1. PICK a \in 1 .. n :
            /\ a = at[l] /\ scopes[l] = path[a].names /\ path[a].kind \in Scoped
            /\ Seen(path, a, SemaSkips)
      BY <1>1, <1>5, <1>6 DEF ScopesAt
    <3>2. QED BY <1>2, <1>7, <1>8, <3>1
  <2>2. ASSUME NEW i \in 1 .. n, path'[i].kind \in Scoped, Seen(path', i, SemaSkips)
        PROVE  \E l \in 2 .. m : at[l] = i
    BY <1>1, <1>2, <1>5, <1>6, <1>8, <2>2 DEF ScopesAt
  <2>3. at[1] = 0 /\ \A l, o \in 1 .. m : l < o => at[l] < at[o]
    BY <1>5, <1>6 DEF ScopesAt
  <2>4. QED BY <1>2, <1>7, <2>1, <2>2, <2>3 DEF ScopesAt
<1>10. \A i \in 1 .. n : path'[i].kind \notin Scoped => path'[i].names = {}
  BY <1>1, <1>2, <1>3 DEF Scoping
<1>11. Scoping' BY <1>2, <1>7, <1>9, <1>10 DEF Scoping
<1>12. QED BY <1>4, <1>11

(* An assignment counts for the function around it, and for no other.       *)
LEMMA AssignKeepsContext ==
  ASSUME WalkInv, Nesting, Scoping, Counting, NoteAssignment, UNCHANGED scopes, SecAssign
  PROVE  Nesting' /\ Scoping' /\ Counting'
<1>1. PICK n \in Nat : n = Len(path) BY DEF WalkInv, Shape
<1>2. /\ SameKinds
      /\ \A i \in 1 .. n :
           /\ path'[i].assigned <=> path[i].assigned \/ (i \in FunctionAt /\ ~Within({"size"}))
           /\ path'[i].names = path[i].names
  BY <1>1, AssignmentKeepsKinds DEF WalkInv
<1>3. Nesting' /\ Scoping' BY <1>1, <1>2, NodeKeepsContext
<1>4. Counting'
  <2> SUFFICES ASSUME NEW i \in 1 .. n, path[i].kind = "fn"
               PROVE  mutations' > 0 <=> path'[i].assigned
    BY <1>1, <1>2 DEF Counting, SameKinds
  <2>1. DOMAIN path = 1 .. n BY <1>1 DEF WalkInv, Shape
  <2>2. i \in FunctionAt BY <2>1 DEF FunctionAt
  <2>3. PICK c \in Nat : c = mutations BY DEF WalkInv, Shape
  <2>4. c > 0 <=> path[i].assigned BY <1>1, <2>3 DEF Counting
  <2>5. Within(SecSkips) <=> Within({"size"})
    <3>1. path[1].kind \in {"fn", "driver"}
      BY <1>1 DEF Nesting, Nested
    <3>2. \A j \in 1 .. n : path[j].kind \notin {"statement", "const"}
      BY <1>1, <3>1 DEF Nesting, Nested
    <3>3. QED BY <2>1, <3>2 DEF Within, SecSkips
  <2>6. mutations' = IF Within({"size"}) THEN c ELSE c + 1
    BY <2>3, <2>5 DEF SecAssign, SecOther, SecNode
  <2>7. QED BY <1>2, <2>2, <2>3, <2>4, <2>6
<1>5. QED BY <1>3, <1>4

-----------------------------------------------------------------------------
(* What a step says of a program: the analysers' part and the language's    *)
(* are about the same node, and where no analyser walks none reports.       *)
Answer ==
  /\ semaErrors' <=> semaErrors \/ semaReport' \ {"undeclared"} # {}
  /\ secErrors' <=> secErrors \/ secReport' \ {"race"} # {}
  /\ guardFault' <=> guardFault \/ (faults' \cap GuardFaults # {} /\ ~unchecked')
  /\ nameFault' <=> nameFault \/ ("twice" \in faults' /\ ~unchecked')
  /\ semaReport' \subseteq {"asm", "break", "undeclared", "twice"}
  /\ secReport' \subseteq {"asm", "port", "race"}
  /\ unchecked' => semaReport' = {} /\ secReport' = {}
  /\ faults' \subseteq GuardFaults \cup {"twice", "undeclared", "race", "hidden port"}
  /\ ReportsExact'
  /\ phase' # "failed"

LEMMA AnswerKeepsCauses ==
  ASSUME Causes, Answer
  PROVE  ReportsExact' /\ Causes'
<1>1. ASSUME NEW d, d \in semaReport' \cup secReport', d # "undeclared", d # "race"
      PROVE  guardFault' \/ nameFault'
  <2>1. ~unchecked' BY <1>1 DEF Answer
  <2>2. d \in faults' BY <1>1, <2>1 DEF Answer, ReportsExact
  <2>3. d \in GuardFaults \/ d = "twice" BY <1>1, <2>2 DEF Answer
  <2>4. QED BY <2>1, <2>2, <2>3 DEF Answer
<1>2. semaReport' \ {"undeclared"} # {} => guardFault' \/ nameFault'
  BY <1>1 DEF Answer
<1>3. secReport' \ {"race"} # {} => guardFault' \/ nameFault'
  BY <1>1 DEF Answer
<1>4. guardFault \/ nameFault => guardFault' \/ nameFault' BY Zenon DEF Answer
<1>5. QED BY <1>2, <1>3, <1>4, Zenon DEF Answer, Causes, FailsForCause

(* It is enough to compare what is found at the node.                       *)
LEMMA AnswerAt ==
  ASSUME NEW found, NEW sema, NEW sec, Judge(found), Report(sema), SecFinds(sec),
         found \subseteq GuardFaults \cup {"twice", "undeclared", "race", "hidden port"},
         sema \subseteq {"asm", "break", "undeclared", "twice"},
         sec \subseteq {"asm", "port", "race"},
         Unchecked(found) => sema = {} /\ sec = {},
         ~Unchecked(found) => sema \cup sec = found \ {"hidden port"},
         phase' = "walk"
  PROVE  Answer
<1>1. faults' = found /\ semaReport' = sema /\ secReport' = sec BY DEF Judge, Report, SecFinds
<1>2. unchecked' <=> Unchecked(found) BY Zenon DEF Judge
<1>3. /\ guardFault' <=> guardFault \/ (faults' \cap GuardFaults # {} /\ ~unchecked')
      /\ nameFault' <=> nameFault \/ ("twice" \in faults' /\ ~unchecked')
  BY <1>1, Zenon DEF Judge
<1>4. /\ semaErrors' <=> semaErrors \/ semaReport' \ {"undeclared"} # {}
      /\ secErrors' <=> secErrors \/ secReport' \ {"race"} # {}
  BY <1>1, Zenon DEF Report, SecFinds
<1>5. ReportsExact'
  <2>1. ~unchecked' => semaReport' \cup secReport' = faults' \ {"hidden port"} BY <1>1, <1>2
  <2>2. QED BY <2>1, Zenon DEF ReportsExact
<1>6. QED BY <1>1, <1>2, <1>3, <1>4, <1>5 DEF Answer

(* In walked code a name is found exactly when a construct around the node, *)
(* or the file, has declared it.                                            *)
LEMMA FoundIsVisible ==
  ASSUME WalkInv, Scoping, ~Within(SemaSkips), NEW x
  PROVE  Found(x) <=> x \in Visible \cup scopes[1]
<1>1. PICK n \in Nat : n = Len(path) BY DEF WalkInv, Shape
<1>2. PICK m \in Nat \ {0} : m = Len(scopes) BY DEF Scoping
<1>3. DOMAIN path = 1 .. n /\ DOMAIN scopes = 1 .. m BY <1>1, <1>2 DEF WalkInv, Shape, Scoping
<1>4. PICK at \in [1 .. m -> 0 .. n] : ScopesAt(path, scopes, at)
  BY <1>1, <1>2 DEF Scoping
<1>5. ASSUME Found(x) PROVE x \in Visible \cup scopes[1]
  <2>1. PICK l \in 1 .. m : x \in scopes[l] BY <1>3, <1>5 DEF Found
  <2>2. CASE l = 1 BY <2>1, <2>2
  <2>3. CASE l \in 2 .. m
    <3>1. PICK a \in 1 .. n : a = at[l] /\ scopes[l] = path[a].names
      BY <1>1, <1>2, <1>4, <2>3 DEF ScopesAt
    <3>2. x \in path[a].names BY <2>1, <3>1
    <3>3. QED BY <1>3, <3>2 DEF Visible
  <2>4. QED BY <2>2, <2>3
<1>6. ASSUME x \in Visible \cup scopes[1] PROVE Found(x)
  <2>1. CASE x \in scopes[1]
    <3>1. 1 \in 1 .. m OBVIOUS
    <3>2. QED BY <1>3, <2>1, <3>1 DEF Found
  <2>2. CASE x \in Visible
    <3>1. PICK i \in 1 .. n : x \in path[i].names BY <1>3, <2>2 DEF Visible
    <3>2. path[i].kind \in Scoped BY <1>1, <3>1 DEF Scoping
    <3>3. Seen(path, i, SemaSkips) BY <1>3 DEF Seen, Within
    <3>4. PICK l \in 2 .. m : at[l] = i BY <1>1, <1>2, <1>4, <3>2, <3>3 DEF ScopesAt
    <3>5. x \in scopes[l] BY <1>2, <1>4, <3>1, <3>4 DEF ScopesAt
    <3>6. l \in 1 .. m OBVIOUS
    <3>7. QED BY <1>3, <3>5, <3>6 DEF Found
  <2>3. QED BY <1>6, <2>1, <2>2
<1>7. QED BY <1>5, <1>6

(* asm!, port:: and break are judged by the constructs around them.         *)
LEMMA GuardsAnswered ==
  ASSUME WalkInv, Asm \/ Port \/ Break
  PROVE  Answer
<1>1. /\ Within(SemaSkips) <=> Within({"statement", "size"})
      /\ Within(SecSkips) <=> Within({"statement", "size"}) \/ Within({"const"})
  BY DEF Within, SemaSkips, SecSkips
<1>2. phase' = "walk" BY DEF Asm, Port, Break, Walking
<1>3. CASE Asm
  <2> DEFINE found == If(~Within({"unsafe"}), "asm")
             sema == IF ~inUnsafe /\ ~Within(SemaSkips) THEN {"asm"} ELSE {}
             sec == IF ~secUnsafe /\ ~Within(SecSkips) THEN {"asm"} ELSE {}
  <2>1. Judge(found) /\ Report(sema) /\ SecFinds(sec)
    BY <1>3 DEF Asm, SemaAsm, SemaNode, SecAsm, SecNode
  <2>2. found \cap {"port", "hidden port"} = {} BY DEF If
  <2>3. Unchecked(found) <=> Within(SemaSkips) BY <1>1, <2>2 DEF Unchecked
  <2>4. Within(SemaSkips) => Within(SecSkips) BY <1>1
  <2>5. ~Within(SemaSkips) => (inUnsafe <=> Within({"unsafe"}))
    BY FlagsInWalkedCode
  <2>6. ~Within(SecSkips) => (secUnsafe <=> Within({"unsafe"}))
    BY FlagsInWalkedCode
  <2>7. /\ found \subseteq GuardFaults \cup {"twice", "undeclared", "race", "hidden port"}
        /\ sema \subseteq {"asm", "break", "undeclared", "twice"}
        /\ sec \subseteq {"asm", "port", "race"}
    BY DEF If, GuardFaults
  <2>8. Unchecked(found) => sema = {} /\ sec = {} BY <2>3, <2>4
  <2>9. ~Unchecked(found) => sema \cup sec = found \ {"hidden port"} BY <2>3, <2>5, <2>6 DEF If
  <2> HIDE DEF found, sema, sec
  <2>10. QED BY <1>2, <2>1, <2>7, <2>8, <2>9, AnswerAt
<1>4. CASE Port
  <2>1. PICK form \in PortForms :
          /\ SecPort(form)
          /\ Judge(If(~Within({"unsafe"}), IF form = "callee" THEN "port" ELSE "hidden port"))
    BY <1>4 DEF Port
  <2> DEFINE found == If(~Within({"unsafe"}), IF form = "callee" THEN "port" ELSE "hidden port")
             sec == IF form = "callee" /\ ~secUnsafe /\ ~Within(SecSkips) THEN {"port"} ELSE {}
  <2>2. Judge(found) /\ Report({}) /\ SecFinds(sec)
    BY <1>4, <2>1 DEF Port, SemaOther, SemaNode, SecPort, SecNode
  <2>3. ~Within(SecSkips) => (secUnsafe <=> Within({"unsafe"}))
    BY FlagsInWalkedCode
  <2>4. /\ found \subseteq GuardFaults \cup {"twice", "undeclared", "race", "hidden port"}
        /\ sec \subseteq {"asm", "port", "race"}
    BY DEF If, GuardFaults
  <2>5. ~secUnsafe /\ ~Within(SecSkips) => ~Within({"unsafe"}) BY <2>3
  <2>6. Unchecked(found) => sec = {}
    BY <1>1 DEF Unchecked
  <2>7. ~Unchecked(found) => {} \cup sec = found \ {"hidden port"}
    <3>1. CASE form = "callee"
      BY <1>1, <2>3, <3>1 DEF If, Unchecked
    <3>2. CASE form # "callee"
      BY <3>2 DEF If
    <3> QED
      BY <3>1, <3>2
  <2> HIDE DEF found, sec
  <2>8. QED BY <1>2, <2>2, <2>4, <2>6, <2>7, AnswerAt
<1>5. CASE Break
  <2> DEFINE found == If(~Within({"loop"}), "break")
             sema == IF ~inLoop /\ ~Within(SemaSkips) THEN {"break"} ELSE {}
  <2>1. Judge(found) /\ Report(sema) /\ SecFinds({})
    BY <1>5 DEF Break, SemaBreak, SemaNode, SecOther, SecNode
  <2>2. found \cap {"port", "hidden port"} = {} BY DEF If
  <2>3. Unchecked(found) <=> Within(SemaSkips) BY <1>1, <2>2 DEF Unchecked
  <2>4. ~Within(SemaSkips) => (inLoop <=> Within({"loop"}))
    BY FlagsInWalkedCode
  <2>5. /\ found \subseteq GuardFaults \cup {"twice", "undeclared", "race", "hidden port"}
        /\ sema \subseteq {"asm", "break", "undeclared", "twice"}
    BY DEF If, GuardFaults
  <2>6. Unchecked(found) => sema = {} BY <2>3
  <2>7. ~Unchecked(found) => sema \cup {} = found \ {"hidden port"} BY <2>3, <2>4 DEF If
  <2> HIDE DEF found, sema
  <2>8. QED BY <1>2, <2>1, <2>5, <2>6, <2>7, AnswerAt
<1>6. QED BY <1>3, <1>4, <1>5

(* Names are judged by the scopes around them.                              *)
LEMMA NamesAnswered ==
  ASSUME WalkInv, Scoping, Use \/ Let
  PROVE  Answer
<1>1. Within(SemaSkips) <=> Within({"statement", "size"})
  BY DEF Within, SemaSkips
<1>2. phase' = "walk" BY DEF Use, Let, Walking
<1>3. CASE Use
  <2>1. PICK x \in Names : SemaUse(x) /\ Judge(If(x \notin Visible \cup scopes[1], "undeclared"))
    BY <1>3 DEF Use
  <2> DEFINE found == If(x \notin Visible \cup scopes[1], "undeclared")
             sema == IF ~Found(x) /\ ~Within(SemaSkips) THEN {"undeclared"} ELSE {}
  <2>2. Judge(found) /\ Report(sema) /\ SecFinds({})
    BY <1>3, <2>1 DEF Use, SemaUse, SemaNode, SecOther, SecNode
  <2>3. found \cap {"port", "hidden port"} = {} BY DEF If
  <2>4. Unchecked(found) <=> Within(SemaSkips) BY <1>1, <2>3 DEF Unchecked
  <2>5. ~Within(SemaSkips) => (Found(x) <=> x \in Visible \cup scopes[1])
    BY FoundIsVisible
  <2>6. /\ found \subseteq GuardFaults \cup {"twice", "undeclared", "race", "hidden port"}
        /\ sema \subseteq {"asm", "break", "undeclared", "twice"}
    BY DEF If
  <2>7. Unchecked(found) => sema = {} BY <2>4
  <2>8. ~Unchecked(found) => sema \cup {} = found \ {"hidden port"} BY <2>4, <2>5 DEF If
  <2> HIDE DEF found, sema
  <2>9. QED BY <1>2, <2>2, <2>6, <2>7, <2>8, AnswerAt
<1>4. CASE Let
  <2>1. PICK x \in Names : SemaLet(x) /\ Judge(If(x \in Last(path).names, "twice"))
    BY <1>4 DEF Let
  <2> DEFINE found == If(x \in Last(path).names, "twice")
             sema == IF x \in Last(scopes) /\ ~Within(SemaSkips) THEN {"twice"} ELSE {}
  <2>2. Judge(found) /\ Report(sema) /\ SecFinds({})
    <3>1. Report(sema) BY <2>1 DEF SemaLet, SemaOther, SemaNode
    <3>2. QED BY <1>4, <2>1, <3>1 DEF Let, SecOther, SecNode
  <2>3. found \cap {"port", "hidden port"} = {} BY DEF If
  <2>4. Unchecked(found) <=> Within(SemaSkips) BY <1>1, <2>3 DEF Unchecked
  <2>5. ~Within(SemaSkips) => Last(scopes) = Last(path).names
    <3>1. path # <<>> /\ Top \in Scoped BY <1>4 DEF Let, HasStatements, Scoped
    <3>2. PICK at \in [1 .. Len(scopes) -> 0 .. Len(path)] : ScopesAt(path, scopes, at)
      BY DEF Scoping
    <3>3. QED BY <3>1, <3>2, LastScope
  <2>6. /\ found \subseteq GuardFaults \cup {"twice", "undeclared", "race", "hidden port"}
        /\ sema \subseteq {"asm", "break", "undeclared", "twice"}
    BY DEF If
  <2>7. Unchecked(found) => sema = {} BY <2>4
  <2>8. ~Unchecked(found) => sema \cup {} = found \ {"hidden port"} BY <2>4, <2>5 DEF If
  <2> HIDE DEF found, sema
  <2>9. QED BY <1>2, <2>2, <2>6, <2>7, <2>8, AnswerAt
<1>5. QED BY <1>3, <1>4

(* Nothing is found at the other nodes.                                     *)
LEMMA OthersAnswered ==
  ASSUME EnterNode \/ LeaveNode
  PROVE  Answer
<1>1. Judge({}) /\ phase' = "walk" BY DEF EnterNode, LeaveNode, Walking
<1>2. Report({}) /\ SecFinds({})
  BY DEF EnterNode, LeaveNode, SemaOpen, SecOpen, SemaClose, SecClose,
         SemaOther, SemaNode, SecOther, SecNode
<1>3. QED BY <1>1, <1>2, AnswerAt

(* A second assignment to a global is warned about in a function.           *)
LEMMA AssignAnswered ==
  ASSUME WalkInv, Nesting, Counting, Assign
  PROVE  Answer
<1> DEFINE found == If(\E i \in FunctionAt : path[i].assigned, "race")
<1>1. PICK n \in Nat \ {0} : n = Len(path)
  BY DEF WalkInv, Shape, Assign, HasStatements
<1>2. DOMAIN path = 1 .. n BY <1>1 DEF WalkInv, Shape
<1>3. PICK c \in Nat : c = mutations BY DEF WalkInv, Shape
<1>4. PICK sec \in SUBSET {"race"} :
        SecFinds(sec) /\ (~Within(SecSkips) => (sec = {"race"} <=> c > 0))
                      /\ (Within(SecSkips) => sec = {})
  <2>1. CASE Within(SecSkips)
    BY <2>1 DEF Assign, SecAssign, SecOther, SecNode
  <2>2. CASE ~Within(SecSkips)
    <3>1. mutations' = c + 1 /\ SecFinds(IF mutations' > 1 THEN {"race"} ELSE {})
      BY <1>3, <2>2 DEF Assign, SecAssign
    <3>2. mutations' > 1 <=> c > 0 BY <3>1
    <3>3. QED BY <2>2, <3>1, <3>2
  <2>3. QED BY <2>1, <2>2
<1>5. Judge(found) /\ Report({}) /\ phase' = "walk"
  BY DEF Assign, SemaOther, SemaNode, Walking
<1>6. found \subseteq {"race"} BY DEF If
<1>7. SameKinds BY AssignmentKeepsKinds DEF Assign, WalkInv
<1>8. Within({"syscall"})' <=> Within({"syscall"})
  <2>1. DOMAIN path' = 1 .. n BY <1>1, <1>7 DEF SameKinds
  <2>2. QED BY <1>1, <1>2, <1>7, <2>1 DEF Within, SameKinds
<1>9. Unchecked(found) <=> Within({"statement", "size"})
  BY <1>6 DEF Unchecked
<1>10. ASSUME ~Within({"statement", "size"}), ~Within({"syscall"})
       PROVE  sec = found
  <2>1. CASE path[1].kind = "const"
    <3>1. \A i \in 1 .. n : path[i].kind \notin {"fn", "syscall"}
      BY <1>1, <2>1 DEF Nesting, Nested
    <3>2. found = {} BY <1>2, <3>1 DEF If, FunctionAt
    <3>3. Within(SecSkips)
      <4>1. 1 \in 1 .. n OBVIOUS
      <4>2. QED BY <1>2, <2>1, <4>1 DEF Within, SecSkips
    <3>4. QED BY <1>4, <3>2, <3>3
  <2>2. CASE path[1].kind # "const"
    <3>1. path[1].kind \in {"fn", "driver"}
      <4>1. path # <<>> /\ 1 \in 1 .. n BY <1>1 DEF Assign, HasStatements
      <4>2. path[1].kind \in Declarations BY <4>1 DEF Nesting
      <4>3. path[1].kind \notin {"statement", "syscall"} BY <1>2, <1>10, <4>1 DEF Within
      <4>4. QED BY <2>2, <4>2, <4>3 DEF Declarations
    <3>2. \A i \in 1 .. n : path[i].kind # "const"
      BY <1>1, <3>1 DEF Nesting, Nested
    <3>3. ~Within(SecSkips) BY <1>2, <1>10, <3>2 DEF Within, SecSkips
    <3>4. PICK i \in FunctionAt : path[i].kind = "fn"
      <4>1. CASE path[1].kind = "fn"
        <5>1. 1 \in 1 .. n OBVIOUS
        <5>2. QED BY <1>2, <4>1, <5>1 DEF FunctionAt
      <4>2. CASE path[1].kind = "driver"
        <5>1. n # 1
          <6>1. Top = path[n].kind BY <1>1 DEF Top, Last
          <6>2. QED BY <4>2, <6>1 DEF Assign, HasStatements
        <5>2. 2 \in 2 .. n /\ 2 \in 1 .. n BY <5>1
        <5>3. path[2].kind = "fn" BY <1>1, <4>2, <5>2 DEF Nesting
        <5>4. QED BY <1>2, <5>2, <5>3 DEF FunctionAt
      <4>3. QED BY <3>1, <4>1, <4>2
    <3>5. \A j \in FunctionAt : path[j].assigned <=> c > 0
      BY <1>1, <1>2, <1>3, <1>10 DEF FunctionAt, Within, Counting
    <3>6. found = {"race"} <=> c > 0 BY <3>4, <3>5 DEF If
    <3>7. sec = {"race"} <=> found = {"race"} BY <1>4, <3>3, <3>6
    <3>8. (found = {} \/ found = {"race"}) /\ (sec = {} \/ sec = {"race"})
      BY <1>4, <1>6
    <3> HIDE DEF found
    <3>9. QED BY <3>7, <3>8
  <2>3. QED BY <2>1, <2>2
<1>11. faults' = found /\ semaReport' = {} /\ secReport' = sec
       /\ (unchecked' <=> Unchecked(found))
  BY <1>4, <1>5, Zenon DEF Judge, Report, SecFinds
<1>12. ReportsExact'
  <2>1. ~unchecked' /\ ~Within({"syscall"})' => semaReport' \cup secReport' = faults'
    BY <1>8, <1>9, <1>10, <1>11
  <2>2. (semaReport' \cup secReport') \ {"race"} = faults' \ {"race"}
    BY <1>4, <1>6, <1>11
  <2>3. QED BY <2>1, <2>2, Zenon DEF ReportsExact
<1>13. Unchecked(found) => sec = {}
  BY <1>4, <1>9 DEF Within, SecSkips
<1>14. /\ guardFault' <=> guardFault \/ (faults' \cap GuardFaults # {} /\ ~unchecked')
       /\ nameFault' <=> nameFault \/ ("twice" \in faults' /\ ~unchecked')
  BY <1>5, <1>11, Zenon DEF Judge
<1>15. /\ semaErrors' <=> semaErrors \/ semaReport' \ {"undeclared"} # {}
       /\ secErrors' <=> secErrors \/ secReport' \ {"race"} # {}
  BY <1>4, <1>5, <1>11, Zenon DEF Report, SecFinds
<1> HIDE DEF found
<1>16. QED BY <1>4, <1>5, <1>6, <1>11, <1>12, <1>13, <1>14, <1>15 DEF Answer

(* The first pass answers for the names of the declarations.                *)
LEMMA RegisterAnswered ==
  ASSUME WalkInv, Scoping, NotWalking, RegisterName \/ StartWalk
  PROVE  Answer
<1>1. path = <<>> /\ Len(scopes) = 1 /\ secReport = {} BY DEF NotWalking, RegisterName, StartWalk
<1>2. UNCHANGED <<path, secErrors, secReport>> /\ phase' # "failed"
  BY DEF RegisterName, StartWalk, secVars
<1>3. ASSUME NEW kinds PROVE ~Within(kinds) BY <1>1 DEF Within
<1>4. PICK found \in SUBSET {"twice"} : Judge(found) /\ Report(found)
  <2>1. CASE RegisterName
    <3>1. PICK x \in Names : Register(x) /\ Judge(If(x \in scopes[1], "twice"))
      BY <2>1 DEF RegisterName
    <3>2. Last(scopes) = scopes[1] BY <1>1 DEF Last
    <3>3. QED BY <3>1, <3>2 DEF Register, If
  <2>2. CASE StartWalk BY <2>2 DEF StartWalk
  <2>3. QED BY <2>1, <2>2
<1>5. ~Unchecked(found) BY <1>3 DEF Unchecked
<1>6. faults' = found /\ semaReport' = found /\ secReport' = {} /\ ~unchecked'
  BY <1>1, <1>2, <1>4, <1>5, Zenon DEF Judge, Report
<1>7. /\ guardFault' <=> guardFault \/ (faults' \cap GuardFaults # {} /\ ~unchecked')
      /\ nameFault' <=> nameFault \/ ("twice" \in faults' /\ ~unchecked')
  BY <1>4, <1>5, <1>6, Zenon DEF Judge
<1>8. semaErrors' <=> semaErrors \/ semaReport' \ {"undeclared"} # {}
  BY <1>4, <1>6, Zenon DEF Report
<1>9. secErrors' <=> secErrors \/ secReport' \ {"race"} # {} BY <1>2, <1>6
<1>10. ReportsExact'
  <2>1. semaReport' \cup secReport' = faults' BY <1>6
  <2>2. QED BY <2>1, Zenon DEF ReportsExact
<1>11. QED BY <1>2, <1>4, <1>6, <1>7, <1>8, <1>9, <1>10 DEF Answer

(* Before the walk there is no context but the names of the declarations.   *)
LEMMA BeforeTheWalkKeepsContext ==
  ASSUME WalkInv, ContextInv, StartAnalysis \/ RegisterName \/ StartWalk
  PROVE  ContextInv'
<1>1. path = <<>> /\ Len(scopes) = 1 /\ secReport = {}
  BY DEF ContextInv, NotWalking, StartAnalysis, RegisterName, StartWalk
<1>2. UNCHANGED <<path, mutations, secReport>>
  BY DEF StartAnalysis, RegisterName, StartWalk, secVars
<1>3. scopes' \in Seq(SUBSET Names) /\ Len(scopes') = 1
  <2>1. scopes \in Seq(SUBSET Names) BY DEF ContextInv, Scoping
  <2>2. CASE RegisterName
    <3>1. PICK x \in Names : scopes' = [scopes EXCEPT ![1] = scopes[1] \cup {x}]
      BY <1>1, <2>2 DEF RegisterName, Register
    <3>2. PICK v \in SUBSET Names : v = scopes[1] \cup {x}
      <4>1. 1 \in 1 .. Len(scopes) BY <1>1
      <4>2. scopes[1] \in SUBSET Names BY <2>1, <4>1
      <4>3. QED BY <4>2
    <3>3. QED BY <1>1, <2>1, <3>1, <3>2
  <2>3. CASE StartAnalysis \/ StartWalk
    BY <1>1, <2>1, <2>3 DEF StartAnalysis, StartWalk, semaVars
  <2>4. QED BY <2>2, <2>3
<1>4. Scoping'
  <2> DEFINE at == [l \in 1 .. 1 |-> 0]
  <2>1. Len(path') = 0 BY <1>1, <1>2
  <2>2. at \in [1 .. 1 -> 0 .. 0] /\ at[1] = 0 OBVIOUS
  <2> HIDE DEF at
  <2>3. ScopesAt(path', scopes', at) BY <1>3, <2>1, <2>2 DEF ScopesAt
  <2>4. QED BY <1>3, <2>1, <2>2, <2>3 DEF Scoping
<1>5. Nesting' /\ Counting' BY <1>1, <1>2 DEF Nesting, Counting
<1>6. NotWalking' BY <1>1, <1>2, <1>3 DEF NotWalking
<1>7. QED BY <1>4, <1>5, <1>6 DEF ContextInv

LEMMA WalkKeepsContext ==
  ASSUME WalkInv, ContextInv,
         \/ EnterNode \/ LeaveNode
         \/ Asm \/ Port \/ Use \/ Let \/ Assign \/ Break
  PROVE  ContextInv'
<1>1. NotWalking'
  <2>1. phase' = "walk"
    BY DEF EnterNode, LeaveNode, Asm, Port, Use, Let, Assign, Break, Walking
  <2>2. QED BY <2>1 DEF NotWalking
<1>2. CASE EnterNode
  BY <1>1, <1>2, EnterKeepsContext DEF EnterNode, ContextInv
<1>3. CASE LeaveNode
  BY <1>1, <1>3, LeaveKeepsContext DEF LeaveNode, ContextInv
<1>4. CASE Let
  <2>1. PICK x \in Names : SemaLet(x) /\ Declare(x) BY <1>4 DEF Let
  <2>2. Nesting' /\ Scoping' BY <1>4, <2>1, LetKeepsContext DEF Let, ContextInv
  <2>3. mutations' = mutations BY <1>4 DEF Let, SecOther, SecNode
  <2>4. SameKinds /\ \A i \in 1 .. Len(path) : path'[i].assigned = path[i].assigned
    BY <1>4, <2>1, DeclareKeepsKinds DEF Let, WalkInv
  <2>5. Counting' BY <2>3, <2>4 DEF SameKinds, Counting, ContextInv
  <2>6. QED BY <1>1, <2>2, <2>5 DEF ContextInv
<1>5. CASE Assign
  BY <1>1, <1>5, AssignKeepsContext DEF Assign, SemaOther, SemaNode, ContextInv
<1>7. CASE Asm \/ Port \/ Use \/ Break
  <2>1. UNCHANGED <<path, scopes, mutations>>
    BY <1>7 DEF Asm, Port, Use, Break, SemaAsm, SemaBreak, SemaUse, SemaOther, SemaNode,
                SecAsm, SecPort, SecOther, SecNode
  <2>2. Nesting' /\ Scoping' /\ Counting'
    BY <2>1 DEF ContextInv, Nesting, Scoping, Counting
  <2>3. QED BY <1>1, <2>2 DEF ContextInv
<1>8. QED BY <1>2, <1>3, <1>4, <1>5, <1>7

LEMMA InitReport == Init => ReportInv
<1> SUFFICES ASSUME Init PROVE ReportInv
  OBVIOUS
<1>1. path = <<>> /\ scopes = << {} >> /\ mutations = 0 /\ secReport = {} /\ semaReport = {}
  BY DEF Init, SemaInit, SecInit
<1>2. Scoping
  <2> DEFINE at == [l \in 1 .. 1 |-> 0]
  <2>1. Len(path) = 0 /\ Len(scopes) = 1 /\ scopes \in Seq(SUBSET Names) BY <1>1
  <2>2. at \in [1 .. 1 -> 0 .. 0] /\ at[1] = 0 OBVIOUS
  <2> HIDE DEF at
  <2>3. ScopesAt(path, scopes, at) BY <2>1, <2>2 DEF ScopesAt
  <2>4. QED BY <2>1, <2>2, <2>3 DEF Scoping
<1>3. ContextInv BY <1>1, <1>2 DEF ContextInv, Nesting, Counting, NotWalking
<1>4. ReportsExact /\ Causes
  BY <1>1 DEF Init, SemaInit, SecInit, ReportsExact, Causes, FailsForCause
<1>5. QED BY <1>3, <1>4, InitInv DEF ReportInv

(* The stages take turns, and at the end the errors are counted.            *)
LEMMA TurnsKeepReport ==
  ASSUME ReportInv, StartAnalysis \/ Finish \/ Generate \/ WriteFile \/ UNCHANGED vars
  PROVE  ContextInv' /\ ReportsExact' /\ Causes'
<1>1. /\ UNCHANGED <<path, scopes, mutations, semaErrors, secErrors, semaReport, secReport>>
      /\ UNCHANGED <<parsed, faults, unchecked, guardFault, nameFault>>
  BY DEF StartAnalysis, Finish, Generate, WriteFile, vars, buildVars, judgement, semaVars, secVars
<1>2. ReportsExact' BY <1>1 DEF ReportInv, ReportsExact, Within
<1>3. Causes'
  <2>1. phase' = "failed" => phase = "failed" \/ ~parsed \/ semaErrors \/ secErrors
    BY DEF StartAnalysis, Finish, Generate, WriteFile, vars, buildVars
  <2>2. QED BY <1>1, <2>1, Zenon DEF ReportInv, Causes, FailsForCause
<1>4. ContextInv'
  <2>1. CASE StartAnalysis BY <2>1, BeforeTheWalkKeepsContext DEF ReportInv, BuildInv
  <2>2. CASE Finish \/ Generate \/ WriteFile \/ UNCHANGED vars
    <3>1. phase' = phase \/ phase' \notin {"parsed", "register"}
      BY <2>2 DEF Finish, Generate, WriteFile, vars, buildVars
    <3>2. Nesting' /\ Scoping' /\ Counting'
      BY <1>1 DEF ReportInv, ContextInv, Nesting, Scoping, Counting
    <3>3. NotWalking' BY <1>1, <3>1 DEF ReportInv, ContextInv, NotWalking
    <3>4. QED BY <3>2, <3>3 DEF ContextInv
  <2>3. QED BY <2>1, <2>2
<1>5. QED BY <1>2, <1>3, <1>4

(* The scopes, the flags and the counter of the analysers are those of the  *)
(* node they are at: this is inductive.                                     *)
THEOREM ReportInvariant == Spec => []ReportInv
<1>1. ASSUME ReportInv, [Next]_vars PROVE ContextInv' /\ ReportsExact' /\ Causes'
  <2>1. CASE StartAnalysis \/ Finish \/ Generate \/ WriteFile \/ UNCHANGED vars
    BY <1>1, <2>1, TurnsKeepReport
  <2>2. CASE RegisterName \/ StartWalk
    <3>1. Answer BY <1>1, <2>2, RegisterAnswered DEF ReportInv, BuildInv, ContextInv
    <3>2. ContextInv' BY <1>1, <2>2, BeforeTheWalkKeepsContext DEF ReportInv, BuildInv
    <3>3. QED BY <1>1, <3>1, <3>2, AnswerKeepsCauses DEF ReportInv
  <2>3. CASE \/ EnterNode \/ LeaveNode
             \/ Asm \/ Port \/ Use \/ Let \/ Assign \/ Break
    <3>1. Answer
      BY <1>1, <2>3, GuardsAnswered, NamesAnswered, OthersAnswered, AssignAnswered
         DEF ReportInv, BuildInv, ContextInv
    <3>2. ContextInv' BY <1>1, <2>3, WalkKeepsContext DEF ReportInv, BuildInv
    <3>3. QED BY <1>1, <3>1, <3>2, AnswerKeepsCauses DEF ReportInv
  <2>4. QED BY <1>1, <2>1, <2>2, <2>3 DEF Next
<1>2. ReportInv /\ BuildInv' /\ [Next]_vars => ReportInv'
  BY <1>1 DEF ReportInv
<1> QED
  BY InitReport, BuildInvariant, <1>2, PTL DEF Spec

(* For programs of any depth: what the analysers report at a node is what   *)
(* the rules of the language find wrong there, nothing more and nothing     *)
(* less, in all the code they walk (a port:: that is not called directly and*)
(* the warning about assignments to globals in a system call excepted).     *)
THEOREM AnalysersReportExactly == Spec => []ReportsExact
<1>1. ReportInv => ReportsExact
  BY DEF ReportInv
<1> QED
  BY ReportInvariant, <1>1, PTL

(* For programs of any depth: qpc build fails only for a program that the   *)
(* parser has refused, with an unguarded asm!, call of port:: or break, or a*)
(* name declared twice.                                                     *)
THEOREM BuildFailsForCause == Spec => []FailsForCause
<1>1. ReportInv => FailsForCause
  BY DEF ReportInv, Causes
<1> QED
  BY ReportInvariant, <1>1, PTL

-----------------------------------------------------------------------------
(* The code generator: where on its stack each deferred expression is.      *)

(* What has been written of block i, when n of its defers are on the stack. *)
WrittenRight(b, i, n) ==
  IF b.next = 0
  THEN b.done = <<>>
  ELSE /\ b.next \in b.mark + 1 .. b.mark + n
       /\ Len(b.done) = b.mark + n - b.next + 1
       /\ \A m \in 1 .. Len(b.done) : b.done[m] = <<i, n + 1 - m>>

BlockRight(b, stack, i) ==
  /\ b.mark = Smaller(DeferLimit, b.outside)
  /\ \A n \in 1 .. Room(b) : stack[b.mark + n] = <<i, n>>
  /\ WrittenRight(b, i, Room(b))

(* A block is opened where the one around it has come to.                   *)
Outside(i) == IF i = 1 THEN loose ELSE blocks[i - 1].outside + blocks[i - 1].defers

DeferInv ==
  /\ blocks \in Seq(Block) /\ deferStack \in Seq(Nat \X Nat) /\ loose \in Nat
  /\ Len(deferStack) = Smaller(DeferLimit, OpenDefers)
  /\ \A i \in 1 .. Len(blocks) : /\ blocks[i].outside = Outside(i)
                                 /\ BlockRight(blocks[i], deferStack, i)
  /\ \A i, j \in 1 .. Len(blocks) :
       i < j => blocks[i].outside + blocks[i].defers <= blocks[j].outside

LEMMA SmallerFacts ==
  ASSUME NEW a \in Nat, NEW b \in Nat
  PROVE  /\ Smaller(a, b) \in Nat /\ Smaller(a, b) <= a /\ Smaller(a, b) <= b
         /\ \A c \in Nat : b <= c => Smaller(a, b) <= Smaller(a, c)
         /\ \A d \in Nat : /\ Smaller(d, a - Smaller(a, b)) \in Nat
                           /\ Smaller(a, b) + Smaller(d, a - Smaller(a, b)) = Smaller(a, b + d)
BY DEF Smaller

(* The defers of a block lie on the stack right above its mark.             *)
LEMMA RoomFacts ==
  ASSUME NEW b \in Block
  PROVE  /\ Room(b) \in Nat /\ Smaller(DeferLimit, b.outside) \in Nat
         /\ Smaller(DeferLimit, b.outside) + Room(b) = Smaller(DeferLimit, b.outside + b.defers)
<1>1. b.outside \in Nat /\ b.defers \in Nat BY DEF Block
<1>2. PICK o \in Nat, d \in Nat : o = b.outside /\ d = b.defers BY <1>1
<1>3. DeferLimit \in Nat BY DeferAssumption
<1>4. /\ Smaller(DeferLimit, o) \in Nat
      /\ Smaller(d, DeferLimit - Smaller(DeferLimit, o)) \in Nat
      /\ Smaller(DeferLimit, o) + Smaller(d, DeferLimit - Smaller(DeferLimit, o))
           = Smaller(DeferLimit, o + d)
  BY <1>3, SmallerFacts
<1>5. QED BY <1>2, <1>4 DEF Room

(* The defers of every open block are on the stack.                         *)
LEMMA StackReaches ==
  ASSUME DeferInv, NEW i \in 1 .. Len(blocks)
  PROVE  /\ blocks[i] \in Block /\ Room(blocks[i]) \in Nat /\ blocks[i].mark \in Nat
         /\ blocks[i].mark + Room(blocks[i])
              = Smaller(DeferLimit, blocks[i].outside + blocks[i].defers)
         /\ blocks[i].mark + Room(blocks[i]) <= Len(deferStack)
         /\ i < Len(blocks) => blocks[i].mark + Room(blocks[i]) <= Last(blocks).mark
<1>1. blocks[i] \in Block BY DEF DeferInv
<1>2. PICK n \in Nat : n = Len(blocks) BY DEF DeferInv
<1>3. Last(blocks) = blocks[n] /\ blocks[n] \in Block /\ n # 0 BY <1>2 DEF Last, DeferInv
<1>4. /\ blocks[i].mark = Smaller(DeferLimit, blocks[i].outside)
      /\ blocks[n].mark = Smaller(DeferLimit, blocks[n].outside)
  <2>1. n \in 1 .. n BY <1>3
  <2>2. QED BY <1>2, <2>1 DEF DeferInv, BlockRight
<1>5. PICK reach \in Nat : reach = blocks[i].outside + blocks[i].defers
  BY <1>1 DEF Block
<1>6. PICK o \in Nat, d \in Nat : o = blocks[n].outside /\ d = blocks[n].defers
  BY <1>3 DEF Block
<1>7. i < n => reach <= o
  <2>1. n \in 1 .. n BY <1>3
  <2>2. QED BY <1>2, <1>5, <1>6, <2>1 DEF DeferInv
<1>8. i = n => reach = o + d BY <1>5, <1>6
<1>9. OpenDefers = o + d
  <2>1. blocks # <<>> BY <1>2, <1>3
  <2>2. QED BY <1>3, <1>6, <2>1 DEF OpenDefers
<1>10. reach <= o + d /\ o + d \in Nat
  <2>1. i = n \/ i < n BY <1>2
  <2>2. QED BY <1>7, <1>8, <2>1
<1>11. PICK limit \in Nat : limit = DeferLimit BY DeferAssumption
<1>12. /\ Smaller(limit, reach) <= Smaller(limit, o + d)
       /\ i < n => Smaller(limit, reach) <= Smaller(limit, o)
  BY <1>7, <1>10, SmallerFacts
<1>13. Len(deferStack) = Smaller(limit, o + d) BY <1>9, <1>11 DEF DeferInv
<1>14. /\ Room(blocks[i]) \in Nat /\ blocks[i].mark \in Nat
       /\ blocks[i].mark + Room(blocks[i]) = Smaller(limit, reach)
  BY <1>1, <1>4, <1>5, <1>11, RoomFacts
<1>15. QED BY <1>1, <1>2, <1>3, <1>4, <1>5, <1>6, <1>11, <1>12, <1>13, <1>14

(* A block that is not touched stays right when the stack keeps its part.   *)
LEMMA BlockStaysRight ==
  ASSUME NEW b \in Block, NEW stack, NEW other, NEW i, BlockRight(b, stack, i), b.mark \in Nat,
         \A m \in b.mark + 1 .. b.mark + Room(b) : other[m] = stack[m]
  PROVE  BlockRight(b, other, i)
<1>1. PICK room \in Nat : room = Room(b) BY RoomFacts
<1>2. \A n \in 1 .. room : b.mark + n \in b.mark + 1 .. b.mark + room OBVIOUS
<1>3. QED BY <1>1, <1>2 DEF BlockRight

(* Facts about sequences and blocks, apart from the state they are used in. *)
LEMMA AppendFacts ==
  ASSUME NEW S, NEW s \in Seq(S), NEW e \in S, NEW n \in Nat, n = Len(s)
  PROVE  /\ Append(s, e) \in Seq(S) /\ Len(Append(s, e)) = n + 1
         /\ Append(s, e)[n + 1] = e /\ \A m \in 1 .. n : Append(s, e)[m] = s[m]
OBVIOUS

LEMMA SeqIsFunction ==
  ASSUME NEW S, NEW s \in Seq(S)
  PROVE  /\ s = [m \in 1 .. Len(s) |-> s[m]] /\ (Len(s) = 0 <=> s = <<>>)
OBVIOUS

LEMMA BlockTakesDefer ==
  ASSUME NEW c \in Block, NEW d \in Nat
  PROVE  LET b == [c EXCEPT !.defers = d]
         IN  /\ b \in Block /\ b.outside = c.outside /\ b.defers = d /\ b.mark = c.mark
             /\ b.next = c.next /\ b.done = c.done
BY DEF Block

LEMMA OpenKeepsDefers ==
  ASSUME DeferInv, OpenBlock
  PROVE  DeferInv'
<1>1. PICK n \in Nat : n = Len(blocks) BY DEF DeferInv
<1>2. PICK open \in Nat : open = OpenDefers
  <2>1. CASE blocks = <<>> BY <2>1 DEF DeferInv, OpenDefers
  <2>2. CASE blocks # <<>>
    <3>1. n \in 1 .. n /\ Last(blocks) = blocks[n] BY <1>1, <2>2 DEF DeferInv, Last
    <3>2. blocks[n] \in Block BY <1>1, <3>1 DEF DeferInv
    <3>3. QED BY <2>2, <3>1, <3>2 DEF OpenDefers, Block
  <2>3. QED BY <2>1, <2>2
<1>3. PICK mark \in Nat : mark = Len(deferStack) BY DEF DeferInv
<1> DEFINE b == [mark |-> mark, next |-> 0, outside |-> open, defers |-> 0,
                 done |-> <<>>]
<1>4. /\ b \in Block /\ b.mark = mark /\ b.next = 0 /\ b.outside = open /\ b.defers = 0
      /\ b.done = <<>>
  BY DEF Block
<1>5. blocks' = Append(blocks, b) /\ UNCHANGED <<deferStack, loose>>
  BY <1>2, <1>3 DEF OpenBlock
<1> HIDE DEF b
<1>6. /\ blocks' \in Seq(Block) /\ Len(blocks') = n + 1 /\ blocks'[n + 1] = b
      /\ \A i \in 1 .. n : blocks'[i] = blocks[i]
  BY <1>1, <1>4, <1>5 DEF DeferInv
<1>7. blocks' # <<>> /\ Last(blocks') = b BY <1>6 DEF Last
<1>8. OpenDefers' = open BY <1>4, <1>7 DEF OpenDefers
<1>9. Outside(n + 1)' = open
  <2>1. CASE n = 0
    <3>1. blocks \in Seq(Block) BY DEF DeferInv
    <3>2. blocks = <<>> BY <1>1, <2>1, <3>1, SeqIsFunction
    <3>3. QED BY <1>2, <1>5, <2>1, <3>2 DEF Outside, OpenDefers
  <2>2. CASE n # 0
    <3>1. blocks # <<>> /\ Last(blocks) = blocks[n] BY <1>1, <2>2 DEF DeferInv, Last
    <3>2. blocks'[n] = blocks[n] BY <1>6, <2>2
    <3>3. QED BY <1>2, <2>2, <3>1, <3>2 DEF Outside, OpenDefers
  <2>3. QED BY <2>1, <2>2
<1>10. \A i \in 1 .. n : Outside(i)' = Outside(i)
  <2>1. \A i \in 1 .. n : i # 1 => i - 1 \in 1 .. n OBVIOUS
  <2>2. QED BY <1>5, <1>6, <2>1 DEF Outside
<1>11. mark = Smaller(DeferLimit, open) BY <1>2, <1>3 DEF DeferInv
<1>12. BlockRight(b, deferStack', n + 1)
  <2>1. Room(b) \in Nat /\ mark + Room(b) = Smaller(DeferLimit, open + 0)
    BY <1>4, <1>11, RoomFacts
  <2>2. PICK room \in Nat : room = Room(b) BY <2>1
  <2>3. open + 0 = open BY <1>2
  <2>4. mark + room = mark BY <1>11, <2>1, <2>2, <2>3
  <2>5. room = 0 BY <2>4
  <2>6. QED BY <1>4, <1>11, <2>2, <2>5 DEF BlockRight, WrittenRight
<1>13. ASSUME NEW i \in 1 .. n + 1
       PROVE  blocks'[i].outside = Outside(i)' /\ BlockRight(blocks'[i], deferStack', i)
  <2>1. CASE i = n + 1 BY <1>4, <1>6, <1>9, <1>12, <2>1
  <2>2. CASE i \in 1 .. n
    <3>1. blocks[i].outside = Outside(i) /\ BlockRight(blocks[i], deferStack, i)
      BY <1>1, <2>2 DEF DeferInv
    <3>2. QED BY <1>5, <1>6, <1>10, <2>2, <3>1
  <2>3. QED BY <2>1, <2>2
<1>14. ASSUME NEW i \in 1 .. n PROVE blocks[i].outside + blocks[i].defers <= open
  <2>1. blocks # <<>> /\ Last(blocks) = blocks[n] /\ n \in 1 .. n BY <1>1 DEF DeferInv, Last
  <2>2. /\ blocks[i].outside \in Nat /\ blocks[i].defers \in Nat
        /\ blocks[n].outside \in Nat /\ blocks[n].defers \in Nat
    <3>1. blocks[i] \in Block /\ blocks[n] \in Block BY <1>1, <2>1 DEF DeferInv
    <3>2. QED BY <3>1 DEF Block
  <2>3. open = blocks[n].outside + blocks[n].defers BY <1>2, <2>1 DEF OpenDefers
  <2>4. i < n => blocks[i].outside + blocks[i].defers <= blocks[n].outside
    BY <1>1, <2>1 DEF DeferInv
  <2>5. i = n \/ i < n OBVIOUS
  <2>6. QED BY <2>2, <2>3, <2>4, <2>5
<1>15. ASSUME NEW i \in 1 .. n + 1, NEW j \in 1 .. n + 1, i < j
       PROVE  blocks'[i].outside + blocks'[i].defers <= blocks'[j].outside
  <2>1. i \in 1 .. n /\ blocks'[i] = blocks[i] BY <1>6, <1>15
  <2>2. CASE j = n + 1 BY <1>4, <1>6, <1>14, <2>1, <2>2
  <2>3. CASE j \in 1 .. n BY <1>1, <1>6, <1>15, <2>1, <2>3 DEF DeferInv
  <2>4. QED BY <2>2, <2>3
<1>16. Len(deferStack') = Smaller(DeferLimit, OpenDefers')
  BY <1>3, <1>5, <1>8, <1>11
<1>17. deferStack' \in Seq(Nat \X Nat) /\ loose' \in Nat BY <1>5 DEF DeferInv
<1>18. QED BY <1>6, <1>13, <1>15, <1>16, <1>17 DEF DeferInv

(* Only the innermost block is written to: the others stay as they are.     *)
LEMMA LastAloneChanges ==
  ASSUME DeferInv, blocks # <<>>, NEW b \in Block, NEW n \in Nat, n = Len(blocks),
         blocks' = [blocks EXCEPT ![n] = b], loose' = loose, deferStack' \in Seq(Nat \X Nat),
         b.outside = blocks[n].outside, blocks[n].defers <= b.defers,
         Len(deferStack') = Smaller(DeferLimit, b.outside + b.defers),
         BlockRight(b, deferStack', n),
         \A m \in 1 .. Len(deferStack) : deferStack'[m] = deferStack[m]
  PROVE  DeferInv'
<1>1. /\ blocks' \in Seq(Block) /\ Len(blocks') = n
      /\ \A i \in 1 .. n : blocks'[i] = IF i = n THEN b ELSE blocks[i]
  BY DEF DeferInv
<1>2. n \in 1 .. n /\ n # 0 BY DEF DeferInv
<1>3. blocks' # <<>> /\ Last(blocks') = b BY <1>1, <1>2 DEF Last
<1>4. OpenDefers' = b.outside + b.defers BY <1>3 DEF OpenDefers
<1>5. \A i \in 1 .. n : Outside(i)' = Outside(i)
  <2>1. \A i \in 1 .. n : i # 1 => i - 1 \in 1 .. n /\ i - 1 # n OBVIOUS
  <2>2. QED BY <1>1, <2>1 DEF Outside
<1>6. ASSUME NEW i \in 1 .. n
      PROVE  blocks'[i].outside = Outside(i)' /\ BlockRight(blocks'[i], deferStack', i)
  <2>1. blocks[i].outside = Outside(i) /\ BlockRight(blocks[i], deferStack, i)
    BY DEF DeferInv
  <2>2. CASE i = n BY <1>1, <1>5, <2>1, <2>2
  <2>3. CASE i # n
    <3>1. /\ blocks[i] \in Block /\ blocks[i].mark \in Nat /\ Room(blocks[i]) \in Nat
          /\ blocks[i].mark + Room(blocks[i]) <= Len(deferStack)
      BY StackReaches
    <3>2. PICK mark \in Nat, room \in Nat, len \in Nat :
            mark = blocks[i].mark /\ room = Room(blocks[i]) /\ len = Len(deferStack)
      BY <3>1 DEF DeferInv
    <3>3. \A m \in mark + 1 .. mark + room : m \in 1 .. len BY <3>1, <3>2
    <3>4. BlockRight(blocks[i], deferStack', i) BY <2>1, <3>1, <3>2, <3>3, BlockStaysRight
    <3>5. QED BY <1>1, <1>5, <2>1, <2>3, <3>4
  <2>4. QED BY <2>2, <2>3
<1>7. ASSUME NEW i \in 1 .. n, NEW j \in 1 .. n, i < j
      PROVE  blocks'[i].outside + blocks'[i].defers <= blocks'[j].outside
  <2>1. i # n BY <1>7
  <2>2. blocks'[i] = blocks[i] /\ blocks'[j].outside = blocks[j].outside BY <1>1, <2>1
  <2>3. QED BY <1>7, <2>2 DEF DeferInv
<1>8. Len(deferStack') = Smaller(DeferLimit, OpenDefers') BY <1>4
<1>9. loose' \in Nat BY DEF DeferInv
<1>10. QED BY <1>1, <1>6, <1>7, <1>8, <1>9 DEF DeferInv

(* A defer statement finds room below the limit, or is dropped.             *)
LEMMA DeferKeepsDefers ==
  ASSUME DeferInv, DeferStmt
  PROVE  DeferInv'
<1>1. PICK n \in Nat : n = Len(blocks) BY DEF DeferInv
<1>2. PICK len \in Nat, limit \in Nat : len = Len(deferStack) /\ limit = DeferLimit
  BY DeferAssumption DEF DeferInv
<1>3. CASE blocks = <<>>
  <2>1. PICK c \in Nat : c = loose BY DEF DeferInv
  <2>2. /\ loose' = c + 1 /\ blocks' = <<>>
        /\ deferStack' = IF len < limit THEN Append(deferStack, <<Len(blocks), c + 1>>)
                                        ELSE deferStack
    BY <1>2, <1>3, <2>1 DEF DeferStmt
  <2>3. len = Smaller(limit, c) BY <1>2, <1>3, <2>1 DEF DeferInv, OpenDefers
  <2>4. <<Len(blocks), c + 1>> \in Nat \X Nat BY <1>1
  <2>5. /\ deferStack' \in Seq(Nat \X Nat)
        /\ Len(deferStack') = IF len < limit THEN len + 1 ELSE len
    BY <1>2, <2>2, <2>4 DEF DeferInv
  <2>6. Len(deferStack') = Smaller(limit, c + 1) BY <2>3, <2>5 DEF Smaller
  <2>7. Len(blocks') = 0 /\ blocks' \in Seq(Block) /\ OpenDefers' = c + 1 /\ loose' \in Nat
    BY <2>2 DEF OpenDefers
  <2>8. QED BY <1>2, <2>5, <2>6, <2>7 DEF DeferInv
<1>4. CASE blocks # <<>>
  <2>1. n \in 1 .. n /\ Last(blocks) = blocks[n] /\ blocks[n] \in Block
    BY <1>1, <1>4 DEF DeferInv, Last
  <2>2. PICK o \in Nat, d \in Nat : o = blocks[n].outside /\ d = blocks[n].defers
    BY <2>1 DEF Block
  <2> DEFINE b == [blocks[n] EXCEPT !.defers = d + 1]
  <2>3. /\ b \in Block /\ b.outside = o /\ b.defers = d + 1 /\ b.mark = blocks[n].mark
        /\ b.next = blocks[n].next /\ b.done = blocks[n].done
    BY <2>1, <2>2, BlockTakesDefer
  <2>4. blocks' = [blocks EXCEPT ![n] = b]
    BY <1>1, <1>4, <2>1, <2>2 DEF DeferStmt, DeferInv
  <2>5. loose' = loose
    BY <1>4 DEF DeferStmt
  <2>6. deferStack' = IF len < limit THEN Append(deferStack, <<n, d + 1>>) ELSE deferStack
    BY <1>1, <1>2, <1>4, <2>1, <2>2 DEF DeferStmt
  <2>7. blocks[n].next = 0 BY <1>4, <2>1 DEF DeferStmt, AtStatements
  <2> HIDE DEF b
  <2>8. len = Smaller(limit, o + d) BY <1>2, <1>4, <2>1, <2>2 DEF DeferInv, OpenDefers
  <2>9. <<n, d + 1>> \in Nat \X Nat OBVIOUS
  <2>10. /\ deferStack' \in Seq(Nat \X Nat)
         /\ Len(deferStack') = IF len < limit THEN len + 1 ELSE len
         /\ \A m \in 1 .. len : deferStack'[m] = deferStack[m]
         /\ len < limit => deferStack'[len + 1] = <<n, d + 1>>
    BY <1>2, <2>6, <2>9 DEF DeferInv
  <2>11. Len(deferStack') = Smaller(limit, o + (d + 1)) BY <2>8, <2>10 DEF Smaller
  <2>12. PICK mark \in Nat : mark = blocks[n].mark BY <2>1 DEF Block
  <2>13. mark = Smaller(limit, o) /\ BlockRight(blocks[n], deferStack, n)
    BY <1>1, <1>2, <2>1, <2>2, <2>12 DEF DeferInv, BlockRight
  <2>14. PICK r \in Nat : r = Room(blocks[n]) /\ mark + r = len
    BY <1>2, <2>1, <2>2, <2>8, <2>13, RoomFacts
  <2>15. PICK q \in Nat : q = Room(b) /\ mark + q = Len(deferStack')
    BY <1>2, <2>3, <2>11, <2>13, RoomFacts
  <2>16. q = r \/ (q = r + 1 /\ len < limit) BY <2>10, <2>14, <2>15
  <2>17. len < limit => r = d
    <3>1. (len < limit => len = o + d) /\ (o < limit => mark = o) /\ (limit <= o => mark = limit)
      BY <2>8, <2>13 DEF Smaller
    <3>2. QED BY <2>14, <3>1
  <2>18. BlockRight(b, deferStack', n)
    <3>1. ASSUME NEW m \in 1 .. q PROVE deferStack'[mark + m] = <<n, m>>
      <4>1. CASE m \in 1 .. r
        <5>1. deferStack[mark + m] = <<n, m>> BY <2>12, <2>13, <2>14, <4>1 DEF BlockRight
        <5>2. mark + m \in 1 .. len BY <2>14, <4>1
        <5>3. QED BY <2>10, <5>1, <5>2
      <4>2. CASE m \notin 1 .. r
        <5>1. m = r + 1 /\ len < limit BY <2>16, <4>2
        <5>2. m = d + 1 /\ mark + m = len + 1 BY <2>14, <2>17, <5>1
        <5>3. QED BY <2>10, <5>1, <5>2
      <4>3. QED BY <4>1, <4>2
    <3>2. blocks[n].done = <<>> BY <2>7, <2>13 DEF BlockRight, WrittenRight
    <3>3. QED BY <1>2, <2>3, <2>7, <2>12, <2>13, <2>15, <3>1, <3>2 DEF BlockRight, WrittenRight
  <2>19. QED
    <3>1. blocks[n].defers <= b.defers BY <2>2, <2>3
    <3>2. Len(deferStack') = Smaller(DeferLimit, b.outside + b.defers) BY <1>2, <2>3, <2>11
    <3>3. b.outside = blocks[n].outside BY <2>2, <2>3
    <3>4. \A m \in 1 .. Len(deferStack) : deferStack'[m] = deferStack[m] BY <1>2, <2>10
    <3>5. QED BY <1>1, <1>4, <2>3, <2>4, <2>5, <2>10, <2>18, <3>1, <3>2, <3>3, <3>4,
                 LastAloneChanges
<1>5. QED BY <1>3, <1>4

(* What is on the stack when block n, the innermost, is at its end, and what*)
(* of it is written next.                                                   *)
LEMMA InnermostBlock ==
  ASSUME DeferInv, blocks # <<>>, NEW n \in Nat, n = Len(blocks)
  PROVE  /\ n \in 1 .. n /\ Last(blocks) = blocks[n] /\ blocks[n] \in Block
         /\ BlockRight(blocks[n], deferStack, n)
         /\ Room(blocks[n]) \in Nat /\ blocks[n].mark \in Nat
         /\ Len(deferStack) = blocks[n].mark + Room(blocks[n])
         /\ Len(deferStack)
              = Smaller(DeferLimit, blocks[n].outside + blocks[n].defers)
<1>1. n \in 1 .. n /\ Last(blocks) = blocks[n] BY DEF DeferInv, Last
<1>2. BlockRight(blocks[n], deferStack, n) BY <1>1 DEF DeferInv
<1>3. Len(deferStack) = Smaller(DeferLimit, blocks[n].outside + blocks[n].defers)
  BY <1>1 DEF DeferInv, OpenDefers
<1>4. QED BY <1>1, <1>2, <1>3, StackReaches

(* What WriteFrom(i) is called for: the place below what has been written.  *)
LEMMA WrittenFromTop ==
  ASSUME DeferInv, blocks # <<>>, NEW i,
         (AtStatements /\ i = Len(deferStack)) \/ (~AtStatements /\ i = Last(blocks).next - 1)
  PROVE  LET b == Last(blocks) IN
         /\ i \in b.mark .. b.mark + Room(b)
         /\ b.done \in Seq(Nat \X Nat)
         /\ Len(b.done) = b.mark + Room(b) - i
         /\ \A m \in 1 .. Len(b.done) : b.done[m] = <<Len(blocks), Room(b) + 1 - m>>
<1>1. PICK n \in Nat : n = Len(blocks) BY DEF DeferInv
<1>2. PICK mark \in Nat, room \in Nat, next \in Nat :
        mark = blocks[n].mark /\ room = Room(blocks[n]) /\ next = blocks[n].next
  BY <1>1, InnermostBlock DEF Block
<1>3. Last(blocks) = blocks[n] /\ blocks[n].done \in Seq(Nat \X Nat)
  BY <1>1, InnermostBlock DEF Block
<1>4. WrittenRight(blocks[n], n, room) BY <1>1, <1>2, InnermostBlock DEF BlockRight
<1>5. CASE AtStatements
  <2>1. next = 0 /\ i = mark + room BY <1>1, <1>2, <1>3, <1>5, InnermostBlock DEF AtStatements
  <2>2. blocks[n].done = <<>> BY <1>2, <1>4, <2>1 DEF WrittenRight
  <2>3. i \in mark .. mark + room /\ mark + room - i = 0 BY <2>1
  <2>4. QED BY <1>1, <1>2, <1>3, <2>2, <2>3
<1>6. CASE ~AtStatements
  <2>1. next # 0 /\ i = next - 1 BY <1>2, <1>3, <1>6 DEF AtStatements
  <2>2. /\ next \in mark + 1 .. mark + room
        /\ Len(blocks[n].done) = mark + room - next + 1
        /\ \A m \in 1 .. Len(blocks[n].done) : blocks[n].done[m] = <<n, room + 1 - m>>
    BY <1>2, <1>4, <2>1 DEF WrittenRight
  <2>3. i \in mark .. mark + room /\ mark + room - next + 1 = mark + room - i BY <2>1, <2>2
  <2>4. QED BY <1>1, <1>2, <1>3, <2>2, <2>3
<1>7. QED BY <1>5, <1>6

LEMMA WriteKeepsDefers ==
  ASSUME DeferInv, EndStatements \/ EndDeferred
  PROVE  DeferInv'
<1>1. PICK n \in Nat : n = Len(blocks) BY DEF DeferInv
<1>2. blocks # <<>> BY DEF EndStatements, EndDeferred, AtStatements
<1>3. PICK i : /\ WriteFrom(i)
               /\ \/ AtStatements /\ i = Len(deferStack)
                  \/ ~AtStatements /\ i = Last(blocks).next - 1
  BY DEF EndStatements, EndDeferred
<1>4. PICK mark \in Nat, room \in Nat : mark = blocks[n].mark /\ room = Room(blocks[n])
  BY <1>1, <1>2, InnermostBlock
<1>5. /\ n \in 1 .. n /\ Last(blocks) = blocks[n] /\ blocks[n] \in Block
      /\ BlockRight(blocks[n], deferStack, n) /\ Len(deferStack) = mark + room
      /\ Len(deferStack) = Smaller(DeferLimit, blocks[n].outside + blocks[n].defers)
  BY <1>1, <1>2, <1>4, InnermostBlock
<1>6. PICK done \in Seq(Nat \X Nat), k \in Nat :
        /\ done = blocks[n].done /\ k = Len(done)
        /\ i \in mark .. mark + room /\ k = mark + room - i
        /\ \A m \in 1 .. k : done[m] = <<n, room + 1 - m>>
  <2>1. /\ i \in mark .. mark + room
        /\ blocks[n].done \in Seq(Nat \X Nat)
        /\ Len(blocks[n].done) = mark + room - i
        /\ \A m \in 1 .. Len(blocks[n].done) : blocks[n].done[m] = <<n, room + 1 - m>>
    BY <1>1, <1>2, <1>3, <1>4, <1>5, WrittenFromTop, Zenon
  <2>2. PICK done \in Seq(Nat \X Nat) : done = blocks[n].done BY <2>1
  <2>3. Len(done) \in Nat BY <2>2
  <2>4. QED BY <2>1, <2>2, <2>3
<1>7. CASE i > mark
  <2>1. i - mark \in 1 .. room /\ mark + (i - mark) = i /\ i \in Nat /\ i # 0 BY <1>6, <1>7
  <2>2. PICK e : e = deferStack[i] BY Zenon
  <2>3. e = <<n, i - mark>>
    <3>1. PICK m \in 1 .. room : m = i - mark BY <2>1
    <3>2. deferStack[mark + m] = <<n, m>> BY <1>4, <1>5, <3>1 DEF BlockRight
    <3>3. QED BY <2>1, <2>2, <3>1, <3>2
  <2>4. e \in Nat \X Nat
    <3>1. i - mark \in Nat BY <2>1
    <3>2. QED BY <2>3, <3>1
  <2>5. PICK more \in Seq(Nat \X Nat) :
          /\ more = Append(done, e) /\ Len(more) = k + 1 /\ more[k + 1] = e
          /\ \A m \in 1 .. k : more[m] = done[m]
    <3>1. k = Len(done) BY <1>6
    <3>2. PICK S : S = Nat \X Nat BY Zenon
    <3>3. done \in Seq(S) /\ e \in S BY <2>4, <3>2
    <3>4. /\ Append(done, e) \in Seq(S) /\ Len(Append(done, e)) = k + 1
          /\ Append(done, e)[k + 1] = e
          /\ \A m \in 1 .. k : Append(done, e)[m] = done[m]
      BY <3>1, <3>3, AppendFacts
    <3>5. QED BY <3>2, <3>4, Zenon
  <2>6. PICK b \in Block :
          /\ b = [blocks[n] EXCEPT !.next = i, !.done = more]
          /\ b.outside = blocks[n].outside /\ b.defers = blocks[n].defers
          /\ b.mark = mark /\ b.next = i /\ b.done = more
    <3>1. PICK c \in Block : c = blocks[n] /\ c.mark = mark BY <1>4, <1>5
    <3>2. i \in Nat BY <2>1
    <3>3. LET b == [c EXCEPT !.next = i, !.done = more]
          IN  /\ b \in Block /\ b.outside = c.outside /\ b.defers = c.defers
              /\ b.mark = c.mark /\ b.next = i /\ b.done = more
      BY <3>2 DEF Block
    <3>4. QED BY <3>1, <3>3, Zenon
  <2>7. blocks' = [blocks EXCEPT ![n] = b] /\ deferStack' = deferStack /\ loose' = loose
    <3>1. blocks' = [blocks EXCEPT ![n].next = i, ![n].done = Append(@, deferStack[i])]
      BY <1>1, <1>3, <1>4, <1>5, <1>7 DEF WriteFrom
    <3>2. deferStack' = deferStack /\ loose' = loose
      BY <1>3, <1>4, <1>5, <1>7 DEF WriteFrom
    <3>3. blocks[n] = [blocks[n] EXCEPT !.next = blocks[n].next] BY <1>5 DEF Block
    <3>4. QED BY <1>1, <1>5, <1>6, <2>2, <2>5, <2>6, <3>1, <3>2 DEF DeferInv, Block
  <2>8. Room(b) = room BY <1>4, <2>6 DEF Room
  <2>9. ASSUME NEW m \in 1 .. k + 1 PROVE more[m] = <<n, room + 1 - m>>
    <3>1. CASE m \in 1 .. k BY <1>6, <2>5, <3>1
    <3>2. CASE m = k + 1
      <4>1. room + 1 - m = i - mark BY <1>6, <3>2
      <4>2. QED BY <2>3, <2>5, <3>2, <4>1
    <3>3. QED BY <3>1, <3>2
  <2>10. WrittenRight(b, n, room)
    <3>1. i \in mark + 1 .. mark + room /\ k + 1 = mark + room - i + 1 BY <1>6, <1>7
    <3>2. QED BY <2>1, <2>5, <2>6, <2>9, <3>1 DEF WrittenRight
  <2>11. BlockRight(b, deferStack', n)
    BY <1>4, <1>5, <2>6, <2>7, <2>8, <2>10 DEF BlockRight
  <2>12. blocks[n].defers <= b.defers BY <1>5, <2>6 DEF Block
  <2>13. QED
    <3>1. /\ deferStack' \in Seq(Nat \X Nat)
          /\ \A m \in 1 .. Len(deferStack) : deferStack'[m] = deferStack[m]
      BY <2>7 DEF DeferInv
    <3>2. Len(deferStack') = Smaller(DeferLimit, b.outside + b.defers) BY <1>5, <2>6, <2>7
    <3>3. QED BY <1>1, <1>2, <2>6, <2>7, <2>11, <2>12, <3>1, <3>2, LastAloneChanges
<1>8. CASE ~(i > mark)
  <2>1. /\ deferStack' = SubSeq(deferStack, 1, mark) /\ blocks' = Front(blocks) /\ loose' = loose
    BY <1>3, <1>4, <1>5, <1>8 DEF WriteFrom, CloseBlock
  <2>2. PICK c \in Nat : c = n - 1 BY <1>5
  <2>3. /\ blocks' \in Seq(Block) /\ Len(blocks') = c
        /\ \A j \in 1 .. c : blocks'[j] = blocks[j]
    BY <1>1, <1>5, <2>1, <2>2, ShortenSeq DEF DeferInv
  <2>4. mark <= Len(deferStack) BY <1>5
  <2>5. /\ deferStack' \in Seq(Nat \X Nat) /\ Len(deferStack') = mark
        /\ \A m \in 1 .. mark : deferStack'[m] = deferStack[m]
    BY <2>1, <2>4 DEF DeferInv
  <2>6. blocks[n].outside = Outside(n) /\ mark = Smaller(DeferLimit, blocks[n].outside)
    BY <1>1, <1>4, <1>5 DEF DeferInv, BlockRight
  <2>7. OpenDefers' = blocks[n].outside
    <3>1. CASE n = 1
      <4>1. blocks' = <<>> BY <2>2, <2>3, <3>1
      <4>2. QED BY <2>1, <2>6, <3>1, <4>1 DEF OpenDefers, Outside
    <3>2. CASE n # 1
      <4>1. c \in 1 .. c /\ c = n - 1 BY <1>5, <2>2, <3>2
      <4>2. blocks' # <<>> /\ Last(blocks') = blocks[c] BY <2>3, <4>1 DEF Last
      <4>3. QED BY <2>6, <3>2, <4>1, <4>2 DEF OpenDefers, Outside
    <3>3. QED BY <3>1, <3>2
  <2>8. \A j \in 1 .. c : Outside(j)' = Outside(j)
    <3>1. \A j \in 1 .. c : j # 1 => j - 1 \in 1 .. c OBVIOUS
    <3>2. QED BY <2>1, <2>3, <3>1 DEF Outside
  <2>9. ASSUME NEW j \in 1 .. c
        PROVE  blocks'[j].outside = Outside(j)' /\ BlockRight(blocks'[j], deferStack', j)
    <3>1. j \in 1 .. n /\ j < n BY <2>2
    <3>2. blocks[j].outside = Outside(j) /\ BlockRight(blocks[j], deferStack, j)
      BY <1>1, <3>1 DEF DeferInv
    <3>3. /\ blocks[j] \in Block /\ blocks[j].mark \in Nat /\ Room(blocks[j]) \in Nat
          /\ blocks[j].mark + Room(blocks[j]) <= mark
      BY <1>1, <1>4, <1>5, <3>1, StackReaches
    <3>4. PICK low \in Nat, high \in Nat : low = blocks[j].mark /\ high = Room(blocks[j])
      BY <3>3
    <3>5. \A m \in low + 1 .. low + high : m \in 1 .. mark BY <3>3, <3>4
    <3>6. BlockRight(blocks[j], deferStack', j) BY <2>5, <3>2, <3>3, <3>4, <3>5, BlockStaysRight
    <3>7. QED BY <2>3, <2>8, <3>2, <3>6
  <2>10. ASSUME NEW j \in 1 .. c, NEW l \in 1 .. c, j < l
         PROVE  blocks'[j].outside + blocks'[j].defers <= blocks'[l].outside
    <3>1. j \in 1 .. n /\ l \in 1 .. n BY <2>2
    <3>2. QED BY <1>1, <2>3, <2>10, <3>1 DEF DeferInv
  <2>11. Len(deferStack') = Smaller(DeferLimit, OpenDefers') BY <2>5, <2>6, <2>7
  <2>12. loose' \in Nat BY <2>1 DEF DeferInv
  <2>13. QED BY <2>3, <2>5, <2>9, <2>10, <2>11, <2>12 DEF DeferInv
<1>9. QED BY <1>7, <1>8

(* The other stages of the build leave the stack alone.                     *)
LEMMA GeneratorSteps == [Next]_vars => [CgNext]_cgVars
BY DEF Next, vars, StartAnalysis, RegisterName, StartWalk, EnterNode, LeaveNode, Walking,
       Asm, Port, Use, Let, Assign, Break, Finish, Generate, WriteFile

(* Where the deferred expressions of every open block are on the stack, and *)
(* what has been written of them: this is inductive.                        *)
THEOREM DeferInvariant == Spec => []DeferInv
<1>1. Init => DeferInv
  <2> SUFFICES ASSUME Init PROVE DeferInv
    OBVIOUS
  <2>1. blocks = <<>> /\ deferStack = <<>> /\ loose = 0 BY DEF Init, CgInit
  <2>2. OpenDefers = 0 /\ Len(blocks) = 0 /\ Len(deferStack) = 0 BY <2>1 DEF OpenDefers
  <2>3. Smaller(DeferLimit, 0) = 0 BY DeferAssumption DEF Smaller
  <2>4. QED BY <2>1, <2>2, <2>3 DEF DeferInv
<1>2. DeferInv /\ [CgNext]_cgVars => DeferInv'
  <2> SUFFICES ASSUME DeferInv, [CgNext]_cgVars PROVE DeferInv'
    OBVIOUS
  <2>1. CASE UNCHANGED cgVars
    <3>1. UNCHANGED <<blocks, deferStack, loose>> BY <2>1 DEF cgVars
    <3>2. OpenDefers' = OpenDefers /\ \A i : Outside(i)' = Outside(i)
      BY <3>1 DEF OpenDefers, Outside
    <3>3. QED BY <3>1, <3>2 DEF DeferInv
  <2>2. QED BY <2>1, OpenKeepsDefers, DeferKeepsDefers, WriteKeepsDefers DEF CgNext
<1>3. QED BY <1>1, <1>2, GeneratorSteps, PTL DEF Spec

(* For blocks of any nesting, also in the expressions that are deferred, and*)
(* for any size of the stack: cg_block ends a block with the expressions    *)
(* deferred in it that found room on the stack, the last one first, and with*)
(* no others.                                                               *)
THEOREM DefersWrittenAtBlockEnd == Spec => DefersAtBlockEnd
<1>1. ASSUME DeferInv, [CgNext]_cgVars, Len(blocks') < Len(blocks)
      PROVE  Last(blocks).done = Deferred(Len(blocks), Room(Last(blocks)))
  <2>1. PICK n \in Nat : n = Len(blocks) BY <1>1 DEF DeferInv
  <2>2. CASE EndStatements \/ EndDeferred
    <3>1. blocks # <<>> BY <2>2 DEF EndStatements, EndDeferred, AtStatements
    <3>2. PICK i : /\ WriteFrom(i)
                   /\ \/ AtStatements /\ i = Len(deferStack)
                      \/ ~AtStatements /\ i = Last(blocks).next - 1
      BY <2>2 DEF EndStatements, EndDeferred
    <3>3. PICK mark \in Nat, room \in Nat : mark = Last(blocks).mark /\ room = Room(Last(blocks))
      BY <1>1, <2>1, <3>1, InnermostBlock
    <3>4. ~(i > mark)
      <4>1. SUFFICES ASSUME i > mark PROVE FALSE
        OBVIOUS
      <4>2. blocks' = [blocks EXCEPT ![n].next = i, ![n].done = Append(@, deferStack[i])]
        BY <2>1, <3>2, <3>3, <4>1 DEF WriteFrom
      <4>3. Len(blocks') = Len(blocks) BY <1>1, <4>2 DEF DeferInv
      <4>4. QED BY <1>1, <2>1, <4>3
    <3>5. PICK done \in Seq(Nat \X Nat) :
            /\ done = Last(blocks).done /\ i \in mark .. mark + room
            /\ Len(done) = mark + room - i
            /\ \A m \in 1 .. Len(done) : done[m] = <<n, room + 1 - m>>
      BY <1>1, <2>1, <3>1, <3>2, <3>3, WrittenFromTop
    <3>6. Len(done) = room BY <3>4, <3>5
    <3>7. done = [m \in 1 .. room |-> <<n, room + 1 - m>>]
      <4>1. done = [m \in 1 .. room |-> done[m]] BY <3>6, SeqIsFunction
      <4>2. \A m \in 1 .. room : done[m] = <<n, room + 1 - m>> BY <3>5, <3>6
      <4>3. QED BY <4>1, <4>2
    <3>8. QED BY <2>1, <3>3, <3>5, <3>7 DEF Deferred
  <2>3. CASE ~(EndStatements \/ EndDeferred)
    <3>1. OpenBlock \/ DeferStmt \/ UNCHANGED cgVars
      BY <1>1, <2>3 DEF CgNext
    <3>2. Len(blocks') = n \/ Len(blocks') = n + 1
      <4>1. CASE OpenBlock
        <5>1. PICK b : blocks' = Append(blocks, b) BY <4>1 DEF OpenBlock
        <5>2. QED BY <1>1, <2>1, <5>1 DEF DeferInv
      <4>2. CASE DeferStmt
        <5>1. UNCHANGED blocks \/ \E d : blocks' = [blocks EXCEPT ![Len(blocks)].defers = d]
          BY <4>2, Zenon DEF DeferStmt
        <5>2. QED BY <1>1, <2>1, <5>1 DEF DeferInv
      <4>3. CASE UNCHANGED cgVars BY <2>1, <4>3 DEF cgVars
      <4>4. QED BY <3>1, <4>1, <4>2, <4>3
    <3>3. QED BY <1>1, <2>1, <3>2
  <2>4. QED BY <2>2, <2>3
<1>2. QED BY <1>1, DeferInvariant, GeneratorSteps, PTL DEF Spec, DefersAtBlockEnd
=============================================================================
