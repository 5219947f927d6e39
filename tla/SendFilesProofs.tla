-------------------------- MODULE SendFilesProofs --------------------------
(***************************************************************************)
(* Theorems about SendFiles, for every value of its constants.             *)
(***************************************************************************)
EXTENDS SendFiles, FiniteSetTheorems, WellFoundedInduction, TLAPS

-----------------------------------------------------------------------------
(* Sums over finite sets.                                                  *)

\* The sum of F over S, as the models write it.
Sum(F, S) == MapThenSumSet(LAMBDA x : F[x], S)

Pick(S) == CHOOSE x \in S : TRUE

\* g is the function by which MapThenFoldSet comes to the sum of F over S.
Sums(F, g, S) ==
  g = [s \in SUBSET S |-> IF s = {} THEN 0
                          ELSE F[Pick(s)] + g[s \ {Pick(s)}]]

LEMMA SumIsChosen ==
  ASSUME NEW F, NEW S
  PROVE  Sum(F, S) = (CHOOSE g : Sums(F, g, S))[S]
BY DEF Sum, MapThenSumSet, MapThenFoldSet, Sums, Pick

LEMMA PickIn == ASSUME NEW S, S # {} PROVE Pick(S) \in S
BY DEF Pick

LEMMA SumsAt ==
  ASSUME NEW F, NEW S, NEW g, Sums(F, g, S), NEW s \in SUBSET S
  PROVE  g[s] = IF s = {} THEN 0 ELSE F[Pick(s)] + g[s \ {Pick(s)}]
BY DEF Sums

\* Induction over the subsets of a finite set, in the form of a smallest
\* member: a set of subsets that is not empty has one.
LEMMA SmallestSubset ==
  ASSUME NEW S, IsFiniteSet(S), NEW T, T \subseteq SUBSET S, T # {}
  PROVE  \E s \in T : \A t \in T : t \subseteq s => t = s
<1>1. IsWellFoundedOn(StrictSubsetOrdering(S), SUBSET S)
  BY FS_StrictSubsetOrderingWellFounded, FS_FiniteSubsetsOfFinite
<1>2. PICK s \in T : \A t \in T : <<t, s>> \notin StrictSubsetOrdering(S)
  BY <1>1, WFMin
<1> QED
  BY <1>2 DEF StrictSubsetOrdering

LEMMA SumsAgree ==
  ASSUME NEW F, NEW S, NEW g, Sums(F, g, S), IsFiniteSet(S),
         NEW T \in SUBSET S, NEW h, Sums(F, h, T)
  PROVE  \A s \in SUBSET T : g[s] = h[s]
<1> DEFINE Bad == {s \in SUBSET T : g[s] # h[s]}
<1> SUFFICES ASSUME Bad # {} PROVE FALSE
  OBVIOUS
<1>1. IsFiniteSet(T) /\ Bad \subseteq SUBSET T
  BY FS_Subset
<1> HIDE DEF Bad
<1>2. PICK s \in Bad : \A t \in Bad : t \subseteq s => t = s
  BY <1>1, SmallestSubset
<1> USE DEF Bad
<1>3. g[s] = IF s = {} THEN 0 ELSE F[Pick(s)] + g[s \ {Pick(s)}]
  <2>1. s \in SUBSET S
    OBVIOUS
  <2> HIDE DEF Bad
  <2> QED
    BY <2>1, SumsAt
<1>4. h[s] = IF s = {} THEN 0 ELSE F[Pick(s)] + h[s \ {Pick(s)}]
  BY SumsAt
<1>5. CASE s = {}
  BY <1>3, <1>4, <1>5
<1>6. CASE s # {}
  <2>1. s \ {Pick(s)} \notin Bad
    BY <1>2, <1>6, PickIn
  <2> QED
    BY <1>2, <1>3, <1>4, <2>1
<1> QED
  BY <1>5, <1>6

LEMMA SumsExist ==
  ASSUME NEW F, NEW S, IsFiniteSet(S)
  PROVE  \E g : Sums(F, g, S)
<1> DEFINE Bad == {s \in SUBSET S : ~ \E g : Sums(F, g, s)}
<1> SUFFICES ASSUME Bad # {} PROVE FALSE
  OBVIOUS
<1>1. PICK s \in Bad : \A t \in Bad : t \subseteq s => t = s
  <2>1. Bad \subseteq SUBSET S
    OBVIOUS
  <2> HIDE DEF Bad
  <2> QED
    BY <2>1, SmallestSubset
<1> DEFINE Of(t) == CHOOSE g : Sums(F, g, t)
           G == [t \in SUBSET s |-> IF t = {} THEN 0
                                    ELSE F[Pick(t)] + Of(t \ {Pick(t)})[t \ {Pick(t)}]]
<1>2. ASSUME NEW t \in SUBSET s, t # s
      PROVE  Sums(F, Of(t), t)
  <2>1. \E g : Sums(F, g, t)
    BY <1>1, <1>2
  <2> QED
    BY <2>1
<1> HIDE DEF Of
<1>3. ASSUME NEW t \in SUBSET s, t # s
      PROVE  G[t] = Of(t)[t]
  <2>1. Of(t)[t] = IF t = {} THEN 0 ELSE F[Pick(t)] + Of(t)[t \ {Pick(t)}]
    BY <1>2, <1>3, SumsAt
  <2>2. CASE t = {}
    BY <2>1, <2>2
  <2>3. CASE t # {}
    <3> DEFINE r == t \ {Pick(t)}
    <3>1. r \in SUBSET t /\ r # s
      BY <1>3, <2>3, PickIn
    <3>2. Sums(F, Of(r), r) /\ Sums(F, Of(t), t)
      BY <1>2, <1>3, <3>1
    <3>3. IsFiniteSet(t)
      BY FS_Subset
    <3> HIDE DEF r
    <3>4. Of(t)[r] = Of(r)[r]
      BY <3>1, <3>2, <3>3, SumsAgree
    <3> USE DEF r
    <3> QED
      BY <2>1, <2>3, <3>4
  <2> QED
    BY <2>2, <2>3
<1>4. ASSUME NEW t \in SUBSET s
      PROVE  G[t] = IF t = {} THEN 0 ELSE F[Pick(t)] + G[t \ {Pick(t)}]
  <2>1. CASE t = {}
    BY <2>1
  <2>2. CASE t # {}
    <3> DEFINE r == t \ {Pick(t)}
    <3>1. r \in SUBSET s /\ r # s
      BY <2>2, PickIn
    <3>2. G[r] = Of(r)[r]
      BY <1>3, <3>1
    <3> QED
      BY <2>2, <3>2
  <2> QED
    BY <2>1, <2>2
<1>5. Sums(F, G, s)
  <2>1. G = [t \in SUBSET s |-> G[t]]
    OBVIOUS
  <2> HIDE DEF G
  <2> QED
    BY <1>4, <2>1 DEF Sums
<1> QED
  BY <1>1, <1>5

-----
LEMMA SumUnfolds ==
  ASSUME NEW F, NEW S, IsFiniteSet(S)
  PROVE  Sum(F, S) = IF S = {} THEN 0 ELSE F[Pick(S)] + Sum(F, S \ {Pick(S)})
<1> DEFINE g == CHOOSE g : Sums(F, g, S)
           r == S \ {Pick(S)}
           h == CHOOSE h : Sums(F, h, r)
<1>1. Sum(F, S) = g[S] /\ Sum(F, r) = h[r]
  BY SumIsChosen
<1>2. IsFiniteSet(r) /\ r \in SUBSET S
  BY FS_Subset
<1>3. Sums(F, g, S) /\ Sums(F, h, r)
  <2>1. (\E x : Sums(F, x, S)) /\ (\E x : Sums(F, x, r))
    <3> HIDE DEF r
    <3> QED
      BY <1>2, SumsExist
  <2> QED
    BY <2>1
<1> HIDE DEF g, h, r
<1>4. g[r] = h[r]
  BY <1>2, <1>3, SumsAgree
<1>5. g[S] = IF S = {} THEN 0 ELSE F[Pick(S)] + g[r]
  BY <1>3, SumsAt DEF r
<1> QED
  BY <1>1, <1>4, <1>5 DEF r

LEMMA SumOfNone == ASSUME NEW F PROVE Sum(F, {}) = 0
BY SumUnfolds, FS_EmptySet

LEMMA SumIsNatural ==
  ASSUME NEW F, NEW S, IsFiniteSet(S), \A x \in S : F[x] \in Nat
  PROVE  Sum(F, S) \in Nat
<1> DEFINE Bad == {s \in SUBSET S : Sum(F, s) \notin Nat}
<1> SUFFICES ASSUME Bad # {} PROVE FALSE
  OBVIOUS
<1>1. PICK s \in Bad : \A t \in Bad : t \subseteq s => t = s
  <2>1. Bad \subseteq SUBSET S
    OBVIOUS
  <2> HIDE DEF Bad
  <2> QED
    BY <2>1, SmallestSubset
<1>2. IsFiniteSet(s)
  BY FS_Subset
<1>3. Sum(F, s) = IF s = {} THEN 0 ELSE F[Pick(s)] + Sum(F, s \ {Pick(s)})
  BY <1>2, SumUnfolds
<1>4. s # {} => s \ {Pick(s)} \notin Bad /\ Pick(s) \in S
  BY <1>1, PickIn
<1> QED
  BY <1>3, <1>4

\* Whatever order the terms are taken in, one of them can be set apart.
LEMMA SumWithout ==
  ASSUME NEW F, NEW S, IsFiniteSet(S), \A x \in S : F[x] \in Nat,
         NEW x \in S
  PROVE  Sum(F, S) = F[x] + Sum(F, S \ {x})
<1> DEFINE Bad == {s \in SUBSET S : \E y \in s : Sum(F, s) # F[y] + Sum(F, s \ {y})}
<1> SUFFICES ASSUME Bad # {} PROVE FALSE
  OBVIOUS
<1>1. PICK s \in Bad : \A t \in Bad : t \subseteq s => t = s
  <2>1. Bad \subseteq SUBSET S
    OBVIOUS
  <2> HIDE DEF Bad
  <2> QED
    BY <2>1, SmallestSubset
<1>2. PICK y \in s : Sum(F, s) # F[y] + Sum(F, s \ {y})
  OBVIOUS
<1> DEFINE p == Pick(s)
<1>3. p \in s
  BY PickIn
<1>4. \A t \in SUBSET S : IsFiniteSet(t) /\ Sum(F, t) \in Nat
  BY FS_Subset, SumIsNatural
<1>5. Sum(F, s) = F[p] + Sum(F, s \ {p})
  BY <1>4, SumUnfolds
<1>6. y # p
  BY <1>2, <1>5
<1>12. Sum(F, s) # F[y] + Sum(F, s \ {y})
  BY <1>2
<1> HIDE DEF p
<1>7. s \ {p} \notin Bad /\ s \ {y} \notin Bad
  BY <1>1, <1>3
<1>8. Sum(F, s \ {p}) = F[y] + Sum(F, (s \ {p}) \ {y})
  BY <1>6, <1>7
<1>9. Sum(F, s \ {y}) = F[p] + Sum(F, (s \ {y}) \ {p})
  BY <1>3, <1>6, <1>7
<1>10. (s \ {y}) \ {p} = (s \ {p}) \ {y}
  OBVIOUS
<1>11. F[y] \in Nat /\ F[p] \in Nat /\ Sum(F, (s \ {p}) \ {y}) \in Nat
  BY <1>3, <1>4
<1> HIDE DEF Bad
<1> QED
  BY <1>5, <1>8, <1>9, <1>10, <1>11, <1>12

LEMMA SumGrows ==
  ASSUME NEW F, NEW S, IsFiniteSet(S), \A x \in S : F[x] \in Nat,
         NEW T \in SUBSET S
  PROVE  Sum(F, T) <= Sum(F, S)
<1> DEFINE Bad == {s \in SUBSET S : T \subseteq s /\ ~(Sum(F, T) <= Sum(F, s))}
<1> SUFFICES ASSUME Bad # {} PROVE FALSE
  OBVIOUS
<1>1. PICK s \in Bad : \A t \in Bad : t \subseteq s => t = s
  <2>1. Bad \subseteq SUBSET S
    OBVIOUS
  <2> HIDE DEF Bad
  <2> QED
    BY <2>1, SmallestSubset
<1>2. \A t \in SUBSET S : IsFiniteSet(t) /\ Sum(F, t) \in Nat
  BY FS_Subset, SumIsNatural
<1>3. CASE s = T
  BY <1>2, <1>3
<1>4. CASE s # T
  <2>1. PICK x \in s : x \notin T
    BY <1>4
  <2>2. s \ {x} \notin Bad /\ T \subseteq s \ {x}
    BY <1>1, <2>1
  <2>3. Sum(F, s) = F[x] + Sum(F, s \ {x})
    BY <1>2, SumWithout
  <2>4. F[x] \in Nat /\ Sum(F, s \ {x}) \in Nat /\ Sum(F, T) \in Nat
    BY <1>2
  <2> QED
    BY <2>2, <2>3, <2>4
<1> QED
  BY <1>3, <1>4
-----------------------------------------------------------------------------
(* Type correctness.  A file is named before its upload starts, and what is  *)
(* left of accepted_files was asked for.                                     *)

Phases ==
  /\ pc \in {"idle", "stat", "ask"} =>
       wanted = {} /\ taken = {} /\ file = None /\ base = 0
  /\ pc \in {"open", "upload", "cancel"} => file # None
  /\ pc \in {"next", "open", "upload"} => todo \subseteq wanted
  /\ body # "none" => pc \in {"upload", "done"} /\ file # None

ShapeInv == TypeOK /\ Phases

LEMMA TotalIsSum == Total = Sum(FileSize, wanted \cap offered)
BY DEF Total, Sum

\* What the receiver may name is finite, since only offered files count.
LEMMA WantedFinite ==
  ASSUME TypeOK, NEW S \in SUBSET (wanted \cap offered)
  PROVE  IsFiniteSet(S) /\ S \subseteq Files /\ \A f \in S : FileSize[f] \in Nat
<1>1. S \subseteq Files
  BY DEF TypeOK
<1>2. IsFiniteSet(S)
  BY <1>1, FS_Subset, SendAssumption
<1> QED
  BY <1>1, <1>2, SendAssumption

LEMMA TotalIsNatural == TypeOK => Total \in Nat
<1> SUFFICES ASSUME TypeOK PROVE Total \in Nat
  OBVIOUS
<1> DEFINE S == wanted \cap offered
<1>1. IsFiniteSet(S) /\ \A f \in S : FileSize[f] \in Nat
  BY WantedFinite
<1> HIDE DEF S
<1>2. Sum(FileSize, S) \in Nat
  BY <1>1, SumIsNatural
<1> QED
  BY <1>2, TotalIsSum DEF S

LEMMA EventsTyped ==
  /\ NoValidFiles \in TaskEvent /\ AlreadyThere \in TaskEvent
  /\ NoneWanted \in TaskEvent /\ SentAll \in TaskEvent /\ Failed \in TaskEvent
  /\ \A n, t \in Nat : Progress(n, t) \in TaskEvent
BY DEF NoValidFiles, AlreadyThere, NoneWanted, SentAll, Failed, Progress,
       FromTask, AppEvent, TaskEvent

\* What sending an event does to the events sent.
LEMMA EmitAppends ==
  ASSUME events \in Seq(TaskEvent), NEW e \in TaskEvent, Emit(e)
  PROVE  /\ events' \in Seq(TaskEvent)
         /\ DOMAIN events' = DOMAIN events \cup {Len(events) + 1}
         /\ DOMAIN events = 1 .. Len(events) /\ Len(events) \in Nat
         /\ \A i \in DOMAIN events : events'[i] = events[i]
         /\ events'[Len(events) + 1] = e
BY DEF Emit

LEMMA ShapeInit == Init => ShapeInv
<1> SUFFICES ASSUME Init PROVE ShapeInv
  OBVIOUS
<1>1. events \in Seq(TaskEvent)
  BY DEF Init
<1>2. 0 \in 0 .. MaxLength
  BY SendAssumption
<1> QED
  BY <1>1, <1>2 DEF Init, SendInit, ShapeInv, TypeOK, Phases, Steps, TaskEvent

LEMMA ShapeStep == ShapeInv /\ [Next]_<<sendVars, events>> => ShapeInv'
<1> SUFFICES ASSUME ShapeInv, [Next]_<<sendVars, events>> PROVE ShapeInv'
  OBVIOUS
<1> USE SendAssumption DEF ShapeInv, Phases, Steps
<1>0. events \in Seq(TaskEvent)
  BY DEF TypeOK
<1> DEFINE Told == events' \in Seq(TaskEvent)
<1>1. CASE pc = "idle" /\ Begin
  BY <1>1 DEF Begin, TypeOK
<1>2. ASSUME NEW f \in Files, StatFile(f) PROVE ShapeInv'
  BY <1>2 DEF StatFile, TypeOK
<1>3. CASE Offer
  <2>1. Told
    BY <1>0, <1>3, EventsTyped, EmitAppends DEF Offer
  <2> QED
    BY <1>3, <2>1 DEF Offer, TypeOK
<1>4. ASSUME NEW id \in Files \cup Strangers, NextFile(id) PROVE ShapeInv'
  BY <1>4 DEF NextFile, TypeOK, Rest, Known
<1>5. CASE OpenFile
  <2>1. Told
    BY <1>0, <1>5, EventsTyped, EmitAppends DEF OpenFile
  <2> QED
    BY <1>5, <2>1 DEF OpenFile, TypeOK
<1>6. CASE PostCancel
  BY <1>6 DEF PostCancel, TypeOK
<1>7. CASE Finish
  <2>1. Told
    BY <1>0, <1>7, EventsTyped, EmitAppends DEF Finish
  <2> QED
    BY <1>7, <2>1 DEF Finish, TypeOK
<1>8. CASE AnsweredWithout
  <2>1. Told
    BY <1>0, <1>8, EventsTyped, EmitAppends DEF AnsweredWithout
  <2> QED
    BY <1>8, <2>1 DEF AnsweredWithout, TypeOK
<1>9. ASSUME NEW ids \in SUBSET (offered \cup Strangers), AnsweredWith(ids)
      PROVE  ShapeInv'
  <2>1. Told
    BY <1>0, <1>9, EventsTyped, EmitAppends DEF AnsweredWith
  <2>2. ids \subseteq Files \cup Strangers
    BY DEF TypeOK
  <2> QED
    BY <1>9, <2>1, <2>2 DEF AnsweredWith, TypeOK
<1>10. ASSUME NEW n \in ChunkSizes, ReadChunk(n) PROVE ShapeInv'
  <2>1. file \in Files /\ FileSize[file] \in 0 .. MaxLength
    BY <1>10 DEF ReadChunk, TypeOK
  <2>2. position' \in 0 .. MaxLength
    BY <1>10, <2>1 DEF ReadChunk, TypeOK
  <2>3. base + position + n \in Nat
    BY DEF TypeOK
  <2>4. Told
    BY <1>0, <1>10, <2>3, TotalIsNatural, EventsTyped, EmitAppends
       DEF ReadChunk
  <2> QED
    BY <1>10, <2>2, <2>4 DEF ReadChunk, TypeOK
<1>11. CASE EndOfFile
  BY <1>11 DEF EndOfFile, TypeOK
<1>12. CASE UploadFails
  <2>1. Told
    BY <1>0, <1>12, EventsTyped, EmitAppends DEF UploadFails
  <2> QED
    BY <1>12, <2>1 DEF UploadFails, TypeOK
<1>13. CASE UploadTaken
  <2>1. file \in wanted \cap offered /\ NextBase \in Nat
    BY <1>13 DEF UploadTaken, TypeOK, NextBase
  <2>2. Told
    BY <1>0, <1>13, <2>1, TotalIsNatural, EventsTyped, EmitAppends
       DEF UploadTaken
  <2> QED
    BY <1>13, <2>1, <2>2 DEF UploadTaken, TypeOK
<1>14. CASE DropBody
  BY <1>14 DEF DropBody, TypeOK
<1>15. CASE UNCHANGED <<sendVars, events>>
  BY <1>15 DEF sendVars, TypeOK
<1> QED
  BY <1>1, <1>2, <1>3, <1>4, <1>5, <1>6, <1>7, <1>8, <1>9, <1>10, <1>11,
     <1>12, <1>13, <1>14, <1>15
     DEF Next, SendNext, TaskStep, AnswerStep, UploadStep

LEMMA ShapeAlways == Spec => []ShapeInv
BY ShapeInit, ShapeStep, PTL DEF Spec

\* The task's state keeps its shape; in particular what is being uploaded, and
\* what the receiver confirmed, was offered and asked for (file_dto_map).
THEOREM TypeCorrect == Spec => []TypeOK
<1>1. ShapeInv => TypeOK
  BY DEF ShapeInv
<1> QED
  BY <1>1, ShapeAlways, PTL

-----------------------------------------------------------------------------
(* Verdicts.  Before its end the task has not spoken, except of the failure  *)
(* after which it still posts a cancel; and each file asked for is either    *)
(* confirmed, in hand, or still to come.                                     *)

VerdictsAt == {i \in DOMAIN events : events[i] \in Verdicts}

VerdictInv ==
  /\ \A i, j \in VerdictsAt : i = j
  /\ pc \notin {"cancel", "done"} => VerdictsAt = {}
  /\ pc = "cancel" => VerdictsAt # {}
  /\ pc = "done" => Emitted(NoValidFiles) \/ VerdictsAt # {}

InHand == IF pc \in {"open", "upload"} THEN {file} ELSE {}

EarnedInv ==
  /\ pc \in {"next", "open", "upload"} =>
       wanted \cap offered \subseteq taken \cup todo \cup InHand
  /\ Emitted(SentAll) => pc = "done" /\ taken = wanted \cap offered

SendInv == ShapeInv /\ VerdictInv /\ EarnedInv

LEMMA EventsDiffer ==
  /\ NoValidFiles \notin Verdicts
  /\ \A n, t \in Nat : Progress(n, t) \notin Verdicts
  /\ Failed # SentAll /\ AlreadyThere # SentAll /\ NoneWanted # SentAll
  /\ Verdicts = {AlreadyThere, NoneWanted, SentAll, Failed}
BY DEF NoValidFiles, AlreadyThere, NoneWanted, SentAll, Failed, Progress,
       FromTask, AppEvent, Verdicts

\* An event that is no verdict leaves the verdicts as they are.
LEMMA EmitOther ==
  ASSUME events \in Seq(TaskEvent), NEW e \in TaskEvent \ Verdicts, Emit(e)
  PROVE  /\ VerdictsAt' = VerdictsAt
         /\ \A v \in Verdicts : Emitted(v)' <=> Emitted(v)
         /\ \A v : Emitted(v) => Emitted(v)'
         /\ Emitted(e)'
<1>1. VerdictsAt' = VerdictsAt
  BY EmitAppends DEF VerdictsAt
<1>2. \A v \in Verdicts : Emitted(v)' <=> Emitted(v)
  BY EmitAppends DEF Emitted
<1>3. (\A v : Emitted(v) => Emitted(v)') /\ Emitted(e)'
  BY EmitAppends DEF Emitted
<1> QED
  BY <1>1, <1>2, <1>3

\* A verdict is the only one if there was none.
LEMMA EmitVerdict ==
  ASSUME events \in Seq(TaskEvent), NEW e \in TaskEvent \cap Verdicts, Emit(e),
         VerdictsAt = {}
  PROVE  /\ VerdictsAt' # {}
         /\ \A i, j \in VerdictsAt' : i = j
         /\ \A v \in Verdicts : Emitted(v)' => v = e
<1>1. VerdictsAt' = {Len(events) + 1}
  BY EmitAppends DEF VerdictsAt
<1>2. \A v \in Verdicts : Emitted(v)' => v = e
  BY EmitAppends DEF VerdictsAt, Emitted
<1> QED
  BY <1>1, <1>2

LEMMA VerdictInit == Init => VerdictInv /\ EarnedInv
BY DEF Init, SendInit, VerdictInv, EarnedInv, VerdictsAt, Emitted

LEMMA VerdictStep ==
  SendInv /\ [Next]_<<sendVars, events>> => VerdictInv' /\ EarnedInv'
<1> SUFFICES ASSUME SendInv, [Next]_<<sendVars, events>>
             PROVE  VerdictInv' /\ EarnedInv'
  OBVIOUS
<1>0. events \in Seq(TaskEvent) /\ TypeOK /\ Phases /\ VerdictInv /\ EarnedInv
  BY DEF SendInv, ShapeInv, TypeOK
<1> DEFINE Quiet == /\ VerdictsAt' = VerdictsAt
                    /\ \A v \in Verdicts : Emitted(v)' <=> Emitted(v)
                    /\ \A v : Emitted(v) => Emitted(v)'
           Spoken(e) == /\ VerdictsAt' # {}
                        /\ \A i, j \in VerdictsAt' : i = j
                        /\ \A v \in Verdicts : Emitted(v)' => v = e
           End == {"cancel", "done"}
<1>1. UNCHANGED events => Quiet
  BY DEF VerdictsAt, Emitted
<1>2. ASSUME NEW e \in {AlreadyThere, NoneWanted, SentAll, Failed},
             Emit(e), pc \notin End
      PROVE  Spoken(e)
  BY <1>0, <1>2, EventsTyped, EventsDiffer, EmitVerdict DEF VerdictInv
<1>3. SentAll \in Verdicts
  BY EventsDiffer
<1> HIDE DEF Quiet, Spoken
<1>4. ASSUME Quiet, \/ pc \notin End /\ pc' \notin End
                    \/ pc \in End /\ pc' = "done"
      PROVE  VerdictInv'
  BY <1>0, <1>4 DEF VerdictInv, Quiet
<1>5. ASSUME NEW e, Spoken(e), pc' \in End
      PROVE  VerdictInv'
  BY <1>5 DEF VerdictInv, Spoken
<1>6. ASSUME Quiet, UNCHANGED <<taken, wanted, offered>>, pc \in End, pc' = "done"
      PROVE  EarnedInv'
  BY <1>0, <1>3, <1>6 DEF EarnedInv, Quiet
<1>7. ASSUME Quiet, pc \notin End,
             pc' \in {"next", "open", "upload"} =>
               wanted' \cap offered' \subseteq taken' \cup todo' \cup InHand'
      PROVE  EarnedInv'
  BY <1>0, <1>3, <1>7 DEF EarnedInv, Quiet
<1>8. ASSUME NEW e \in {AlreadyThere, NoneWanted, Failed}, Spoken(e),
             pc' \in End
      PROVE  EarnedInv'
  BY <1>3, <1>8, EventsDiffer DEF EarnedInv, Spoken
<1> USE DEF Phases, InHand
<1>11. CASE pc = "idle" /\ Begin
  <2>1. Quiet
    BY <1>1, <1>11 DEF Begin
  <2> QED
    BY <1>4, <1>7, <1>11, <2>1 DEF Begin
<1>12. ASSUME NEW f \in Files, StatFile(f) PROVE VerdictInv' /\ EarnedInv'
  <2>1. Quiet
    BY <1>1, <1>12 DEF StatFile
  <2> QED
    BY <1>4, <1>7, <1>12, <2>1 DEF StatFile
<1>13. CASE Offer
  <2>1. CASE Emit(NoValidFiles) /\ pc' = "done"
    <3>1. Quiet /\ Emitted(NoValidFiles)'
      BY <1>0, <2>1, EventsTyped, EventsDiffer, EmitOther DEF Quiet
    <3>2. VerdictsAt = {} /\ pc \notin End
      BY <1>0, <1>13 DEF Offer, VerdictInv
    <3>3. VerdictInv'
      BY <2>1, <3>1, <3>2 DEF VerdictInv, Quiet
    <3> QED
      BY <1>7, <2>1, <3>1, <3>2, <3>3
  <2>2. CASE UNCHANGED events /\ pc' = "ask"
    BY <1>1, <1>4, <1>7, <1>13, <2>2 DEF Offer
  <2> QED
    BY <1>13, <2>1, <2>2 DEF Offer
<1>14. ASSUME NEW id \in Files \cup Strangers, NextFile(id)
       PROVE  VerdictInv' /\ EarnedInv'
  <2>1. Quiet
    BY <1>1, <1>14 DEF NextFile
  <2>2. pc' \in {"next", "open", "upload"} =>
          wanted' \cap offered' \subseteq taken' \cup todo' \cup InHand'
    BY <1>0, <1>14 DEF NextFile, Rest, Known, EarnedInv
  <2> QED
    BY <1>4, <1>7, <1>14, <2>1, <2>2 DEF NextFile
<1>15. CASE OpenFile
  <2>1. CASE UNCHANGED events /\ pc' = "upload"
    <3>1. wanted' \cap offered' \subseteq taken' \cup todo' \cup InHand'
      BY <1>0, <1>15, <2>1 DEF OpenFile, EarnedInv
    <3> QED
      BY <1>1, <1>4, <1>7, <1>15, <2>1, <3>1 DEF OpenFile
  <2>2. CASE Emit(Failed) /\ pc' = "cancel"
    BY <1>2, <1>5, <1>8, <1>15, <2>2 DEF OpenFile
  <2> QED
    BY <1>15, <2>1, <2>2 DEF OpenFile
<1>16. CASE PostCancel
  BY <1>1, <1>4, <1>6, <1>16 DEF PostCancel
<1>17. CASE Finish
  <2>1. Spoken(SentAll)
    BY <1>2, <1>17 DEF Finish
  <2>2. taken' = wanted' \cap offered'
    BY <1>0, <1>17 DEF Finish, EarnedInv, TypeOK
  <2> QED
    BY <1>5, <1>17, <2>1, <2>2 DEF Finish, EarnedInv
<1>18. CASE AnsweredWithout
  BY <1>2, <1>5, <1>8, <1>18 DEF AnsweredWithout
<1>19. ASSUME NEW ids \in SUBSET (offered \cup Strangers), AnsweredWith(ids)
       PROVE  VerdictInv' /\ EarnedInv'
  <2>1. CASE Emit(NoneWanted) /\ pc' = "done"
    BY <1>2, <1>5, <1>8, <1>19, <2>1 DEF AnsweredWith
  <2>2. CASE UNCHANGED events /\ pc' = "next"
    BY <1>1, <1>4, <1>7, <1>19, <2>2 DEF AnsweredWith
  <2> QED
    BY <1>19, <2>1, <2>2 DEF AnsweredWith
<1>20. ASSUME NEW n \in ChunkSizes, ReadChunk(n)
       PROVE  VerdictInv' /\ EarnedInv'
  <2>1. base + position + n \in Nat /\ Total \in Nat
    BY <1>0, SendAssumption, TotalIsNatural DEF TypeOK
  <2>2. Quiet
    BY <1>0, <1>20, <2>1, EventsTyped, EventsDiffer, EmitOther
       DEF ReadChunk, Quiet
  <2>3. pc' = pc /\ pc \in {"upload", "done"}
    BY <1>0, <1>20 DEF ReadChunk
  <2>4. pc = "upload" =>
          wanted' \cap offered' \subseteq taken' \cup todo' \cup InHand'
    BY <1>0, <1>20 DEF ReadChunk, EarnedInv
  <2> QED
    BY <1>4, <1>6, <1>7, <1>20, <2>2, <2>3, <2>4 DEF ReadChunk
<1>21. CASE EndOfFile
  <2>1. Quiet /\ pc' = pc /\ pc \in {"upload", "done"}
    BY <1>0, <1>1, <1>21 DEF EndOfFile
  <2>2. pc = "upload" =>
          wanted' \cap offered' \subseteq taken' \cup todo' \cup InHand'
    BY <1>0, <1>21 DEF EndOfFile, EarnedInv
  <2> QED
    BY <1>4, <1>6, <1>7, <1>21, <2>1, <2>2 DEF EndOfFile
<1>22. CASE UploadFails
  BY <1>2, <1>5, <1>8, <1>22 DEF UploadFails
<1>23. CASE UploadTaken
  <2>1. NextBase \in Nat /\ Total \in Nat
    BY <1>0, <1>23, SendAssumption, TotalIsNatural
       DEF UploadTaken, TypeOK, NextBase
  <2>2. Quiet
    BY <1>0, <1>23, <2>1, EventsTyped, EventsDiffer, EmitOther
       DEF UploadTaken, Quiet
  <2>3. wanted' \cap offered' \subseteq taken' \cup todo' \cup InHand'
    BY <1>0, <1>23 DEF UploadTaken, EarnedInv
  <2> QED
    BY <1>4, <1>7, <1>23, <2>2, <2>3 DEF UploadTaken
<1>24. CASE DropBody
  BY <1>1, <1>4, <1>6, <1>24 DEF DropBody
<1>25. CASE UNCHANGED <<sendVars, events>>
  <2>1. Quiet /\ UNCHANGED <<pc, todo, file, taken, wanted, offered>>
    BY <1>1, <1>25 DEF sendVars
  <2> QED
    BY <1>0, <1>3, <2>1 DEF Quiet, VerdictInv, EarnedInv
<1> QED
  BY <1>11, <1>12, <1>13, <1>14, <1>15, <1>16, <1>17, <1>18, <1>19, <1>20,
     <1>21, <1>22, <1>23, <1>24, <1>25
     DEF Next, SendNext, TaskStep, AnswerStep, UploadStep

LEMMA SendAlways == Spec => []SendInv
<1>1. Init => SendInv
  BY ShapeInit, VerdictInit DEF SendInv
<1>2. SendInv /\ [Next]_<<sendVars, events>> => SendInv'
  BY ShapeStep, VerdictStep DEF SendInv
<1> QED
  BY <1>1, <1>2, PTL DEF Spec

\* send_files speaks one verdict on every path through it, and ends with none
\* only if it had nothing to offer.
THEOREM VerdictOnce == Spec => []OneVerdict
<1>1. SendInv => OneVerdict
  BY EventsDiffer DEF SendInv, VerdictInv, VerdictsAt, OneVerdict, Emitted
<1> QED
  BY <1>1, SendAlways, PTL

\* "Successfully sent" is said only of a share whose every known file the
\* receiver confirmed, whatever identifiers it answered with.
THEOREM SuccessEarned == Spec => []SuccessIsEarned
<1>1. SendInv => SuccessIsEarned
  BY DEF SendInv, EarnedInv, SuccessIsEarned
<1> QED
  BY <1>1, SendAlways, PTL

-----------------------------------------------------------------------------
(* Progress.  The base is the sum of the sizes confirmed, and no file is     *)
(* taken up twice; so what is reported stays below the base and the place in *)
(* the file together, and these below the total.                             *)

OnceEach ==
  /\ pc \in {"next", "open", "upload"} => todo \cap taken = {}
  /\ pc \in {"open", "upload"} => file \notin todo
  /\ pc \in {"open", "upload"} \/ body # "none" => file \notin taken
  /\ base = Sum(FileSize, taken)

Level == base + (IF body = "none" THEN 0 ELSE position)

ReportsOrdered ==
  \A i, j \in Reports : i <= j => events[i].bytes <= events[j].bytes

ReportsInv ==
  /\ pc \in {"idle", "stat", "ask"} => Reports = {}
  /\ ~changed =>
       /\ body # "none" => position <= FileSize[file]
       /\ \A i \in Reports : events[i].bytes <= Total /\ events[i].total = Total
       /\ pc # "done" \/ body # "none" =>
            \A i \in Reports : events[i].bytes <= Level
       /\ ReportsOrdered

ProgressInv == ShapeInv /\ OnceEach /\ ReportsInv

LEMMA ProgressInit == Init => OnceEach /\ ReportsInv
BY SumOfNone
   DEF Init, SendInit, OnceEach, ReportsInv, Reports, ReportsOrdered

\* The file in hand fits into the total beside those that were confirmed.
LEMMA RoomLeft ==
  ASSUME ShapeInv, OnceEach, file # None, file \notin taken
  PROVE  /\ FileSize[file] \in Nat /\ Total \in Nat
         /\ base + FileSize[file] = Sum(FileSize, taken \cup {file})
         /\ base + FileSize[file] <= Total
<1> DEFINE S == taken \cup {file}
           W == wanted \cap offered
<1>1. TypeOK /\ S \subseteq W /\ file \in S
  BY DEF ShapeInv, TypeOK
<1>2. IsFiniteSet(S) /\ IsFiniteSet(W) /\ \A f \in W : FileSize[f] \in Nat
  BY <1>1, WantedFinite
<1>3. S \ {file} = taken
  OBVIOUS
<1> HIDE DEF S, W
<1>4. Sum(FileSize, S) = FileSize[file] + Sum(FileSize, S \ {file})
  BY <1>1, <1>2, SumWithout
<1>5. Sum(FileSize, S) <= Sum(FileSize, W)
  BY <1>1, <1>2, SumGrows
<1>6. FileSize[file] \in Nat /\ base \in Nat /\ base = Sum(FileSize, taken)
  BY <1>1, <1>2 DEF TypeOK, OnceEach
<1> QED
  BY <1>1, <1>3, <1>4, <1>5, <1>6, TotalIsSum, TotalIsNatural DEF S, W

LEMMA OnceEachStep ==
  ProgressInv /\ [Next]_<<sendVars, events>> => OnceEach'
<1> SUFFICES ASSUME ProgressInv, [Next]_<<sendVars, events>> PROVE OnceEach'
  OBVIOUS
<1> USE DEF Phases
<1>0. ShapeInv /\ Phases /\ TypeOK /\ OnceEach
  BY DEF ProgressInv, ShapeInv
<1>1. CASE UNCHANGED <<taken, base, file, body, pc>> /\ todo' \subseteq todo
  BY <1>0, <1>1 DEF OnceEach
<1>2. CASE /\ UNCHANGED <<taken, base>>
           /\ pc' \in {"done", "cancel", "stat", "ask"}
           /\ body' # "none" => body # "none" /\ file' = file
  BY <1>0, <1>2 DEF OnceEach
<1>3. CASE OpenFile
  BY <1>0, <1>3 DEF OpenFile, OnceEach
<1>4. ASSUME NEW id \in Files \cup Strangers, NextFile(id) PROVE OnceEach'
  BY <1>0, <1>4 DEF NextFile, Rest, Known, OnceEach
<1>5. ASSUME NEW ids \in SUBSET (offered \cup Strangers), AnsweredWith(ids)
      PROVE  OnceEach'
  BY <1>0, <1>5 DEF AnsweredWith, OnceEach
<1>6. ASSUME NEW n \in ChunkSizes, ReadChunk(n) PROVE OnceEach'
  BY <1>1, <1>6 DEF ReadChunk
<1>7. CASE EndOfFile
  BY <1>0, <1>7 DEF EndOfFile, OnceEach
<1>8. CASE UploadTaken
  <2>1. base + FileSize[file] = Sum(FileSize, taken \cup {file})
    BY <1>0, <1>8, RoomLeft DEF UploadTaken, OnceEach
  <2> QED
    BY <1>0, <1>8, <2>1 DEF UploadTaken, NextBase, OnceEach
<1>9. ASSUME NEW f \in Files, StatFile(f) PROVE OnceEach'
  BY <1>1, <1>9 DEF StatFile
<1> QED
  BY <1>1, <1>2, <1>3, <1>4, <1>5, <1>6, <1>7, <1>8, <1>9
     DEF Next, SendNext, TaskStep, AnswerStep, UploadStep, Begin, Offer,
         PostCancel, Finish, AnsweredWithout, UploadFails, DropBody, sendVars

\* An event that is no report leaves the reports as they are.
LEMMA EmitNoReport ==
  ASSUME events \in Seq(TaskEvent),
         NEW e \in Verdicts \cup {NoValidFiles}, Emit(e)
  PROVE  /\ Reports' = Reports
         /\ \A i \in Reports : events'[i] = events[i]
<1>1. e \in {NoValidFiles, AlreadyThere, NoneWanted, SentAll, Failed}
  BY EventsDiffer
<1>2. e \in TaskEvent
  BY <1>1, EventsTyped
<1>3. /\ NoValidFiles.type = "StatusMessage" /\ Failed.type = "TransferFailed"
      /\ AlreadyThere.type = "TransferCompleted"
      /\ NoneWanted.type = "TransferCompleted"
      /\ SentAll.type = "TransferCompleted"
  BY DEF NoValidFiles, AlreadyThere, NoneWanted, SentAll, Failed, FromTask,
         AppEvent
<1>4. e.type # "TransferProgress"
  BY <1>1, <1>3
<1> QED
  BY <1>2, <1>4, EmitAppends DEF Reports

LEMMA ReportsNatural ==
  ASSUME events \in Seq(TaskEvent) PROVE \A i \in Reports : events[i].bytes \in Nat
<1> SUFFICES ASSUME NEW i \in Reports PROVE events[i].bytes \in Nat
  OBVIOUS
<1>1. events[i] \in TaskEvent
  BY DEF Reports
<1> QED
  BY <1>1 DEF TaskEvent

LEMMA TotalKept ==
  ASSUME wanted' = wanted, offered' = offered PROVE Total' = Total
BY DEF Total, MapThenSumSet, MapThenFoldSet

\* A report at least as high as those before it goes at their end.
LEMMA EmitReport ==
  ASSUME events \in Seq(TaskEvent), NEW n \in Nat, NEW t \in Nat,
         Emit(Progress(n, t)),
         ReportsOrdered,
         \A i \in Reports : events[i].bytes <= n /\ events[i].total = t,
         n <= t
  PROVE  /\ \A i \in Reports' : /\ events'[i].bytes <= n
                                /\ events'[i].bytes <= t
                                /\ events'[i].total = t
         /\ ReportsOrdered'
<1> DEFINE k == Len(events) + 1
           e == Progress(n, t)
<1>1. e \in TaskEvent /\ e.bytes = n /\ e.total = t /\ e.type = "TransferProgress"
  BY EventsTyped DEF Progress, AppEvent
<1>2. /\ events' \in Seq(TaskEvent)
      /\ Reports' = Reports \cup {k}
      /\ events'[k] = e
      /\ \A i \in Reports : events'[i] = events[i] /\ i < k /\ i \in Nat
      /\ k \in Nat
  BY <1>1, EmitAppends DEF Reports
<1>3. \A i \in Reports : events[i].bytes \in Nat
  BY ReportsNatural
<1> HIDE DEF k, e
<1>4. \A i \in Reports' : /\ events'[i].bytes <= n
                          /\ events'[i].bytes <= t
                          /\ events'[i].total = t
  BY <1>1, <1>2, <1>3
<1>5. ASSUME NEW i \in Reports', NEW j \in Reports', i <= j
      PROVE  events'[i].bytes <= events'[j].bytes
  <2>1. CASE i \in Reports /\ j \in Reports
    BY <1>2, <1>5, <2>1 DEF ReportsOrdered
  <2>2. CASE j = k
    BY <1>1, <1>2, <1>4, <2>2
  <2>3. i \in Reports \/ i = k
    BY <1>2
  <2>4. i = k /\ j \in Reports => FALSE
    BY <1>2, <1>5
  <2> QED
    BY <1>2, <2>1, <2>2, <2>3, <2>4
<1> QED
  BY <1>4, <1>5 DEF ReportsOrdered

LEMMA ReportsStep ==
  ProgressInv /\ [Next]_<<sendVars, events>> => ReportsInv'
<1> SUFFICES ASSUME ProgressInv, [Next]_<<sendVars, events>>
             PROVE  ReportsInv'
  OBVIOUS
<1> USE DEF Phases
<1>0. /\ ShapeInv /\ Phases /\ TypeOK /\ OnceEach /\ ReportsInv
      /\ events \in Seq(TaskEvent)
  BY DEF ProgressInv, ShapeInv, TypeOK
\* A step that reports nothing.
<1> DEFINE Quiet == /\ Reports' = Reports
                    /\ \A i \in Reports : events'[i] = events[i]
<1>1. UNCHANGED events => Quiet
  BY DEF Reports
<1>2. ASSUME NEW e \in {NoValidFiles, AlreadyThere, NoneWanted, SentAll,
                        Failed}, Emit(e)
      PROVE  Quiet
  BY <1>0, <1>2, EventsDiffer, EmitNoReport
<1>3. ASSUME Quiet PROVE ReportsOrdered => ReportsOrdered'
  BY <1>3 DEF ReportsOrdered
<1> HIDE DEF Quiet
<1>4. ASSUME Quiet, UNCHANGED <<wanted, offered, base, changed>>,
             pc \in {"idle", "stat", "ask"} \/ pc' \notin {"idle", "stat", "ask"},
             pc' # "done" \/ body' # "none" =>
               /\ pc # "done" \/ body # "none"
               /\ Level' = Level
             , body' # "none" => body # "none" /\ UNCHANGED <<file, position>>
      PROVE  ReportsInv'
  <2>1. Total' = Total
    BY <1>4, TotalKept
  <2> QED
    BY <1>0, <1>3, <1>4, <2>1 DEF ReportsInv, Quiet
<1>5. ASSUME Reports' = {}, body' = "none"
      PROVE  ReportsInv'
  BY <1>5 DEF ReportsInv, ReportsOrdered
<1>11. CASE pc = "idle" /\ Begin
  BY <1>0, <1>1, <1>5, <1>11 DEF Begin, ReportsInv, Quiet
<1>12. ASSUME NEW f \in Files, StatFile(f) PROVE ReportsInv'
  BY <1>0, <1>1, <1>5, <1>12 DEF StatFile, ReportsInv, Quiet
<1>13. CASE Offer
  BY <1>0, <1>1, <1>2, <1>5, <1>13 DEF Offer, ReportsInv, Quiet
<1>14. ASSUME NEW id \in Files \cup Strangers, NextFile(id) PROVE ReportsInv'
  <2>1. body = "none" /\ body' = "none" /\ pc = "next" /\ pc' \in {"next", "open"}
    BY <1>0, <1>14 DEF NextFile
  <2> QED
    BY <1>1, <1>4, <1>14, <2>1 DEF NextFile, Level
<1>15. CASE OpenFile
  <2>0. body = "none" /\ pc = "open"
    BY <1>0, <1>15 DEF OpenFile
  <2>1. CASE UNCHANGED events /\ pc' = "upload" /\ body' = "open" /\ position' = 0
    <3>1. UNCHANGED <<wanted, offered, base, changed, file>>
      BY <1>15 DEF OpenFile
    <3>2. Level' = Level /\ Total' = Total
      BY <1>0, <2>0, <2>1, <3>1, TotalKept DEF Level, TypeOK
    <3>3. 0 <= FileSize[file']
      BY <1>0, <2>0, <3>1, RoomLeft DEF OnceEach
    <3> QED
      BY <1>0, <1>1, <1>3, <2>0, <2>1, <3>1, <3>2, <3>3 DEF ReportsInv, Quiet
  <2>2. CASE Emit(Failed) /\ pc' = "cancel" /\ UNCHANGED <<body, position>>
    BY <1>2, <1>4, <1>15, <2>0, <2>2 DEF OpenFile, Level
  <2> QED
    BY <1>15, <2>1, <2>2 DEF OpenFile
<1>16. CASE PostCancel
  BY <1>0, <1>1, <1>4, <1>16 DEF PostCancel
<1>17. CASE Finish
  BY <1>0, <1>2, <1>4, <1>17 DEF Finish
<1>18. CASE AnsweredWithout
  BY <1>0, <1>2, <1>4, <1>18 DEF AnsweredWithout
<1>19. ASSUME NEW ids \in SUBSET (offered \cup Strangers), AnsweredWith(ids)
       PROVE  ReportsInv'
  BY <1>0, <1>1, <1>2, <1>5, <1>19 DEF AnsweredWith, ReportsInv, Quiet
<1>20. ASSUME NEW n \in ChunkSizes, ReadChunk(n) PROVE ReportsInv'
  <2>1. pc' = pc /\ pc \in {"upload", "done"} /\ body = "open" /\ body' = "open"
    BY <1>0, <1>20 DEF ReadChunk
  <2> SUFFICES ASSUME ~changed' PROVE ReportsInv'
    BY <2>1 DEF ReportsInv
  <2>2. ~changed /\ ~(position + n > FileSize[file])
    BY <1>20, Zenon DEF ReadChunk
  <2>3. /\ FileSize[file] \in Nat /\ Total \in Nat
        /\ base + FileSize[file] <= Total
    BY <1>0, <2>1, RoomLeft DEF OnceEach
  <2> DEFINE m == base + position + n
  <2>4. /\ base \in Nat /\ position \in Nat /\ n \in Nat
        /\ position + n <= FileSize[file] /\ m \in Nat /\ m <= Total
    BY <1>0, <2>2, <2>3, SendAssumption DEF TypeOK
  <2>5. Emit(Progress(m, Total))
    BY <1>20 DEF ReadChunk
  <2>6. \A i \in Reports : events[i].bytes \in Nat
    BY <1>0, ReportsNatural
  <2>7. \A i \in Reports : events[i].bytes <= m /\ events[i].total = Total
    BY <1>0, <2>1, <2>2, <2>4, <2>6 DEF ReportsInv, Level
  <2>8. ReportsOrdered
    BY <1>0, <2>2 DEF ReportsInv
  <2>9. Total' = Total
    BY <1>20, TotalKept DEF ReadChunk
  <2>10. Level' = m
    BY <1>20, <2>1, <2>4 DEF ReadChunk, Level
  <2>11. position' <= FileSize[file']
    BY <1>20, <2>4 DEF ReadChunk
  <2> HIDE DEF m
  <2>12. /\ \A i \in Reports' : /\ events'[i].bytes <= m
                                /\ events'[i].bytes <= Total
                                /\ events'[i].total = Total
         /\ ReportsOrdered'
    BY <1>0, <2>3, <2>4, <2>5, <2>7, <2>8, EmitReport
  <2> QED
    BY <2>1, <2>9, <2>10, <2>11, <2>12 DEF ReportsInv
<1>21. CASE EndOfFile
  <2>1. /\ UNCHANGED <<pc, wanted, offered, base, file, position, events>>
        /\ ~changed' => ~changed
        /\ body # "none" /\ body' # "none"
    BY <1>0, <1>21 DEF EndOfFile
  <2>2. Level' = Level /\ Total' = Total
    BY <2>1, TotalKept DEF Level
  <2> QED
    BY <1>0, <1>1, <1>3, <2>1, <2>2 DEF ReportsInv, Quiet
<1>22. CASE UploadFails
  <2>1. pc = "upload" /\ pc' = "done"
        /\ UNCHANGED <<wanted, offered, base, changed, body, file, position>>
        /\ Level' = Level
    BY <1>22 DEF UploadFails, Level
  <2> QED
    BY <1>2, <1>4, <1>22, <2>1 DEF UploadFails
<1>23. CASE UploadTaken
  <2>1. /\ pc' = "next" /\ pc = "upload" /\ body = "ended" /\ body' = "none"
        /\ base' = NextBase
        /\ UNCHANGED <<wanted, offered, changed, file>>
    BY <1>23 DEF UploadTaken
  <2> SUFFICES ASSUME ~changed PROVE ReportsInv'
    BY <2>1 DEF ReportsInv
  <2>2. /\ FileSize[file] \in Nat /\ Total \in Nat
        /\ NextBase <= Total
    BY <1>0, <2>1, RoomLeft DEF OnceEach, NextBase
  <2>3. base \in Nat /\ position \in Nat /\ NextBase \in Nat
    BY <1>0, <2>2 DEF TypeOK, NextBase
  <2>4. Emit(Progress(NextBase, Total))
    BY <1>23 DEF UploadTaken
  <2>5. \A i \in Reports : events[i].bytes \in Nat
    BY <1>0, ReportsNatural
  <2>6. \A i \in Reports : events[i].bytes <= NextBase /\ events[i].total = Total
    BY <1>0, <2>1, <2>2, <2>3, <2>5 DEF ReportsInv, Level, NextBase
  <2>7. ReportsOrdered
    BY <1>0 DEF ReportsInv
  <2>8. /\ \A i \in Reports' : /\ events'[i].bytes <= NextBase
                               /\ events'[i].bytes <= Total
                               /\ events'[i].total = Total
        /\ ReportsOrdered'
    BY <1>0, <2>2, <2>3, <2>4, <2>6, <2>7, EmitReport
  <2>9. Total' = Total
    BY <2>1, TotalKept
  <2>10. Level' = NextBase
    BY <2>1, <2>3 DEF Level
  <2> QED
    BY <2>1, <2>8, <2>9, <2>10 DEF ReportsInv
<1>24. CASE DropBody
  BY <1>0, <1>1, <1>4, <1>24 DEF DropBody
<1>25. CASE UNCHANGED <<sendVars, events>>
  BY <1>1, <1>4, <1>25 DEF sendVars, Level
<1> QED
  BY <1>11, <1>12, <1>13, <1>14, <1>15, <1>16, <1>17, <1>18, <1>19, <1>20,
     <1>21, <1>22, <1>23, <1>24, <1>25
     DEF Next, SendNext, TaskStep, AnswerStep, UploadStep

LEMMA ProgressAlways == Spec => []ProgressInv
<1>1. Init => ProgressInv
  BY ShapeInit, ProgressInit DEF ProgressInv
<1>2. ProgressInv /\ [Next]_<<sendVars, events>> => ProgressInv'
  BY ShapeStep, OnceEachStep, ReportsStep DEF ProgressInv
<1> QED
  BY <1>1, <1>2, PTL DEF Spec

\* While files keep the length their metadata gave, progress never goes back
\* and never passes the total: cumulative_bytes_sent and the closure's own
\* count of the file in hand add up, even in a report that comes late.
THEOREM ProgressNeverGoesBack == Spec => []ProgressAdvances
<1>1. ProgressInv => ProgressAdvances
  <2> SUFFICES ASSUME ProgressInv, ~changed,
                      NEW i \in Reports, NEW j \in Reports, i <= j
               PROVE  /\ events[i].bytes <= events[j].bytes
                      /\ events[j].bytes <= events[j].total
    BY DEF ProgressAdvances
  <2> QED
    BY DEF ProgressInv, ReportsInv, ReportsOrdered
<1> QED
  BY <1>1, ProgressAlways, PTL
=============================================================================
