-------------------------- MODULE OfferedFilesProofs --------------------------
(***************************************************************************)
(* Theorems about OfferedFiles, for any bodies of a request.               *)
(***************************************************************************)
EXTENDS OfferedFiles, FiniteSetTheorems, WellFoundedInduction, TLAPS

-----------------------------------------------------------------------------
(* The size of several files together, in the way of the sums of           *)
(* SendFilesProofs.                                                        *)

\* The sizes of the files R[x], x in S, as the model adds them up.
Total(R, S) == MapThenSumSet(LAMBDA x : R[x].size, S)

Pick(S) == CHOOSE x \in S : TRUE

\* g is the function by which MapThenFoldSet comes to the total of S.
Sums(R, g, S) ==
  g = [s \in SUBSET S |-> IF s = {} THEN 0
                          ELSE R[Pick(s)].size + g[s \ {Pick(s)}]]

LEMMA TotalIsChosen ==
  ASSUME NEW R, NEW S
  PROVE  Total(R, S) = (CHOOSE g : Sums(R, g, S))[S]
BY DEF Total, MapThenSumSet, MapThenFoldSet, Sums, Pick

LEMMA PickIn == ASSUME NEW S, S # {} PROVE Pick(S) \in S
BY DEF Pick

LEMMA SumsAt ==
  ASSUME NEW R, NEW S, NEW g, Sums(R, g, S), NEW s \in SUBSET S
  PROVE  g[s] = IF s = {} THEN 0 ELSE R[Pick(s)].size + g[s \ {Pick(s)}]
BY DEF Sums

\* Induction over the subsets of a finite set, in the form of a smallest
\* member: a set of subsets that is not empty has one.
LEMMA SmallestSubset ==
  ASSUME NEW S, IsFiniteSet(S), NEW T, T \subseteq SUBSET S, T # {}
  PROVE  \E s \in T : \A t \in T : t \subseteq s => t = s
<1>1. IsWellFoundedOn(StrictSubsetOrdering(S), SUBSET S)
  BY FS_StrictSubsetOrderingWellFounded, FS_FiniteSubsetsOfFinite
<1>2. PICK s \in T : \A t \in T : <<t, s>> \notin StrictSubsetOrdering(S)
  BY <1>1, WFMin
<1> QED
  BY <1>2 DEF StrictSubsetOrdering

LEMMA SumsAgree ==
  ASSUME NEW R, NEW S, NEW g, Sums(R, g, S), IsFiniteSet(S),
         NEW T \in SUBSET S, NEW h, Sums(R, h, T)
  PROVE  \A s \in SUBSET T : g[s] = h[s]
<1> DEFINE Bad == {s \in SUBSET T : g[s] # h[s]}
<1> SUFFICES ASSUME Bad # {} PROVE FALSE
  OBVIOUS
<1>1. IsFiniteSet(T) /\ Bad \subseteq SUBSET T
  BY FS_Subset
<1> HIDE DEF Bad
<1>2. PICK s \in Bad : \A t \in Bad : t \subseteq s => t = s
  BY <1>1, SmallestSubset
<1> USE DEF Bad
<1>3. g[s] = IF s = {} THEN 0 ELSE R[Pick(s)].size + g[s \ {Pick(s)}]
  <2>1. s \in SUBSET S
    OBVIOUS
  <2> HIDE DEF Bad
  <2> QED
    BY <2>1, SumsAt
<1>4. h[s] = IF s = {} THEN 0 ELSE R[Pick(s)].size + h[s \ {Pick(s)}]
  BY SumsAt
<1>5. CASE s = {}
  BY <1>3, <1>4, <1>5
<1>6. CASE s # {}
  <2>1. s \ {Pick(s)} \notin Bad
    BY <1>2, <1>6, PickIn
  <2> QED
    BY <1>2, <1>3, <1>4, <2>1
<1> QED
  BY <1>5, <1>6

LEMMA SumsExist ==
  ASSUME NEW R, NEW S, IsFiniteSet(S)
  PROVE  \E g : Sums(R, g, S)
<1> DEFINE Bad == {s \in SUBSET S : ~ \E g : Sums(R, g, s)}
<1> SUFFICES ASSUME Bad # {} PROVE FALSE
  OBVIOUS
<1>1. PICK s \in Bad : \A t \in Bad : t \subseteq s => t = s
  <2>1. Bad \subseteq SUBSET S
    OBVIOUS
  <2> HIDE DEF Bad
  <2> QED
    BY <2>1, SmallestSubset
<1> DEFINE Of(t) == CHOOSE g : Sums(R, g, t)
           G == [t \in SUBSET s |-> IF t = {} THEN 0
                                    ELSE R[Pick(t)].size + Of(t \ {Pick(t)})[t \ {Pick(t)}]]
<1>2. ASSUME NEW t \in SUBSET s, t # s
      PROVE  Sums(R, Of(t), t)
  <2>1. \E g : Sums(R, g, t)
    BY <1>1, <1>2
  <2> QED
    BY <2>1
<1> HIDE DEF Of
<1>3. ASSUME NEW t \in SUBSET s, t # s
      PROVE  G[t] = Of(t)[t]
  <2>1. Of(t)[t] = IF t = {} THEN 0 ELSE R[Pick(t)].size + Of(t)[t \ {Pick(t)}]
    BY <1>2, <1>3, SumsAt
  <2>2. CASE t = {}
    BY <2>1, <2>2
  <2>3. CASE t # {}
    <3> DEFINE r == t \ {Pick(t)}
    <3>1. r \in SUBSET t /\ r # s
      BY <1>3, <2>3, PickIn
    <3>2. Sums(R, Of(r), r) /\ Sums(R, Of(t), t)
      BY <1>2, <1>3, <3>1
    <3>3. IsFiniteSet(t)
      BY FS_Subset
    <3> HIDE DEF r
    <3>4. Of(t)[r] = Of(r)[r]
      BY <3>1, <3>2, <3>3, SumsAgree
    <3> USE DEF r
    <3> QED
      BY <2>1, <2>3, <3>4
  <2> QED
    BY <2>2, <2>3
<1>4. ASSUME NEW t \in SUBSET s
      PROVE  G[t] = IF t = {} THEN 0 ELSE R[Pick(t)].size + G[t \ {Pick(t)}]
  <2>1. CASE t = {}
    BY <2>1
  <2>2. CASE t # {}
    <3> DEFINE r == t \ {Pick(t)}
    <3>1. r \in SUBSET s /\ r # s
      BY <2>2, PickIn
    <3>2. G[r] = Of(r)[r]
      BY <1>3, <3>1
    <3> QED
      BY <2>2, <3>2
  <2> QED
    BY <2>1, <2>2
<1>5. Sums(R, G, s)
  <2>1. G = [t \in SUBSET s |-> G[t]]
    OBVIOUS
  <2> HIDE DEF G
  <2> QED
    BY <1>4, <2>1 DEF Sums
<1> QED
  BY <1>1, <1>5

LEMMA TotalUnfolds ==
  ASSUME NEW R, NEW S, IsFiniteSet(S)
  PROVE  Total(R, S) = IF S = {} THEN 0 ELSE R[Pick(S)].size + Total(R, S \ {Pick(S)})
<1> DEFINE g == CHOOSE g : Sums(R, g, S)
           r == S \ {Pick(S)}
           h == CHOOSE h : Sums(R, h, r)
<1>1. Total(R, S) = g[S] /\ Total(R, r) = h[r]
  BY TotalIsChosen
<1>2. IsFiniteSet(r) /\ r \in SUBSET S
  BY FS_Subset
<1>3. Sums(R, g, S) /\ Sums(R, h, r)
  <2>1. (\E x : Sums(R, x, S)) /\ (\E x : Sums(R, x, r))
    <3> HIDE DEF r
    <3> QED
      BY <1>2, SumsExist
  <2> QED
    BY <2>1
<1> HIDE DEF g, h, r
<1>4. g[r] = h[r]
  BY <1>2, <1>3, SumsAgree
<1>5. g[S] = IF S = {} THEN 0 ELSE R[Pick(S)].size + g[r]
  <2>1. S \in SUBSET S
    OBVIOUS
  <2>2. g[S] = IF S = {} THEN 0 ELSE R[Pick(S)].size + g[S \ {Pick(S)}]
    <3>1. Sums(R, g, S)
      BY <1>3
    <3> QED
      BY <2>1, <3>1, Zenon DEF Sums
  <2> QED
    BY <2>2, Zenon DEF r
<1> QED
  BY <1>1, <1>4, <1>5 DEF r

LEMMA TotalOfNone == ASSUME NEW R PROVE Total(R, {}) = 0
BY TotalUnfolds, FS_EmptySet

LEMMA TotalIsNatural ==
  ASSUME NEW R, NEW S, IsFiniteSet(S), \A x \in S : R[x].size \in Nat
  PROVE  Total(R, S) \in Nat
<1> DEFINE Bad == {s \in SUBSET S : Total(R, s) \notin Nat}
<1> SUFFICES ASSUME Bad # {} PROVE FALSE
  OBVIOUS
<1>1. PICK s \in Bad : \A t \in Bad : t \subseteq s => t = s
  <2>1. Bad \subseteq SUBSET S
    OBVIOUS
  <2> HIDE DEF Bad
  <2> QED
    BY <2>1, SmallestSubset
<1>2. IsFiniteSet(s)
  BY FS_Subset
<1>3. Total(R, s) = IF s = {} THEN 0 ELSE R[Pick(s)].size + Total(R, s \ {Pick(s)})
  BY <1>2, TotalUnfolds
<1>4. s # {} => s \ {Pick(s)} \notin Bad /\ Pick(s) \in S
  BY <1>1, PickIn
<1> QED
  BY <1>3, <1>4

\* Whatever order the terms are taken in, one of them can be set apart.
LEMMA TotalWithout ==
  ASSUME NEW R, NEW S, IsFiniteSet(S), \A x \in S : R[x].size \in Nat,
         NEW x \in S
  PROVE  Total(R, S) = R[x].size + Total(R, S \ {x})
<1> DEFINE Bad == {s \in SUBSET S : \E y \in s : Total(R, s) # R[y].size + Total(R, s \ {y})}
<1> SUFFICES ASSUME Bad # {} PROVE FALSE
  OBVIOUS
<1>1. PICK s \in Bad : \A t \in Bad : t \subseteq s => t = s
  <2>1. Bad \subseteq SUBSET S
    OBVIOUS
  <2> HIDE DEF Bad
  <2> QED
    BY <2>1, SmallestSubset
<1>2. PICK y \in s : Total(R, s) # R[y].size + Total(R, s \ {y})
  OBVIOUS
<1> DEFINE p == Pick(s)
<1>3. p \in s
  BY PickIn
<1>4. \A t \in SUBSET S : IsFiniteSet(t) /\ Total(R, t) \in Nat
  BY FS_Subset, TotalIsNatural
<1>5. Total(R, s) = R[p].size + Total(R, s \ {p})
  BY <1>4, TotalUnfolds
<1>6. y # p
  BY <1>2, <1>5
<1>12. Total(R, s) # R[y].size + Total(R, s \ {y})
  BY <1>2
<1> HIDE DEF p
<1>7. s \ {p} \notin Bad /\ s \ {y} \notin Bad
  BY <1>1, <1>3
<1>8. Total(R, s \ {p}) = R[y].size + Total(R, (s \ {p}) \ {y})
  BY <1>6, <1>7
<1>9. Total(R, s \ {y}) = R[p].size + Total(R, (s \ {y}) \ {p})
  BY <1>3, <1>6, <1>7
<1>10. (s \ {y}) \ {p} = (s \ {p}) \ {y}
  OBVIOUS
<1>11. R[y].size \in Nat /\ R[p].size \in Nat /\ Total(R, (s \ {p}) \ {y}) \in Nat
  BY <1>3, <1>4
<1> HIDE DEF Bad
<1> DEFINE a == R[y].size
           b == R[p].size
           rest == Total(R, (s \ {p}) \ {y})
<1>13. /\ Total(R, s) = b + (a + rest) /\ Total(R, s \ {y}) = b + rest
       /\ Total(R, s) # a + Total(R, s \ {y})
       /\ a \in Nat /\ b \in Nat /\ rest \in Nat
  BY <1>5, <1>8, <1>9, <1>10, <1>11, <1>12, Zenon
<1> HIDE DEF a, b, rest
<1> QED
  BY <1>13

LEMMA TotalGrows ==
  ASSUME NEW R, NEW S, IsFiniteSet(S), \A x \in S : R[x].size \in Nat,
         NEW T \in SUBSET S
  PROVE  Total(R, T) <= Total(R, S)
<1> DEFINE Bad == {s \in SUBSET S : T \subseteq s /\ ~(Total(R, T) <= Total(R, s))}
<1> SUFFICES ASSUME Bad # {} PROVE FALSE
  OBVIOUS
<1>1. PICK s \in Bad : \A t \in Bad : t \subseteq s => t = s
  <2>1. Bad \subseteq SUBSET S
    OBVIOUS
  <2> HIDE DEF Bad
  <2> QED
    BY <2>1, SmallestSubset
<1>2. \A t \in SUBSET S : IsFiniteSet(t) /\ Total(R, t) \in Nat
  BY FS_Subset, TotalIsNatural
<1>3. CASE s = T
  BY <1>2, <1>3
<1>4. CASE s # T
  <2>1. PICK x \in s : x \notin T
    BY <1>4
  <2>2. s \ {x} \notin Bad /\ T \subseteq s \ {x}
    BY <1>1, <2>1
  <2>3. Total(R, s) = R[x].size + Total(R, s \ {x})
    BY <1>2, TotalWithout
  <2>4. R[x].size \in Nat /\ Total(R, s \ {x}) \in Nat /\ Total(R, T) \in Nat
    BY <1>2
  <2> QED
    BY <2>2, <2>3, <2>4
<1> QED
  BY <1>3, <1>4

\* If every file of S is one of D of its own, S is no larger than D.
LEMMA TotalWithin ==
  ASSUME NEW R, NEW S, IsFiniteSet(S), \A x \in S : R[x].size \in Nat,
         NEW Q, NEW D, IsFiniteSet(D), \A y \in D : Q[y].size \in Nat,
         NEW t, \A x \in S : t[x] \in D /\ Q[t[x]].size = R[x].size,
         \A x, y \in S : t[x] = t[y] => x = y
  PROVE  Total(R, S) <= Total(Q, D)
<1> DEFINE Image(s) == {t[x] : x \in s}
           Bad == {s \in SUBSET S : Total(R, s) # Total(Q, Image(s))}
<1>1. \A s \in SUBSET S : IsFiniteSet(s) /\ Total(R, s) \in Nat
  BY FS_Subset, TotalIsNatural
<1>2. \A e \in SUBSET D : IsFiniteSet(e) /\ Total(Q, e) \in Nat
  BY FS_Subset, TotalIsNatural
<1>3. Bad = {}
  <2> SUFFICES ASSUME Bad # {} PROVE FALSE
    OBVIOUS
  <2>1. PICK s \in Bad : \A r \in Bad : r \subseteq s => r = s
    <3>1. Bad \subseteq SUBSET S
      OBVIOUS
    <3> HIDE DEF Bad
    <3> QED
      BY <3>1, SmallestSubset
  <2>2. s # {}
    <3>1. Image({}) = {}
      OBVIOUS
    <3>2. Total(R, {}) = Total(Q, {})
      BY TotalOfNone
    <3> QED
      BY <3>1, <3>2
  <2> DEFINE p == Pick(s)
             r == s \ {p}
  <2>3. p \in s /\ r \in SUBSET S /\ Image(s) \in SUBSET D
    BY <2>2, PickIn
  <2>4. Total(R, r) = Total(Q, Image(r))
    BY <2>1, <2>3
  <2>5. t[p] \in Image(s) /\ Image(r) = Image(s) \ {t[p]}
    <3>1. \A x \in s : t[x] = t[p] <=> x = p
      BY <2>3
    <3> HIDE DEF p
    <3> QED
      BY <2>3, <3>1
  <2>6. Total(R, s) = R[p].size + Total(R, r)
    BY <1>1, <2>3, TotalUnfolds
  <2>7. Total(Q, Image(s)) = Q[t[p]].size + Total(Q, Image(s) \ {t[p]})
    <3>1. IsFiniteSet(Image(s)) /\ \A y \in Image(s) : Q[y].size \in Nat
      BY <1>2, <2>3
    <3> HIDE DEF Image, p
    <3> QED
      BY <2>5, <3>1, TotalWithout
  <2> QED
    BY <2>1, <2>3, <2>4, <2>5, <2>6, <2>7
<1>4. Total(R, S) = Total(Q, Image(S))
  BY <1>3
<1>5. Image(S) \in SUBSET D
  OBVIOUS
<1>6. Total(Q, Image(S)) <= Total(Q, D)
  <2> HIDE DEF Image
  <2> QED
    BY <1>5, TotalGrows
<1> QED
  BY <1>4, <1>6

-----------------------------------------------------------------------------
(* Names.                                                                  *)

LEMMA MaxIn ==
  ASSUME NEW n \in Nat, NEW S \in SUBSET (1 .. n), S # {}
  PROVE  Max(S) \in S
<1> DEFINE T == {n - x : x \in S}
<1>1. T \subseteq Nat /\ T # {}
  <2>1. \A x \in S : n - x \in Nat
    OBVIOUS
  <2> QED
    BY <2>1, Zenon
<1>2. PICK m \in T : \A k \in T : <<k, m>> \notin OpToRel(<, Nat)
  <2> HIDE DEF T
  <2> QED
    BY <1>1, NatLessThanWellFounded, WFMin
<1>3. \A k \in T : ~(k < m)
  BY <1>1, <1>2 DEF OpToRel
<1>4. PICK x \in S : m = n - x
  BY <1>2
<1>5. \A y \in S : x >= y
  <2> SUFFICES ASSUME NEW y \in S PROVE x >= y
    OBVIOUS
  <2>1. ~(n - y < n - x)
    BY <1>3, <1>4
  <2> QED
    BY <2>1
<1> QED
  BY <1>4, <1>5, Zenon DEF Max

\* What counts as a name's last part is neither empty nor "."; ".." is seen to.
LEMMA SafeName ==
  ASSUME NEW name,
         name = Absent \/ (Len(name) \in Nat /\ DOMAIN name = 1 .. Len(name))
  PROVE  SafeFileName(name) \notin {"", ".", ".."}
<1> DEFINE parts == IF name = Absent THEN {}
                    ELSE {i \in DOMAIN name : name[i] \notin {"", "."}}
<1>1. parts # {} => Max(parts) \in parts
  <2>1. parts # {} => Len(name) \in Nat /\ parts \in SUBSET (1 .. Len(name))
    BY Zenon
  <2> HIDE DEF parts
  <2> QED
    BY <2>1, MaxIn
<1>2. parts # {} => name[Max(parts)] \notin {"", "."}
  BY <1>1, Zenon
<1>3. SafeFileName(name) = IF parts = {} \/ name[Max(parts)] = ".."
                           THEN "received_file" ELSE name[Max(parts)]
  BY Zenon DEF SafeFileName
<1>4. "received_file" \notin {"", ".", ".."}
  BY Zenon
<1> HIDE DEF parts
<1> QED
  BY <1>2, <1>3, <1>4, Zenon

-----------------------------------------------------------------------------
(* What the session holds is what was told.                                *)

Offered == {FileAt(i) : i \in Nat}

\* Each file of the session is the entry that its token was drawn at.
OfferInv ==
  /\ body \in Bodies /\ at \in Nat \ {0}
  /\ dtos \in Seq(Offered) /\ Len(dtos) = at - 1
  /\ \A i \in 1 .. Len(dtos) : i \in DOMAIN body.entries /\ dtos[i] = FileAt(i)
  /\ DOMAIN tokens = DOMAIN files /\ IsFiniteSet(DOMAIN files)
  /\ \A id \in DOMAIN files :
       /\ tokens[id] \in 1 .. Len(dtos) /\ FileId(tokens[id]) = id
       /\ files[id] = FileAt(tokens[id])

ToldInv ==
  place \in {"shown", "accepted", "closed"} =>
    told = Text(Len(dtos), Sizes % Limit, FirstNames, More)

LEMMA SizeNatural == \A i : FileAt(i).size \in Nat
BY OfferedAssumption DEF FileAt, Size

LEMMA OfferInit == Init => OfferInv /\ ToldInv
<1> SUFFICES ASSUME Init PROVE OfferInv /\ ToldInv
  OBVIOUS
<1>1. DOMAIN files = {} /\ DOMAIN tokens = {} /\ Len(dtos) = 0 /\ dtos = << >>
  BY DEF Init
<1> QED
  BY <1>1, FS_EmptySet DEF Init, OfferInv, ToldInv

LEMMA TakeEntryKeeps ==
  ASSUME OfferInv, TakeEntry PROVE OfferInv'
<1>1. /\ at \in Nat \ {0} /\ at <= Len(body.entries) /\ body \in Bodies
      /\ tokens' = Insert(tokens, FileId(at), at)
      /\ files' = Insert(files, FileId(at), FileAt(at))
      /\ dtos' = Append(dtos, FileAt(at))
      /\ at' = at + 1 /\ body' = body
  BY DEF OfferInv, TakeEntry, SessionKey, Listed
<1>2. at \in DOMAIN body.entries
  BY <1>1, OfferedAssumption
<1>3. (\A i : FileAt(i)' = FileAt(i) /\ FileId(i)' = FileId(i)) /\ Offered' = Offered
  <2>1. \A i : FileId(i)' = FileId(i)
    BY <1>1 DEF FileId
  <2>2. \A i : FileAt(i)' = FileAt(i)
    BY <1>1, <2>1 DEF FileAt
  <2> QED
    BY <2>1, <2>2 DEF Offered
<1>4. /\ dtos' \in Seq(Offered) /\ Len(dtos') = at
      /\ dtos'[at] = FileAt(at)
      /\ \A i \in 1 .. Len(dtos) : dtos'[i] = dtos[i]
  <2>1. FileAt(at) \in Offered
    BY <1>1 DEF Offered
  <2>2. dtos \in Seq(Offered) /\ Len(dtos) = at - 1
    BY DEF OfferInv
  <2> QED
    BY <1>1, <2>1, <2>2
<1>5. \A i \in 1 .. Len(dtos') : i \in DOMAIN body.entries /\ dtos'[i] = FileAt(i)
  BY <1>1, <1>2, <1>4 DEF OfferInv
<1>6. /\ DOMAIN tokens' = DOMAIN files'
      /\ DOMAIN files' = DOMAIN files \cup {FileId(at)}
      /\ tokens'[FileId(at)] = at /\ files'[FileId(at)] = FileAt(at)
      /\ \A id \in DOMAIN files \ {FileId(at)} :
           tokens'[id] = tokens[id] /\ files'[id] = files[id]
  BY <1>1 DEF Insert, OfferInv
<1>7. IsFiniteSet(DOMAIN files')
  BY <1>6, FS_AddElement DEF OfferInv
<1>8. ASSUME NEW id \in DOMAIN files'
      PROVE  /\ tokens'[id] \in 1 .. Len(dtos') /\ FileId(tokens'[id]) = id
             /\ files'[id] = FileAt(tokens'[id])
  <2>1. CASE id = FileId(at)
    BY <1>1, <1>4, <1>6, <2>1
  <2>2. CASE id # FileId(at)
    <3>1. id \in DOMAIN files
      BY <1>6, <2>2
    <3>2. /\ tokens[id] \in 1 .. Len(dtos) /\ FileId(tokens[id]) = id
          /\ files[id] = FileAt(tokens[id]) /\ Len(dtos) = at - 1
      BY <3>1 DEF OfferInv
    <3>3. tokens'[id] = tokens[id] /\ files'[id] = files[id]
      BY <1>6, <2>2, <3>1
    <3> QED
      BY <1>1, <1>4, <3>2, <3>3
  <2> QED
    BY <2>1, <2>2
<1> QED
  BY <1>1, <1>3, <1>4, <1>5, <1>6, <1>7, <1>8 DEF OfferInv

LEMMA OfferStep ==
  OfferInv /\ ToldInv /\ [Next]_vars => OfferInv' /\ ToldInv'
<1> SUFFICES ASSUME OfferInv, ToldInv, [Next]_vars
             PROVE  OfferInv' /\ ToldInv'
  OBVIOUS
<1>1. CASE TakeEntry
  BY <1>1, TakeEntryKeeps DEF ToldInv, TakeEntry
<1>2. CASE UNCHANGED <<body, at, dtos, files, tokens>>
  <2>1. \A i : FileId(i)' = FileId(i)
    BY <1>2 DEF FileId
  <2>2. \A i : FileAt(i)' = FileAt(i)
    BY <1>2, <2>1 DEF FileAt
  <2>3. Offered' = Offered
    BY <2>2 DEF Offered
  <2>4. OfferInv'
    BY <1>2, <2>1, <2>2, <2>3 DEF OfferInv
  <2>5. Sizes' = Sizes /\ FirstNames' = FirstNames /\ More' = More
    BY <1>2 DEF Sizes, MapThenSumSet, MapThenFoldSet, FirstNames, More
  <2>6. ToldInv'
    BY <2>5 DEF ToldInv, Next, AskUser, ShowRequest, Decide, Upload, TakeEntry,
                vars
  <2> QED
    BY <2>4, <2>6
<1> QED
  BY <1>1, <1>2 DEF Next, AskUser, ShowRequest, Decide, Upload, vars

LEMMA OfferAlways == Spec => [](OfferInv /\ ToldInv)
BY OfferInit, OfferStep, PTL DEF Spec

\* Whatever names a request gives its files, the session knows each by one
\* that stays inside the directory.
THEOREM NamesAreSafe == Spec => []NamesStayInside
<1>1. OfferInv => NamesStayInside
  <2> SUFFICES ASSUME OfferInv, NEW id \in DOMAIN files
               PROVE  files[id].name \notin {"", ".", ".."}
    BY Zenon DEF NamesStayInside
  <2> DEFINE i == tokens[id]
  <2>1. i \in DOMAIN body.entries /\ files[id] = FileAt(i) /\ body \in Bodies
    BY DEF OfferInv
  <2>2. \/ body.entries[i].name = Absent
        \/ /\ Len(body.entries[i].name) \in Nat
           /\ DOMAIN body.entries[i].name = 1 .. Len(body.entries[i].name)
    BY <2>1, OfferedAssumption
  <2>3. files[id].name = SafeFileName(body.entries[i].name)
    BY <2>1 DEF FileAt
  <2> QED
    BY <2>2, <2>3, SafeName, Zenon
<1> QED
  BY <1>1, OfferAlways, PTL

\* Files of the session are files of the list, each one of its own.
LEMMA ListedFiles ==
  ASSUME OfferInv
  PROVE  /\ DOMAIN dtos = 1 .. Len(dtos) /\ Len(dtos) \in Nat
         /\ \A id \in DOMAIN files :
              tokens[id] \in 1 .. Len(dtos) /\ dtos[tokens[id]] = files[id]
         /\ \A x, y \in DOMAIN files : tokens[x] = tokens[y] => x = y
<1>1. DOMAIN dtos = 1 .. Len(dtos) /\ Len(dtos) \in Nat
  BY DEF OfferInv
<1>2. \A id \in DOMAIN files :
        /\ tokens[id] \in 1 .. Len(dtos)
        /\ dtos[tokens[id]] = files[id] /\ FileId(tokens[id]) = id
  BY DEF OfferInv
<1> QED
  BY <1>1, <1>2

\* A set of files of the session is no larger than where they are listed.
LEMMA NoMoreThanListed ==
  ASSUME OfferInv, NEW S \in SUBSET DOMAIN files, NEW from \in Nat,
         \A id \in S : tokens[id] > from
  PROVE  Cardinality(S) <= IF Len(dtos) > from THEN Len(dtos) - from ELSE 0
<1> DEFINE n == Len(dtos)
           spot == [id \in S |-> tokens[id]]
<1>1. /\ n \in Nat
      /\ \A id \in S : tokens[id] \in from + 1 .. n
      /\ \A x, y \in S : tokens[x] = tokens[y] => x = y
  BY ListedFiles
<1> HIDE DEF n
<1>2. spot \in Injection(S, from + 1 .. n)
  BY <1>1 DEF Injection, IsInjective
<1>3. /\ IsFiniteSet(from + 1 .. n)
      /\ Cardinality(from + 1 .. n) = IF from + 1 > n THEN 0 ELSE n - (from + 1) + 1
  BY <1>1, FS_Interval
<1> HIDE DEF spot
<1>4. IsFiniteSet(S) /\ Cardinality(S) <= Cardinality(from + 1 .. n)
  BY <1>2, <1>3, FS_Injection
<1>5. Cardinality(S) \in Nat
  BY <1>4, FS_CardinalityType
<1> QED
  BY <1>1, <1>3, <1>4, <1>5 DEF n

\* Whatever identifiers a request repeats or leaves out, the session holds no
\* more files than the user was told of, none that is neither named nor one of
\* the "more", and no more bytes.
THEOREM ConsentIsEnough == Spec => []ConsentCovers
<1>1. OfferInv /\ ToldInv => ConsentCovers
  <2> SUFFICES ASSUME OfferInv, ToldInv,
                      place \in {"shown", "accepted", "closed"}
               PROVE  /\ Cardinality(DOMAIN files) <= told.count
                      /\ Cardinality(Unnamed) <= told.more
                      /\ Sizes < Limit =>
                           MapThenSumSet(LAMBDA id : files[id].size, DOMAIN files)
                             <= told.total
    BY DEF ConsentCovers
  <2>1. /\ told.count = Len(dtos) /\ told.total = Sizes % Limit
        /\ told.names = FirstNames /\ told.more = More
    BY DEF ToldInv, Text
  <2>2. /\ DOMAIN dtos = 1 .. Len(dtos) /\ Len(dtos) \in Nat
        /\ \A id \in DOMAIN files :
             tokens[id] \in 1 .. Len(dtos) /\ dtos[tokens[id]] = files[id]
        /\ \A x, y \in DOMAIN files : tokens[x] = tokens[y] => x = y
    BY ListedFiles
  <2>3. Cardinality(DOMAIN files) <= told.count
    <3>1. \A id \in DOMAIN files : tokens[id] > 0
      BY <2>2
    <3>2. Cardinality(DOMAIN files) <= IF Len(dtos) > 0 THEN Len(dtos) - 0 ELSE 0
      BY <3>1, NoMoreThanListed
    <3> QED
      BY <2>1, <2>2, <3>2
  <2>4. Cardinality(Unnamed) <= told.more
    <3>1. ASSUME NEW id \in Unnamed PROVE tokens[id] > MaxNames
      <4>1. id \in DOMAIN files /\ files[id].name \notin Range(FirstNames)
        BY <2>1 DEF Unnamed
      <4> DEFINE i == tokens[id]
      <4>2. i \in 1 .. Len(dtos) /\ dtos[i].name = files[id].name
        BY <2>2, <4>1
      <4>3. SUFFICES ASSUME ~(i > MaxNames) PROVE FALSE
        OBVIOUS
      <4>4. /\ i \in DOMAIN FirstNames
            /\ FirstNames[i] = dtos[i].name
        BY <2>2, <4>2, <4>3, OfferedAssumption DEF FirstNames
      <4> QED
        BY <4>1, <4>2, <4>4 DEF Range
    <3>2. Unnamed \in SUBSET DOMAIN files
      BY DEF Unnamed
    <3>3. Cardinality(Unnamed)
            <= IF Len(dtos) > MaxNames THEN Len(dtos) - MaxNames ELSE 0
      BY <3>1, <3>2, NoMoreThanListed, OfferedAssumption
    <3> QED
      BY <2>1, <3>3 DEF More
  <2>5. \A i \in DOMAIN dtos : dtos[i].size \in Nat
    BY <2>2, SizeNatural DEF OfferInv
  <2>6. IsFiniteSet(DOMAIN files) /\ IsFiniteSet(DOMAIN dtos)
    BY <2>2, FS_Interval DEF OfferInv
  <2>7. Total(files, DOMAIN files) <= Total(dtos, DOMAIN dtos)
    <3>1. \A x \in DOMAIN files :
            /\ files[x].size \in Nat
            /\ tokens[x] \in DOMAIN dtos
            /\ dtos[tokens[x]].size = files[x].size
      BY <2>2, <2>5
    <3> QED
      BY <2>2, <2>5, <2>6, <3>1, TotalWithin
  <2>8. Total(dtos, DOMAIN dtos) \in Nat
    BY <2>5, <2>6, TotalIsNatural
  <2>9. /\ Sizes = Total(dtos, DOMAIN dtos)
        /\ MapThenSumSet(LAMBDA id : files[id].size, DOMAIN files)
             = Total(files, DOMAIN files)
    BY DEF Sizes, Total
  <2>10. Sizes < Limit => told.total = Sizes
    BY <2>1, <2>8, <2>9, OfferedAssumption
  <2> QED
    BY <2>3, <2>4, <2>7, <2>9, <2>10
<1> QED
  BY <1>1, OfferAlways, PTL
=============================================================================
