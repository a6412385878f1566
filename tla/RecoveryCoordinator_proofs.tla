----------------------- MODULE RecoveryCoordinator_proofs -----------------------
(***************************************************************************)
(* First what one write does to a store that keeps to the contract, for    *)
(* every number of copies, every set of sizes and every value of the caps: *)
(*                                                                         *)
(*  - the plan of deletes never names a record of the session written to,  *)
(*    and of the sessions it keeps only previous generations go;           *)
(*  - what is left is within both caps.                                    *)
(*                                                                         *)
(* Then, with these lemmas, the coordinator's type invariant, the          *)
(* retention caps, and what it promises about order, generations and       *)
(* discarded work.  The inductive invariant says what ties the queue of    *)
(* transactions to the chain and to the store.  The open write is the head *)
(* of the chain; the migration comes first and under an identity nothing   *)
(* else has; and times of staging ascend from what is stored over the      *)
(* migration and the chain to what is pending.                             *)
(***************************************************************************)
EXTENDS RecoveryCoordinator, FiniteSetTheorems, TLAPS

\* What every record of a store has: the copy it is filed under is its own,
\* its id names that copy, and its text is within the limit.  A session has
\* a previous record only behind a latest one.
WellFormed(s) ==
    /\ s \in Store
    /\ \A c \in Copies, g \in Generations :
          s[c][g] # Absent => /\ s[c][g].workingCopyId = c
                              /\ s[c][g].recordId[1] = c
                              /\ s[c][g].text.size <= MaxRecordBytes
    /\ \A c \in Copies : s[c]["previous"] # Absent => s[c]["latest"] # Absent

WithinCaps(s) ==
    /\ Cardinality(SessionsIn(s)) <= MaxSessions
    /\ TotalBytes(s, OccupiedSlots(s, Copies)) <= MaxTotalBytes

\* What a record has to be to be written.
Writable(record) ==
    /\ record \in Record
    /\ record.recordId[1] = record.workingCopyId
    /\ record.text.size <= MaxRecordBytes

--------------------------------------------------------------------------------
\* Orders on finite sets, given as sets of pairs.

Precedes(R, S, x) == {y \in S : <<y, x>> \in R}

StrictOrder(R, S) ==
    /\ \A x \in S : <<x, x>> \notin R
    /\ \A x, y, z \in S : <<x, y>> \in R /\ <<y, z>> \in R => <<x, z>> \in R
    /\ \A x, y \in S : x # y => <<x, y>> \in R \/ <<y, x>> \in R

\* A set of naturals that is not empty has a least member.
LEMMA LeastNumber ==
  ASSUME NEW T \in SUBSET Nat, T # {}
  PROVE  \E x \in T : \A y \in T : x <= y
<1>1. \E x \in T : \A y \in T : ~ (<<y, x>> \in OpToRel(<, Nat))
  BY NatLessThanWellFounded, WFMin
<1>2. PICK x \in T : \A y \in T : ~ (<<y, x>> \in OpToRel(<, Nat))
  BY <1>1
<1>3. \A y \in T : ~ (y < x)
  BY <1>2 DEF OpToRel
<1> QED BY <1>3

\* What comes before an earlier element is a smaller set than what comes
\* before a later one.
LEMMA FewerPrecede ==
  ASSUME NEW R, NEW S, IsFiniteSet(S), StrictOrder(R, S),
         NEW x \in S, NEW y \in S, <<x, y>> \in R
  PROVE  Cardinality(Precedes(R, S, x)) < Cardinality(Precedes(R, S, y))
<1> DEFINE X == Precedes(R, S, x)
           Y == Precedes(R, S, y)
<1>1. X \in SUBSET Y /\ x \in Y /\ x \notin X /\ X \in SUBSET S /\ Y \in SUBSET S
  BY DEF Precedes, StrictOrder
<1> HIDE DEF X, Y
<1>2. IsFiniteSet(X) /\ IsFiniteSet(Y)
  BY <1>1, FS_Subset
<1>3. Cardinality(X) \in Nat /\ Cardinality(Y) \in Nat
  BY <1>2, FS_CardinalityType
<1>4. Cardinality(X) <= Cardinality(Y) /\ (Cardinality(Y) = Cardinality(X) => Y = X)
  BY <1>1, <1>2, FS_Subset
<1>5. Y # X
  BY <1>1
<1> QED BY <1>3, <1>4, <1>5 DEF X, Y

\* A strict order on a finite set has a first element in every subset that
\* is not empty.
LEMMA FirstExists ==
  ASSUME NEW R, NEW S, IsFiniteSet(S), StrictOrder(R, S),
         NEW U \in SUBSET S, U # {}
  PROVE  \E x \in U : \A y \in U : <<y, x>> \notin R
<1> DEFINE Rank(x) == Cardinality(Precedes(R, S, x))
           T == {Rank(x) : x \in U}
<1>1. \A x \in S : Rank(x) \in Nat
  <2> TAKE x \in S
  <2>1. Precedes(R, S, x) \in SUBSET S
    BY DEF Precedes
  <2> QED BY <2>1, FS_Subset, FS_CardinalityType
<1>2. \E n \in T : \A m \in T : n <= m
  BY <1>1, LeastNumber
<1>3. PICK x \in U : \A y \in U : Rank(x) <= Rank(y)
  BY <1>2
<1>4. ASSUME NEW y \in U, <<y, x>> \in R
      PROVE  FALSE
  <2>1. Rank(y) < Rank(x)
    BY <1>4, FewerPrecede
  <2> QED BY <2>1, <1>1, <1>3
<1> QED BY <1>4

\* No more than q elements have fewer than q before them.
LEMMA FewComeFirst ==
  ASSUME NEW R, NEW S, IsFiniteSet(S), StrictOrder(R, S), NEW q \in Nat
  PROVE  /\ IsFiniteSet({x \in S : ~ (Cardinality(Precedes(R, S, x)) >= q)})
         /\ Cardinality({x \in S : ~ (Cardinality(Precedes(R, S, x)) >= q)}) <= q
<1> DEFINE Rank(x) == Cardinality(Precedes(R, S, x))
           F == {x \in S : ~ (Rank(x) >= q)}
           f == [x \in F |-> Rank(x)]
           Q == 0 .. (q - 1)
<1>1. \A x \in S : Rank(x) \in Nat
  <2> TAKE x \in S
  <2>1. Precedes(R, S, x) \in SUBSET S
    BY DEF Precedes
  <2> QED BY <2>1, FS_Subset, FS_CardinalityType
<1>2. f \in [F -> Q]
  BY <1>1
<1>3. ASSUME NEW x \in F, NEW y \in F, f[x] = f[y]
      PROVE  x = y
  <2>1. Rank(x) = Rank(y)
    BY <1>3
  <2>2. CASE <<x, y>> \in R
    BY <2>1, <2>2, <1>1, FewerPrecede
  <2>3. CASE <<y, x>> \in R
    BY <2>1, <2>3, <1>1, FewerPrecede
  <2> QED BY <2>2, <2>3 DEF StrictOrder
<1>4. f \in Injection(F, Q)
  BY <1>2, <1>3 DEF Injection, IsInjective
<1>5. IsFiniteSet(Q) /\ Cardinality(Q) = q
  BY FS_Interval
<1> HIDE DEF F, f, Q
<1>6. IsFiniteSet(F) /\ Cardinality(F) <= q
  BY <1>4, <1>5, FS_Injection
<1> QED BY <1>6 DEF F

--------------------------------------------------------------------------------
\* The order of the sessions.

LEMMA StoreTypes ==
  ASSUME NEW s \in Store, NEW c \in Copies, NEW g \in Generations, s[c][g] # Absent
  PROVE  /\ s[c][g] \in Record
         /\ s[c][g].updatedAt \in Nat
         /\ s[c][g].text \in Text
         /\ s[c][g].text.size \in Nat
         /\ s[c][g].recordId \in Copies \X Nat
<1>1. s[c][g] \in Record
  BY DEF Store, Slot
<1>2. s[c][g].text \in Text
  BY <1>1 DEF Record
<1>3. s[c][g].text.size \in Nat
  BY <1>2, StoreAssumption DEF Text
<1> QED BY <1>1, <1>2, <1>3 DEF Record

LEMMA LargerOfTwo ==
  \A a, b \in Nat : \E n \in {a, b} : \A m \in {a, b} : m <= n
OBVIOUS

LEMMA RecencyType ==
  ASSUME NEW s \in Store, NEW c \in SessionsIn(s)
  PROVE  Recency(s[c]) \in Nat
<1> DEFINE stamps == {s[c][g].updatedAt : g \in {h \in Generations : s[c][h] # Absent}}
<1>0. c \in Copies
  BY DEF SessionsIn
<1>1. \A g \in Generations : s[c][g] # Absent => s[c][g].updatedAt \in Nat
  BY <1>0, StoreTypes
<1>2. stamps \in SUBSET Nat
  BY <1>1
<1>3. \E n \in stamps : \A m \in stamps : m <= n
  <2>1. CASE s[c]["latest"] # Absent /\ s[c]["previous"] # Absent
    <3>1. stamps = {s[c]["latest"].updatedAt, s[c]["previous"].updatedAt}
      BY <2>1 DEF Generations
    <3>2. \E n \in {s[c]["latest"].updatedAt, s[c]["previous"].updatedAt} : \A m \in {s[c]["latest"].updatedAt, s[c]["previous"].updatedAt} : m <= n
      BY <2>1, <1>1, <1>2, LargerOfTwo DEF Generations
    <3>3. {s[c]["latest"].updatedAt, s[c]["previous"].updatedAt} = stamps
      BY <3>1
    <3> QED BY <3>2, <3>3
  <2>2. CASE s[c]["latest"] # Absent /\ s[c]["previous"] = Absent
    <3>1. stamps = {s[c]["latest"].updatedAt}
      BY <2>2 DEF Generations
    <3>2. \E n \in {s[c]["latest"].updatedAt, s[c]["latest"].updatedAt} : \A m \in {s[c]["latest"].updatedAt, s[c]["latest"].updatedAt} : m <= n
      BY <2>2, <1>1, <1>2, LargerOfTwo DEF Generations
    <3>3. {s[c]["latest"].updatedAt, s[c]["latest"].updatedAt} = stamps
      BY <3>1
    <3> QED BY <3>2, <3>3
  <2>3. CASE s[c]["latest"] = Absent /\ s[c]["previous"] # Absent
    <3>1. stamps = {s[c]["previous"].updatedAt}
      BY <2>3 DEF Generations
    <3>2. \E n \in {s[c]["previous"].updatedAt, s[c]["previous"].updatedAt} : \A m \in {s[c]["previous"].updatedAt, s[c]["previous"].updatedAt} : m <= n
      BY <2>3, <1>1, <1>2, LargerOfTwo DEF Generations
    <3>3. {s[c]["previous"].updatedAt, s[c]["previous"].updatedAt} = stamps
      BY <3>1
    <3> QED BY <3>2, <3>3
  <2>4. \E g \in Generations : s[c][g] # Absent
    BY DEF SessionsIn
  <2> QED BY <2>1, <2>2, <2>3, <2>4 DEF Generations
<1>4. Recency(s[c]) = CHOOSE n \in stamps : \A m \in stamps : m <= n
  BY DEF Recency
<1> HIDE DEF stamps
<1>5. Recency(s[c]) \in stamps
  BY <1>3, <1>4
<1> QED BY <1>2, <1>5

LEMMA NewerIsStrict ==
  ASSUME NEW s \in Store, NEW S \in SUBSET SessionsIn(s)
  PROVE  /\ \A a \in S : ~Newer(s, a, a)
         /\ \A a, b, c \in S : Newer(s, a, b) /\ Newer(s, b, c) => Newer(s, a, c)
         /\ \A a, b \in S : a # b => Newer(s, a, b) \/ Newer(s, b, a)
<1>1. \A a \in S : Recency(s[a]) \in Nat
  BY RecencyType
<1>2. \A a \in S : a \in Nat
  BY StoreAssumption DEF SessionsIn, Copies
<1> QED BY <1>1, <1>2 DEF Newer

\* Everything a store is made of is finite.
LEMMA FiniteStore ==
  ASSUME NEW s
  PROVE  /\ IsFiniteSet(Copies)
         /\ IsFiniteSet(SessionsIn(s))
         /\ IsFiniteSet(Copies \X Generations)
<1>1. IsFiniteSet(Copies)
  BY FS_Interval, StoreAssumption DEF Copies
<1>2. SessionsIn(s) \in SUBSET Copies
  BY DEF SessionsIn
<1>3. IsFiniteSet(Generations)
  <2>1. Generations = {"latest"} \cup {"previous"}
    BY DEF Generations
  <2> QED BY <2>1, FS_Singleton, FS_Union
<1> QED BY <1>1, <1>2, <1>3, FS_Subset, FS_Product

\* Of the other sessions no more are kept than the quota allows.
LEMMA InactiveKept ==
  ASSUME NEW s \in Store, NEW active \in Copies
  PROVE  /\ IsFiniteSet(Inactive(s, active) \ DroppedSessions(s, active))
         /\ Cardinality(Inactive(s, active) \ DroppedSessions(s, active))
              <= InactiveQuota(s, active)
<1> DEFINE S == Inactive(s, active)
           R == {p \in S \X S : Newer(s, p[1], p[2])}
           q == InactiveQuota(s, active)
<1>1. S \in SUBSET SessionsIn(s) /\ IsFiniteSet(S)
  BY FiniteStore, FS_Subset DEF Inactive
<1>2. StrictOrder(R, S)
  <2> HIDE DEF S
  <2>1. /\ \A a \in S : ~Newer(s, a, a)
        /\ \A a, b, c \in S : Newer(s, a, b) /\ Newer(s, b, c) => Newer(s, a, c)
        /\ \A a, b \in S : a # b => Newer(s, a, b) \/ Newer(s, b, a)
    BY <1>1, NewerIsStrict
  <2>2. \A a, b : <<a, b>> \in R <=> a \in S /\ b \in S /\ Newer(s, a, b)
    OBVIOUS
  <2> HIDE DEF R
  <2> QED BY <2>1, <2>2 DEF StrictOrder
<1>3. q \in Nat
  BY StoreAssumption DEF InactiveQuota
<1>4. \A x \in S : Precedes(R, S, x) = {d \in S : Newer(s, d, x)}
  BY DEF Precedes
<1>5. S \ DroppedSessions(s, active)
        = {x \in S : ~ (Cardinality(Precedes(R, S, x)) >= q)}
  BY <1>4 DEF DroppedSessions
<1> HIDE DEF S, R, q
<1>6. /\ IsFiniteSet({x \in S : ~ (Cardinality(Precedes(R, S, x)) >= q)})
      /\ Cardinality({x \in S : ~ (Cardinality(Precedes(R, S, x)) >= q)}) <= q
  BY <1>1, <1>2, <1>3, FewComeFirst
<1>7. /\ IsFiniteSet(S \ DroppedSessions(s, active))
      /\ Cardinality(S \ DroppedSessions(s, active)) <= q
  BY <1>5, <1>6
<1> QED BY <1>7 DEF S, q

\* With the session written to, that is at most the cap.
LEMMA SessionsKept ==
  ASSUME NEW s \in Store, NEW active \in Copies
  PROVE  /\ IsFiniteSet(SessionsIn(s) \ DroppedSessions(s, active))
         /\ Cardinality(SessionsIn(s) \ DroppedSessions(s, active)) <= MaxSessions
<1> DEFINE K == SessionsIn(s) \ DroppedSessions(s, active)
           I == Inactive(s, active) \ DroppedSessions(s, active)
<1>1. IsFiniteSet(K) /\ I = K \ {active} /\ (active \in K <=> active \in SessionsIn(s))
  BY FiniteStore, FS_Subset DEF Inactive, DroppedSessions
<1>2. Cardinality(I) <= InactiveQuota(s, active)
  BY InactiveKept
<1> HIDE DEF K, I
<1>3. /\ Cardinality(K \ {active}) =
            IF active \in K THEN Cardinality(K) - 1 ELSE Cardinality(K)
      /\ Cardinality(K) \in Nat
  BY <1>1, FS_RemoveElement, FS_CardinalityType
<1>4. Cardinality(K) <= MaxSessions
  BY <1>1, <1>2, <1>3, StoreAssumption DEF InactiveQuota
<1> QED BY <1>1, <1>4 DEF K

--------------------------------------------------------------------------------
\* Bytes.

LEMMA SlotsAreSlots ==
  ASSUME NEW s, NEW C \in SUBSET Copies
  PROVE  /\ OccupiedSlots(s, C) \in SUBSET (Copies \X Generations)
         /\ OccupiedSlots(s, C) \in SUBSET OccupiedSlots(s, Copies)
         /\ IsFiniteSet(OccupiedSlots(s, C))
<1>1. /\ OccupiedSlots(s, C) \in SUBSET (Copies \X Generations)
      /\ OccupiedSlots(s, C) \in SUBSET OccupiedSlots(s, Copies)
  BY DEF OccupiedSlots
<1> QED BY <1>1, FiniteStore, FS_Subset

LEMMA SizeInLimit ==
  ASSUME NEW s, WellFormed(s), NEW slot \in OccupiedSlots(s, Copies)
  PROVE  s[slot[1]][slot[2]].text.size \in 0..MaxRecordBytes
<1>1. slot[1] \in Copies /\ slot[2] \in Generations /\ s[slot[1]][slot[2]] # Absent
  BY DEF OccupiedSlots
<1>2. s[slot[1]][slot[2]].text.size \in Nat
  BY <1>1, StoreTypes DEF WellFormed
<1>3. s[slot[1]][slot[2]].text.size <= MaxRecordBytes
  BY <1>1 DEF WellFormed
<1> QED BY <1>2, <1>3, StoreAssumption

\* So many records hold at most so many times the limit.
LEMMA BytesBound ==
  ASSUME NEW s, WellFormed(s), NEW K \in SUBSET OccupiedSlots(s, Copies)
  PROVE  /\ IsFiniteSet(UNION {Bytes(s, slot) : slot \in K})
         /\ TotalBytes(s, K) \in Nat
         /\ IsFiniteSet(K) /\ Cardinality(K) \in Nat
         /\ TotalBytes(s, K) <= Cardinality(K) * MaxRecordBytes
<1> DEFINE B == UNION {Bytes(s, slot) : slot \in K}
           M == 1..MaxRecordBytes
<1>1. \A slot \in K : s[slot[1]][slot[2]].text.size \in 0..MaxRecordBytes
  BY SizeInLimit
<1>2. \A slot \in K : Bytes(s, slot) \subseteq K \X M
  <2> TAKE slot \in K
  <2>1. 1..s[slot[1]][slot[2]].text.size \subseteq M
    BY <1>1, StoreAssumption
  <2> QED BY <2>1 DEF Bytes
<1>3. B \in SUBSET (K \X M)
  BY <1>2
<1>4. IsFiniteSet(K)
  BY SlotsAreSlots, FS_Subset
<1>5. IsFiniteSet(M) /\ Cardinality(M) = MaxRecordBytes
  BY FS_Interval, StoreAssumption
<1> HIDE DEF B, M
<1>6. /\ IsFiniteSet(K \X M)
      /\ Cardinality(K \X M) = Cardinality(K) * MaxRecordBytes
  BY <1>4, <1>5, FS_Product
<1>7. IsFiniteSet(B) /\ Cardinality(B) <= Cardinality(K) * MaxRecordBytes
  BY <1>3, <1>6, FS_Subset
<1>8. Cardinality(B) \in Nat /\ Cardinality(K) \in Nat
  BY <1>7, <1>4, FS_CardinalityType
<1> QED BY <1>4, <1>7, <1>8 DEF B, TotalBytes

LEMMA BytesMonotone ==
  ASSUME NEW s, WellFormed(s), NEW K \in SUBSET OccupiedSlots(s, Copies),
         NEW J \in SUBSET K
  PROVE  TotalBytes(s, J) <= TotalBytes(s, K)
<1> DEFINE B == UNION {Bytes(s, slot) : slot \in K}
           A == UNION {Bytes(s, slot) : slot \in J}
<1>1. A \in SUBSET B
  OBVIOUS
<1>2. IsFiniteSet(B)
  BY BytesBound
<1> HIDE DEF A, B
<1>3. Cardinality(A) <= Cardinality(B)
  BY <1>1, <1>2, FS_Subset
<1> QED BY <1>3 DEF A, B, TotalBytes

LEMMA BytesAgree ==
  ASSUME NEW s, NEW t, NEW K,
         \A slot \in K : s[slot[1]][slot[2]] = t[slot[1]][slot[2]]
  PROVE  TotalBytes(s, K) = TotalBytes(t, K)
<1>1. \A slot \in K : Bytes(s, slot) = Bytes(t, slot)
  BY DEF Bytes
<1>2. {Bytes(s, slot) : slot \in K} = {Bytes(t, slot) : slot \in K}
  BY <1>1
<1> QED BY <1>2 DEF TotalBytes

\* One record for every session that is kept, and one more, always fit.
LEMMA OneEachFits ==
  ASSUME NEW s, WellFormed(s), NEW active \in Copies,
         NEW K \in SUBSET KeptSlots(s, active),
         \A slot \in K : slot[2] = "latest" \/ slot[1] = active
  PROVE  TotalBytes(s, K) <= MaxTotalBytes
<1> DEFINE C == SessionsIn(s) \ DroppedSessions(s, active)
           L == C \X {"latest"}
           P == L \cup {<<active, "previous">>}
<1>1. C \in SUBSET Copies
  BY DEF SessionsIn
<1>2. /\ K \in SUBSET OccupiedSlots(s, Copies)
      /\ K \in SUBSET OccupiedSlots(s, C)
  BY <1>1, SlotsAreSlots DEF KeptSlots
<1>3. \A slot \in K : slot \in P
  <2> TAKE slot \in K
  <2>1. slot \in C \X Generations
    BY <1>2 DEF OccupiedSlots
  <2>2. slot = <<slot[1], slot[2]>> /\ slot[1] \in C /\ slot[2] \in {"latest", "previous"}
    BY <2>1 DEF Generations
  <2> QED BY <2>2
<1>4. IsFiniteSet(C) /\ Cardinality(C) <= MaxSessions
  BY SessionsKept DEF WellFormed
<1>5. IsFiniteSet({"latest"}) /\ Cardinality({"latest"}) = 1
  BY FS_Singleton
<1> HIDE DEF C
<1>6. IsFiniteSet(L) /\ Cardinality(L) = Cardinality(C) * 1
  BY <1>4, <1>5, FS_Product
<1>7. Cardinality(C) \in Nat
  BY <1>4, FS_CardinalityType
<1> HIDE DEF L
<1>8. IsFiniteSet(P) /\ Cardinality(P) <= Cardinality(C) + 1
  BY <1>6, <1>7, FS_AddElement
<1> HIDE DEF P
<1>9. Cardinality(K) <= Cardinality(P)
  BY <1>3, <1>8, FS_Subset
<1>10. Cardinality(K) <= MaxSessions + 1 /\ Cardinality(K) \in Nat
  <2>1. Cardinality(P) \in Nat /\ Cardinality(K) \in Nat
    BY <1>8, FS_CardinalityType, <1>2, BytesBound
  <2> QED BY <2>1, <1>4, <1>7, <1>8, <1>9, StoreAssumption
<1>11. TotalBytes(s, K) <= Cardinality(K) * MaxRecordBytes /\ TotalBytes(s, K) \in Nat
  BY <1>2, BytesBound
<1>12. \A k, m, b \in Nat : k <= m => k * b <= m * b
  OBVIOUS
<1>13. Cardinality(K) * MaxRecordBytes <= (MaxSessions + 1) * MaxRecordBytes
  BY <1>10, <1>12, StoreAssumption
<1>14. \A a, b, c, d \in Int : a <= b /\ b <= c /\ c <= d => a <= d
  OBVIOUS
<1>15. /\ Cardinality(K) * MaxRecordBytes \in Int
       /\ (MaxSessions + 1) * MaxRecordBytes \in Int
  BY <1>10, StoreAssumption
<1> QED BY <1>11, <1>13, <1>14, <1>15, StoreAssumption

--------------------------------------------------------------------------------
\* The drops for the byte cap.

LEMMA DroppableSlots ==
  ASSUME NEW s, NEW active \in Copies, NEW x \in KeptSlots(s, active)
  PROVE  /\ x = <<x[1], x[2]>> /\ x[1] \in SessionsIn(s) /\ x[1] \in Copies
         /\ x[2] \in {"latest", "previous"}
         /\ s[x[1]][x[2]] # Absent
         /\ x[1] \notin DroppedSessions(s, active)
         /\ x \in OccupiedSlots(s, Copies)
BY DEF KeptSlots, OccupiedSlots, SessionsIn, Generations

\* The drop order is one: two records that can be dropped are never level.
LEMMA DropOrderIsStrict ==
  ASSUME NEW s \in Store, NEW active \in Copies
  PROVE  LET D == Droppable(s, active)
         IN  StrictOrder({p \in D \X D : DropsBefore(s, active, p[1], p[2])}, D)
<1> DEFINE D == Droppable(s, active)
           R == {p \in D \X D : DropsBefore(s, active, p[1], p[2])}
<1>1. \A x \in D : /\ x = <<x[1], x[2]>> /\ x[1] \in SessionsIn(s)
                   /\ x[2] \in {"latest", "previous"}
  BY DroppableSlots DEF Droppable
<1>2. \A x \in D : DropClass(x, active) \in {1, 2, 3}
  BY DEF DropClass
<1>3. /\ \A a \in SessionsIn(s) : ~Newer(s, a, a)
      /\ \A a, b, c \in SessionsIn(s) :
            Newer(s, a, b) /\ Newer(s, b, c) => Newer(s, a, c)
      /\ \A a, b \in SessionsIn(s) : a # b => Newer(s, a, b) \/ Newer(s, b, a)
  BY NewerIsStrict
<1>4. \A x, y : <<x, y>> \in R <=> x \in D /\ y \in D /\ DropsBefore(s, active, x, y)
  OBVIOUS
<1> HIDE DEF D, R
<1>5. \A x \in D : <<x, x>> \notin R
  BY <1>1, <1>2, <1>3, <1>4 DEF DropsBefore
<1>6. ASSUME NEW x \in D, NEW y \in D, NEW z \in D, <<x, y>> \in R, <<y, z>> \in R
      PROVE  <<x, z>> \in R
  <2>1. DropsBefore(s, active, x, y) /\ DropsBefore(s, active, y, z)
    BY <1>4, <1>6
  <2>2. DropsBefore(s, active, x, z)
    BY <2>1, <1>1, <1>2, <1>3 DEF DropsBefore
  <2> QED BY <2>2, <1>4
<1>7. ASSUME NEW x \in D, NEW y \in D, x # y
      PROVE  <<x, y>> \in R \/ <<y, x>> \in R
  <2>1. CASE x[1] # y[1]
    <3>1. Newer(s, x[1], y[1]) \/ Newer(s, y[1], x[1])
      BY <2>1, <1>1, <1>3
    <3>2. DropsBefore(s, active, x, y) \/ DropsBefore(s, active, y, x)
      BY <3>1, <1>2 DEF DropsBefore
    <3> QED BY <3>2, <1>4
  <2>2. CASE x[1] = y[1]
    <3>1. x[2] # y[2]
      BY <2>2, <1>7, <1>1
    <3>2. DropClass(x, active) # DropClass(y, active)
      BY <3>1, <2>2, <1>1 DEF DropClass
    <3>3. DropsBefore(s, active, x, y) \/ DropsBefore(s, active, y, x)
      BY <3>2, <1>2 DEF DropsBefore
    <3> QED BY <3>3, <1>4
  <2> QED BY <2>1, <2>2
<1>8. StrictOrder(R, D)
  BY <1>5, <1>6, <1>7 DEF StrictOrder
<1> QED BY <1>8 DEF D, R

LEMMA KeptSlotsFinite ==
  ASSUME NEW s, NEW active
  PROVE  /\ KeptSlots(s, active) \in SUBSET OccupiedSlots(s, Copies)
         /\ IsFiniteSet(Droppable(s, active))
<1>1. SessionsIn(s) \ DroppedSessions(s, active) \in SUBSET Copies
  BY DEF SessionsIn
<1>2. /\ KeptSlots(s, active) \in SUBSET OccupiedSlots(s, Copies)
      /\ IsFiniteSet(KeptSlots(s, active))
  BY <1>1, SlotsAreSlots DEF KeptSlots
<1> QED BY <1>2, FS_Subset DEF Droppable

\* Under the contract's limits only previous generations of the other
\* sessions are ever dropped for the byte cap.
LEMMA OnlyOldDropped ==
  ASSUME NEW s, WellFormed(s), NEW active \in Copies,
         NEW x \in DroppedSlots(s, active)
  PROVE  x[1] # active /\ x[2] = "previous"
<1> SUFFICES ASSUME ~ (x[1] # active /\ x[2] = "previous")
             PROVE  FALSE
  OBVIOUS
<1> DEFINE K == KeptSlots(s, active) \ DroppedBefore(s, active, x)
<1>1. /\ x \in KeptSlots(s, active) /\ x # <<active, "latest">>
      /\ TotalBytes(s, K) > MaxTotalBytes
  BY DEF DroppedSlots, Droppable
<1>2. x = <<x[1], x[2]>> /\ x[2] \in {"latest", "previous"}
  BY <1>1, DroppableSlots
<1>3. DropClass(x, active) \in {2, 3}
  BY <1>2 DEF DropClass
<1>4. ASSUME NEW y \in K
      PROVE  y[2] = "latest" \/ y[1] = active
  <2>1. y \in KeptSlots(s, active) /\ y \notin DroppedBefore(s, active, x)
    OBVIOUS
  <2>2. y = <<y[1], y[2]>> /\ y[2] \in {"latest", "previous"}
    BY <2>1, DroppableSlots
  <2>3. ASSUME y[2] # "latest", y[1] # active
        PROVE  FALSE
    <3>1. y # <<active, "latest">>
      BY <2>2, <2>3
    <3>2. DropClass(y, active) = 1
      BY <2>2, <2>3 DEF DropClass
    <3>3. DropsBefore(s, active, y, x)
      BY <3>2, <1>3 DEF DropsBefore
    <3> QED BY <3>1, <3>3, <2>1 DEF DroppedBefore, Droppable
  <2> QED BY <2>3
<1>5. K \in SUBSET KeptSlots(s, active)
  OBVIOUS
<1> HIDE DEF K
<1>6. TotalBytes(s, K) <= MaxTotalBytes
  BY <1>4, <1>5, OneEachFits
<1>7. TotalBytes(s, K) \in Nat
  BY <1>5, KeptSlotsFinite, BytesBound
<1> QED BY <1>1, <1>6, <1>7, StoreAssumption

\* What the drops leave is under the cap.
LEMMA DropsReachCap ==
  ASSUME NEW s, WellFormed(s), NEW active \in Copies
  PROVE  TotalBytes(s, KeptSlots(s, active) \ DroppedSlots(s, active)) <= MaxTotalBytes
<1> DEFINE D == Droppable(s, active)
           R == {p \in D \X D : DropsBefore(s, active, p[1], p[2])}
           U == D \ DroppedSlots(s, active)
           K == KeptSlots(s, active) \ DroppedSlots(s, active)
<1>1. CASE U = {}
  <2>1. \A slot \in K : slot = <<active, "latest">>
    BY <1>1 DEF Droppable
  <2>2. \A slot \in K : slot[2] = "latest" \/ slot[1] = active
    BY <2>1
  <2>3. K \in SUBSET KeptSlots(s, active)
    OBVIOUS
  <2> HIDE DEF K
  <2> QED BY <2>2, <2>3, OneEachFits DEF K
<1>2. CASE U # {}
  <2>1. StrictOrder(R, D)
    BY DropOrderIsStrict DEF WellFormed
  <2>2. IsFiniteSet(D) /\ U \in SUBSET D
    BY KeptSlotsFinite
  <2>3. \E x \in U : \A y \in U : <<y, x>> \notin R
    <3> HIDE DEF U, D, R
    <3> QED BY <1>2, <2>1, <2>2, FirstExists
  <2>4. PICK x \in U : \A y \in U : <<y, x>> \notin R
    BY <2>3
  <2> DEFINE J == KeptSlots(s, active) \ DroppedBefore(s, active, x)
  <2>5. TotalBytes(s, J) \in Nat /\ J \in SUBSET OccupiedSlots(s, Copies)
    BY KeptSlotsFinite, BytesBound
  <2>6. ~ (TotalBytes(s, J) > MaxTotalBytes)
    BY DEF DroppedSlots
  <2>7. K \in SUBSET J
    <3> SUFFICES ASSUME NEW y \in K, y \in DroppedBefore(s, active, x)
                 PROVE  FALSE
      OBVIOUS
    <3>1. y \in D /\ DropsBefore(s, active, y, x)
      BY DEF DroppedBefore
    <3>2. y \in U
      BY <3>1
    <3>3. <<y, x>> \in R
      BY <3>1
    <3> QED BY <3>2, <3>3, <2>4
  <2> HIDE DEF J, K
  <2>8. TotalBytes(s, K) <= TotalBytes(s, J)
    BY <2>5, <2>7, BytesMonotone
  <2>9. TotalBytes(s, K) \in Nat
    BY <2>5, <2>7, BytesBound
  <2>10. TotalBytes(s, K) <= MaxTotalBytes
    BY <2>5, <2>6, <2>8, <2>9, StoreAssumption
  <2> QED BY <2>10 DEF K
<1> QED BY <1>1, <1>2

--------------------------------------------------------------------------------
\* The write.

AfterRotation(s, record) ==
    [s EXCEPT ![record.workingCopyId] = Rotated(s[record.workingCopyId], record)]

LEMMA WritableTypes ==
  ASSUME NEW record, Writable(record)
  PROVE  /\ record \in Record /\ record # Absent
         /\ record.workingCopyId \in Copies
         /\ record \in Slot
BY StoreAssumption DEF Writable, Record, Slot

LEMMA RotationWellFormed ==
  ASSUME NEW s, WellFormed(s), NEW record, Writable(record)
  PROVE  LET c == record.workingCopyId
             t == AfterRotation(s, record)
         IN  /\ WellFormed(t)
             /\ t[c] = Rotated(s[c], record)
             /\ \A d \in Copies : d # c => t[d] = s[d]
             /\ t[c]["latest"] \in {record, s[c]["latest"]}
             /\ t[c]["latest"] # Absent
             /\ t[c]["latest"].text = record.text
             /\ t[c]["previous"] \in {s[c]["latest"], s[c]["previous"]}
             /\ t[c]["latest"].text # s[c]["latest"].text
                   => t[c]["previous"] = s[c]["latest"]
<1> DEFINE c == record.workingCopyId
           t == AfterRotation(s, record)
           rotation == Rotated(s[c], record)
<1>1. c \in Copies /\ record # Absent /\ record \in Slot
  BY WritableTypes
<1>2. s \in Store /\ s[c] \in [Generations -> Slot]
  BY <1>1 DEF WellFormed, Store
<1>3. "latest" \in Generations /\ "previous" \in Generations
  BY DEF Generations
<1>4. s[c]["latest"] \in Slot /\ s[c]["previous"] \in Slot
  BY <1>2, <1>3
<1>5. \/ /\ ~SameText(s[c], record)
         /\ rotation = [g \in Generations |-> IF g = "latest" THEN record
                                              ELSE s[c]["latest"]]
      \/ /\ SameText(s[c], record)
         /\ rotation = [s[c] EXCEPT !["latest"] = record]
      \/ /\ SameText(s[c], record)
         /\ rotation = s[c]
  BY DEF Rotated
<1>6. /\ rotation \in [Generations -> Slot]
      /\ rotation["latest"] \in {record, s[c]["latest"]}
      /\ rotation["previous"] \in {s[c]["latest"], s[c]["previous"]}
      /\ rotation["latest"] # Absent
      /\ rotation["latest"].text = record.text
      /\ rotation["latest"].text # s[c]["latest"].text
            => rotation["previous"] = s[c]["latest"]
  <2>1. CASE rotation = [g \in Generations |-> IF g = "latest" THEN record
                                               ELSE s[c]["latest"]]
    <3>1. rotation["latest"] = record /\ rotation["previous"] = s[c]["latest"]
      BY <2>1, <1>3
    <3>2. rotation \in [Generations -> Slot]
      BY <2>1, <1>1, <1>4
    <3> HIDE DEF rotation
    <3> QED BY <3>1, <3>2, <1>1
  <2>2. CASE /\ SameText(s[c], record)
             /\ rotation = [s[c] EXCEPT !["latest"] = record]
    <3>1. rotation["latest"] = record /\ rotation["previous"] = s[c]["previous"]
      BY <2>2, <1>2, <1>3
    <3>2. rotation \in [Generations -> Slot]
      BY <2>2, <1>1, <1>2
    <3>3. s[c]["latest"].text = record.text
      BY <2>2 DEF SameText
    <3> HIDE DEF rotation
    <3> QED BY <3>1, <3>2, <3>3, <1>1
  <2>3. CASE SameText(s[c], record) /\ rotation = s[c]
    <3>1. s[c]["latest"].text = record.text /\ s[c]["latest"] # Absent
      BY <2>3 DEF SameText
    <3> HIDE DEF rotation
    <3> QED BY <3>1, <2>3, <1>2
  <2> QED BY <1>5, <2>1, <2>2, <2>3
<1>7. t \in Store /\ t[c] = rotation /\ \A d \in Copies : d # c => t[d] = s[d]
  <2> HIDE DEF rotation
  <2>1. t = [s EXCEPT ![c] = rotation]
    BY DEF AfterRotation, rotation
  <2> QED BY <2>1, <1>1, <1>2, <1>6 DEF Store
<1>8. \A g \in Generations :
         t[c][g] # Absent => /\ t[c][g].workingCopyId = c
                             /\ t[c][g].recordId[1] = c
                             /\ t[c][g].text.size <= MaxRecordBytes
  <2>1. \A g \in Generations : t[c][g] \in {record, s[c]["latest"], s[c]["previous"]}
    BY <1>6, <1>7 DEF Generations
  <2>2. \A g \in Generations :
           s[c][g] # Absent => /\ s[c][g].workingCopyId = c
                               /\ s[c][g].recordId[1] = c
                               /\ s[c][g].text.size <= MaxRecordBytes
    BY <1>1 DEF WellFormed
  <2>3. /\ record.workingCopyId = c /\ record.recordId[1] = c
        /\ record.text.size <= MaxRecordBytes
    BY DEF Writable
  <2> HIDE DEF t, c
  <2> QED BY <2>1, <2>2, <2>3, <1>3
<1>9. WellFormed(t)
  <2> HIDE DEF t, c, rotation
  <2>1. \A d \in Copies, g \in Generations :
           t[d][g] # Absent => /\ t[d][g].workingCopyId = d
                               /\ t[d][g].recordId[1] = d
                               /\ t[d][g].text.size <= MaxRecordBytes
    BY <1>7, <1>8 DEF WellFormed
  <2>2. \A d \in Copies : t[d]["previous"] # Absent => t[d]["latest"] # Absent
    BY <1>6, <1>7 DEF WellFormed
  <2> QED BY <1>7, <2>1, <2>2 DEF WellFormed
<1> QED BY <1>6, <1>7, <1>9

\* The plan never names a record of the session it is made for.
LEMMA PlanSparesActive ==
  ASSUME NEW t, WellFormed(t), NEW active \in Copies
  PROVE  \A id \in PlannedIds(t, active) : id[1] # active
<1> SUFFICES ASSUME NEW slot \in OccupiedSlots(t, DroppedSessions(t, active))
                                    \cup DroppedSlots(t, active)
             PROVE  t[slot[1]][slot[2]].recordId[1] # active
  BY DEF PlannedIds
<1>1. slot \in OccupiedSlots(t, Copies) /\ slot[1] # active
  <2>1. CASE slot \in DroppedSlots(t, active)
    <3>1. slot \in KeptSlots(t, active)
      BY <2>1 DEF DroppedSlots, Droppable
    <3> QED BY <2>1, <3>1, OnlyOldDropped, KeptSlotsFinite
  <2>2. CASE slot \in OccupiedSlots(t, DroppedSessions(t, active))
    BY <2>2 DEF OccupiedSlots, DroppedSessions, Inactive, SessionsIn
  <2> QED BY <2>1, <2>2
<1>2. /\ slot[1] \in Copies /\ slot[2] \in Generations
      /\ t[slot[1]][slot[2]] # Absent
  BY <1>1 DEF OccupiedSlots
<1>3. t[slot[1]][slot[2]].recordId[1] = slot[1]
  BY <1>2 DEF WellFormed
<1> QED BY <1>1, <1>3

LEMMA WithoutIdsTypes ==
  ASSUME NEW s \in Store, NEW ids
  PROVE  /\ WithoutIds(s, ids) \in Store
         /\ \A c \in Copies, g \in Generations :
               WithoutIds(s, ids)[c][g] =
                  IF s[c][g] # Absent /\ s[c][g].recordId \in ids THEN Absent
                  ELSE s[c][g]
<1>1. \A c \in Copies, g \in Generations : s[c][g] \in Slot
  BY DEF Store
<1> QED BY <1>1 DEF WithoutIds, Store, Slot

\* The write rotates the session it is for and does nothing else but the
\* planned deletes in the others.
LEMMA WriteIs ==
  ASSUME NEW s, WellFormed(s), NEW record, Writable(record)
  PROVE  LET c == record.workingCopyId
             t == AfterRotation(s, record)
             w == WriteRecord(s, record)
         IN  /\ w \in Store
             /\ w[c] = t[c]
             /\ \A d \in Copies, g \in Generations :
                   d # c => w[d][g] =
                      IF t[d][g] # Absent /\ t[d][g].recordId \in PlannedIds(t, c)
                      THEN Absent ELSE t[d][g]
<1> DEFINE c == record.workingCopyId
           t == AfterRotation(s, record)
           w == WriteRecord(s, record)
           P == PlannedIds(t, c)
           cleared == WithoutIds(s, P)
           old == s[c]["latest"]
           rotation == Rotated(s[c], record)
           rekeyed == ~SameText(s[c], record) /\ old # Absent /\ old.recordId \notin P
           other == [cleared EXCEPT ![c]["latest"] = record,
                                    ![c]["previous"] = IF rekeyed THEN old ELSE @]
<1>1. w = IF rotation = s[c] THEN cleared ELSE other
  BY DEF WriteRecord, AfterRotation
<1>2. c \in Copies /\ record # Absent /\ record \in Slot
  BY WritableTypes
<1>3. s \in Store /\ s[c] \in [Generations -> Slot]
  BY <1>2 DEF WellFormed, Store
<1>4. "latest" \in Generations /\ "previous" \in Generations
  BY DEF Generations
<1>5. /\ WellFormed(t) /\ t[c] = rotation
      /\ \A d \in Copies : d # c => t[d] = s[d]
  BY RotationWellFormed
<1>6. \A id \in P : id[1] # c
  BY <1>2, <1>5, PlanSparesActive
<1>7. \A g \in Generations : s[c][g] # Absent => s[c][g].recordId \notin P
  BY <1>2, <1>6 DEF WellFormed
<1>8. /\ cleared \in Store
      /\ \A d \in Copies, g \in Generations :
            cleared[d][g] = IF s[d][g] # Absent /\ s[d][g].recordId \in P THEN Absent
                            ELSE s[d][g]
  BY <1>3, WithoutIdsTypes
<1>9. cleared[c] \in [Generations -> Slot]
  BY <1>2, <1>8 DEF Store
<1>10. cleared[c] = s[c]
  <2>1. \A g \in Generations : cleared[c][g] = s[c][g]
    BY <1>2, <1>7, <1>8
  <2> HIDE DEF cleared, c
  <2> QED BY <2>1, <1>3, <1>9
<1>11. s[c]["previous"] # Absent => old # Absent
  BY <1>2 DEF WellFormed
<1>12. old # Absent => old.recordId \notin P
  BY <1>4, <1>7
<1>13. /\ ~SameText(s[c], record) =>
             rotation = [g \in Generations |-> IF g = "latest" THEN record
                                               ELSE s[c]["latest"]]
       /\ SameText(s[c], record) =>
             rotation = s[c] \/ rotation = [s[c] EXCEPT !["latest"] = record]
  BY DEF Rotated
<1>14. rotation # s[c] =>
          /\ other \in Store
          /\ other[c] = rotation
          /\ \A d \in Copies : d # c => other[d] = cleared[d]
  <2> HAVE rotation # s[c]
  <2>0. /\ ~SameText(s[c], record) =>
              rotation = [g \in Generations |-> IF g = "latest" THEN record ELSE old]
        /\ SameText(s[c], record) => rotation = [s[c] EXCEPT !["latest"] = record]
    BY <1>13
  <2>1. /\ rekeyed => ~SameText(s[c], record)
        /\ ~SameText(s[c], record) /\ ~rekeyed => s[c]["previous"] = Absent /\ old = Absent
    BY <1>11, <1>12
  <2>2. other = [cleared EXCEPT ![c] = [cleared[c] EXCEPT
                   !["latest"] = record,
                   !["previous"] = IF rekeyed THEN old ELSE @]]
    <3> HIDE DEF cleared, c, old, rekeyed
    <3> QED BY <1>2, <1>4, <1>8, <1>9 DEF Store
  <2> DEFINE session == [s[c] EXCEPT !["latest"] = record,
                                     !["previous"] = IF rekeyed THEN old ELSE @]
  <2>3. other = [cleared EXCEPT ![c] = session]
    BY <2>2, <1>10
  <2>4. old \in Slot
    BY <1>3, <1>4
  <2>5. /\ session \in [Generations -> Slot] /\ session["latest"] = record
        /\ session["previous"] = IF rekeyed THEN old ELSE s[c]["previous"]
    <3> HIDE DEF c, old, rekeyed
    <3> QED BY <1>2, <1>3, <1>4, <2>4 DEF Generations
  <2>6. session = rotation
    <3>1. CASE ~SameText(s[c], record)
      <4>1. rotation = [g \in Generations |-> IF g = "latest" THEN record ELSE old]
        BY <2>0, <3>1
      <4>2. /\ rotation["latest"] = record /\ rotation["previous"] = old
            /\ rotation \in [Generations -> Slot]
        BY <4>1, <1>2, <1>4, <2>4
      <4>3. session["previous"] = old
        BY <2>1, <2>5, <3>1
      <4> HIDE DEF session, rotation
      <4> QED BY <4>2, <4>3, <2>5 DEF Generations
    <3>2. CASE SameText(s[c], record)
      <4>1. rotation = [s[c] EXCEPT !["latest"] = record]
        BY <2>0, <3>2
      <4>2. /\ rotation["latest"] = record /\ rotation["previous"] = s[c]["previous"]
            /\ rotation \in [Generations -> Slot]
        BY <4>1, <1>2, <1>3, <1>4
      <4>3. session["previous"] = s[c]["previous"]
        BY <2>1, <2>5, <3>2
      <4> HIDE DEF session, rotation, c
      <4> QED BY <4>2, <4>3, <2>5 DEF Generations
    <3> QED BY <3>1, <3>2
  <2>7. other = [cleared EXCEPT ![c] = rotation] /\ rotation \in [Generations -> Slot]
    BY <2>3, <2>5, <2>6
  <2> HIDE DEF other, cleared, rotation, c
  <2> QED BY <2>7, <1>2, <1>8 DEF Store
<1>15. w \in Store /\ w[c] = rotation /\ \A d \in Copies : d # c => w[d] = cleared[d]
  BY <1>1, <1>8, <1>10, <1>14
<1>16. \A d \in Copies, g \in Generations :
          d # c => w[d][g] = IF t[d][g] # Absent /\ t[d][g].recordId \in P THEN Absent
                             ELSE t[d][g]
  <2> HIDE DEF w, cleared, t, P, c
  <2> QED BY <1>5, <1>8, <1>15
<1> QED BY <1>5, <1>15, <1>16

\* A write leaves a well formed store within the caps, whatever was stored.
LEMMA WriteKeepsContract ==
  ASSUME NEW s, WellFormed(s), NEW record, Writable(record)
  PROVE  WellFormed(WriteRecord(s, record)) /\ WithinCaps(WriteRecord(s, record))
<1> DEFINE c == record.workingCopyId
           t == AfterRotation(s, record)
           w == WriteRecord(s, record)
           P == PlannedIds(t, c)
           gone == DroppedSessions(t, c)
           less == DroppedSlots(t, c)
<1>1. c \in Copies /\ WellFormed(t) /\ t \in Store
  BY WritableTypes, RotationWellFormed DEF WellFormed
<1>2. /\ w \in Store
      /\ w[c] = t[c]
      /\ \A d \in Copies, g \in Generations :
            d # c => w[d][g] = IF t[d][g] # Absent /\ t[d][g].recordId \in P
                               THEN Absent ELSE t[d][g]
  BY WriteIs
<1>3. \A slot \in OccupiedSlots(t, gone) \cup less : t[slot[1]][slot[2]].recordId \in P
  BY DEF PlannedIds
<1>4. \A id \in P : \E slot \in OccupiedSlots(t, gone) \cup less :
         id = t[slot[1]][slot[2]].recordId
  BY DEF PlannedIds
<1>5. c \notin gone /\ \A slot \in less : slot[1] # c /\ slot[2] = "previous"
  BY <1>1, OnlyOldDropped DEF DroppedSessions, Inactive
<1>6. gone \in SUBSET Copies /\ less \in SUBSET OccupiedSlots(t, Copies)
  BY KeptSlotsFinite DEF DroppedSessions, Inactive, SessionsIn, DroppedSlots, Droppable
<1>7. \A d \in gone, g \in Generations : t[d][g] # Absent => t[d][g].recordId \in P
  <2> TAKE d \in gone, g \in Generations
  <2> HAVE t[d][g] # Absent
  <2>1. <<d, g>> \in OccupiedSlots(t, gone)
    BY DEF OccupiedSlots
  <2> QED BY <2>1, <1>3
<1> HIDE DEF c, t, w, P, gone, less
<1>8. \A d \in Copies, g \in Generations : w[d][g] # Absent => w[d][g] = t[d][g]
  BY <1>2
<1>9. \A d \in Copies : w[d]["previous"] # Absent => w[d]["latest"] # Absent
  <2> TAKE d \in Copies
  <2> HAVE w[d]["previous"] # Absent
  <2>1. "latest" \in Generations /\ "previous" \in Generations
    BY DEF Generations
  <2>2. t[d]["previous"] # Absent /\ t[d]["latest"] # Absent
    BY <1>1, <1>8, <2>1 DEF WellFormed
  <2>3. CASE d = c
    BY <2>2, <2>3, <1>2
  <2>4. CASE d # c
    <3>1. t[d]["previous"].recordId \notin P
      BY <2>1, <2>2, <2>4, <1>2
    <3>2. t[d]["latest"].recordId \notin P
      <4> SUFFICES ASSUME t[d]["latest"].recordId \in P
                   PROVE  FALSE
        OBVIOUS
      <4>1. PICK slot \in OccupiedSlots(t, gone) \cup less :
               t[d]["latest"].recordId = t[slot[1]][slot[2]].recordId
        BY <1>4
      <4>2. /\ slot[1] \in Copies /\ slot[2] \in Generations
            /\ t[slot[1]][slot[2]] # Absent
        BY <1>6 DEF OccupiedSlots
      <4>3. t[slot[1]][slot[2]].recordId[1] = slot[1]
        BY <4>2, <1>1 DEF WellFormed
      <4>4. t[d]["latest"].recordId[1] = d
        BY <2>1, <2>2, <1>1 DEF WellFormed
      <4>5. slot[1] = d
        BY <4>1, <4>3, <4>4
      <4>6. CASE slot \in less
        <5>1. slot[2] = "previous"
          BY <4>6, <1>5
        <5> QED BY <5>1, <4>5, <4>6, <1>3, <3>1
      <4>7. CASE slot \in OccupiedSlots(t, gone)
        <5>1. d \in gone
          BY <4>5, <4>7 DEF OccupiedSlots
        <5> QED BY <5>1, <1>7, <2>1, <2>2, <3>1
      <4> QED BY <4>6, <4>7
    <3> QED BY <3>2, <2>1, <2>2, <2>4, <1>2
  <2> QED BY <2>3, <2>4
<1>10. WellFormed(w)
  <2>1. \A d \in Copies, g \in Generations :
           w[d][g] # Absent => /\ w[d][g].workingCopyId = d
                               /\ w[d][g].recordId[1] = d
                               /\ w[d][g].text.size <= MaxRecordBytes
    BY <1>1, <1>8 DEF WellFormed
  <2> QED BY <2>1, <1>2, <1>9 DEF WellFormed
<1>11. \A d \in gone, g \in Generations : w[d][g] = Absent
  BY <1>2, <1>5, <1>6, <1>7
<1>12. Cardinality(SessionsIn(w)) <= MaxSessions
  <2> DEFINE kept == SessionsIn(t) \ gone
  <2>1. SessionsIn(w) \in SUBSET kept
    BY <1>8, <1>11 DEF SessionsIn
  <2>2. IsFiniteSet(kept) /\ Cardinality(kept) <= MaxSessions
    BY <1>1, SessionsKept DEF gone
  <2> HIDE DEF kept
  <2>3. IsFiniteSet(SessionsIn(w)) /\ Cardinality(SessionsIn(w)) <= Cardinality(kept)
    BY <2>1, <2>2, FS_Subset
  <2>4. Cardinality(SessionsIn(w)) \in Nat /\ Cardinality(kept) \in Nat
    BY <2>2, <2>3, FS_CardinalityType
  <2> QED BY <2>2, <2>3, <2>4, StoreAssumption
<1>13. TotalBytes(w, OccupiedSlots(w, Copies)) <= MaxTotalBytes
  <2> DEFINE O == OccupiedSlots(w, Copies)
             K == KeptSlots(t, c) \ less
  <2>1. ASSUME NEW slot \in O
        PROVE  slot \in K /\ w[slot[1]][slot[2]] = t[slot[1]][slot[2]]
    <3>1. /\ slot = <<slot[1], slot[2]>> /\ slot[1] \in Copies /\ slot[2] \in Generations
          /\ w[slot[1]][slot[2]] # Absent
      BY DEF OccupiedSlots
    <3>2. w[slot[1]][slot[2]] = t[slot[1]][slot[2]]
      BY <3>1, <1>8
    <3>3. slot[1] \in SessionsIn(t) \ gone
      BY <3>1, <3>2, <1>11 DEF SessionsIn
    <3>4. slot \in KeptSlots(t, c)
      BY <3>1, <3>2, <3>3 DEF KeptSlots, OccupiedSlots, gone
    <3>5. slot \notin less
      <4> SUFFICES ASSUME slot \in less
                   PROVE  FALSE
        OBVIOUS
      <4>1. slot[1] # c /\ t[slot[1]][slot[2]].recordId \in P
        BY <1>3, <1>5
      <4> QED BY <4>1, <3>1, <3>2, <1>2
    <3> QED BY <3>2, <3>4, <3>5
  <2>2. TotalBytes(w, O) = TotalBytes(t, O)
    BY <2>1, BytesAgree
  <2>3. O \in SUBSET K
    BY <2>1
  <2>4. TotalBytes(t, K) <= MaxTotalBytes
    BY <1>1, DropsReachCap DEF less
  <2>5. K \in SUBSET OccupiedSlots(t, Copies)
    BY KeptSlotsFinite
  <2> HIDE DEF O, K
  <2>6. TotalBytes(t, O) <= TotalBytes(t, K)
    BY <1>1, <2>3, <2>5, BytesMonotone
  <2>7. TotalBytes(t, O) \in Nat /\ TotalBytes(t, K) \in Nat
    BY <1>1, <2>3, <2>5, BytesBound
  <2>8. TotalBytes(w, O) <= MaxTotalBytes
    BY <2>2, <2>4, <2>6, <2>7, StoreAssumption
  <2> QED BY <2>8 DEF O
<1> QED BY <1>10, <1>12, <1>13 DEF WithinCaps, w

\* What a write can do to a session: the one it is for takes the record, and
\* a text it replaces becomes the previous generation; the others only lose.
LEMMA WriteEffect ==
  ASSUME NEW s, WellFormed(s), NEW record, Writable(record), NEW d \in Copies
  PROVE  LET w == WriteRecord(s, record)
         IN  /\ d = record.workingCopyId =>
                   /\ w[d]["latest"] \in {record, s[d]["latest"]}
                   /\ w[d]["latest"].text = record.text
                   /\ w[d]["previous"] \in {s[d]["latest"], s[d]["previous"]}
                   /\ w[d]["latest"].text # s[d]["latest"].text
                         => w[d]["previous"] = s[d]["latest"]
             /\ d # record.workingCopyId =>
                   \A g \in Generations : w[d][g] \in {s[d][g], Absent}
<1> DEFINE c == record.workingCopyId
           t == AfterRotation(s, record)
           w == WriteRecord(s, record)
<1>1. /\ w[c] = t[c]
      /\ \A e \in Copies, g \in Generations :
            e # c => w[e][g] = IF t[e][g] # Absent /\ t[e][g].recordId \in PlannedIds(t, c)
                               THEN Absent ELSE t[e][g]
  BY WriteIs
<1>2. /\ \A e \in Copies : e # c => t[e] = s[e]
      /\ t[c]["latest"] \in {record, s[c]["latest"]}
      /\ t[c]["latest"].text = record.text
      /\ t[c]["previous"] \in {s[c]["latest"], s[c]["previous"]}
      /\ t[c]["latest"].text # s[c]["latest"].text => t[c]["previous"] = s[c]["latest"]
  BY RotationWellFormed
<1> HIDE DEF c, t, w
<1>3. /\ d = c =>
            /\ w[d]["latest"] \in {record, s[d]["latest"]}
            /\ w[d]["latest"].text = record.text
            /\ w[d]["previous"] \in {s[d]["latest"], s[d]["previous"]}
            /\ w[d]["latest"].text # s[d]["latest"].text
                  => w[d]["previous"] = s[d]["latest"]
      /\ d # c => \A g \in Generations : w[d][g] \in {s[d][g], Absent}
  BY <1>1, <1>2
<1> QED BY <1>3 DEF c, w

\* Deleting a session keeps the contract too.
LEMMA DeleteKeepsContract ==
  ASSUME NEW s, WellFormed(s), WithinCaps(s), NEW c \in Copies
  PROVE  /\ WellFormed(WithoutSession(s, c)) /\ WithinCaps(WithoutSession(s, c))
         /\ \A g \in Generations : WithoutSession(s, c)[c][g] = Absent
         /\ \A d \in Copies : d # c => WithoutSession(s, c)[d] = s[d]
<1> DEFINE w == WithoutSession(s, c)
<1>1. s \in Store /\ EmptySession \in [Generations -> Slot]
  BY DEF WellFormed, EmptySession, Slot
<1>2. /\ w \in Store
      /\ \A g \in Generations : w[c][g] = Absent
      /\ \A d \in Copies : d # c => w[d] = s[d]
  BY <1>1 DEF WithoutSession, Store, EmptySession
<1> HIDE DEF w
<1>3. "latest" \in Generations /\ "previous" \in Generations
  BY DEF Generations
<1>4. WellFormed(w)
  BY <1>2, <1>3 DEF WellFormed
<1>5. SessionsIn(w) \in SUBSET SessionsIn(s)
  BY <1>2 DEF SessionsIn
<1>6. Cardinality(SessionsIn(w)) <= MaxSessions
  <2>1. Cardinality(SessionsIn(w)) <= Cardinality(SessionsIn(s))
    BY <1>5, FiniteStore, FS_Subset
  <2>2. Cardinality(SessionsIn(w)) \in Nat /\ Cardinality(SessionsIn(s)) \in Nat
    BY FiniteStore, FS_CardinalityType
  <2> QED BY <2>1, <2>2, StoreAssumption DEF WithinCaps
<1>7. TotalBytes(w, OccupiedSlots(w, Copies)) <= MaxTotalBytes
  <2> DEFINE O == OccupiedSlots(w, Copies)
  <2>1. /\ O \in SUBSET OccupiedSlots(s, Copies)
        /\ \A slot \in O : w[slot[1]][slot[2]] = s[slot[1]][slot[2]]
    BY <1>2 DEF OccupiedSlots
  <2> HIDE DEF O
  <2>2. TotalBytes(w, O) = TotalBytes(s, O)
    BY <2>1, BytesAgree
  <2>3. TotalBytes(s, O) <= TotalBytes(s, OccupiedSlots(s, Copies))
    BY <2>1, BytesMonotone
  <2>4. TotalBytes(s, O) \in Nat /\ TotalBytes(s, OccupiedSlots(s, Copies)) \in Nat
    BY <2>1, BytesBound
  <2>5. TotalBytes(w, O) <= MaxTotalBytes
    BY <2>2, <2>3, <2>4, StoreAssumption DEF WithinCaps
  <2> QED BY <2>5 DEF O
<1> QED BY <1>2, <1>4, <1>6, <1>7 DEF w, WithinCaps

\* The store of a new browser keeps the contract.
LEMMA EmptyKeepsContract ==
  WellFormed([c \in Copies |-> EmptySession]) /\ WithinCaps([c \in Copies |-> EmptySession])
<1> DEFINE s == [c \in Copies |-> EmptySession]
<1>1. s \in Store /\ \A c \in Copies, g \in Generations : s[c][g] = Absent
  BY DEF Store, EmptySession, Slot
<1> HIDE DEF s
<1>2. WellFormed(s)
  BY <1>1 DEF WellFormed, Generations
<1>3. SessionsIn(s) = {}
  BY <1>1 DEF SessionsIn
<1>4. OccupiedSlots(s, Copies) = {}
  BY <1>1 DEF OccupiedSlots
<1>5. TotalBytes(s, {}) = 0
  <2>1. UNION {Bytes(s, slot) : slot \in {}} = {}
    OBVIOUS
  <2> QED BY <2>1, FS_EmptySet DEF TotalBytes
<1> QED BY <1>2, <1>3, <1>4, <1>5, FS_EmptySet, StoreAssumption DEF WithinCaps, s
--------------------------------------------------------------------------------
\* The coordinator.

\* The open write carries the head of the chain.
WritesMirror ==
    \A i \in DOMAIN transactions : transactions[i].kind = "write" =>
       /\ Writable(transactions[i].record)
       /\ writeChain # <<>>
       /\ transactions[i].record.text = writeChain[1].text
       /\ transactions[i].record.stagedAt = writeChain[1].stagedAt

\* The migration comes first, and its identity is new.
MigrationIsolated ==
    \A i \in DOMAIN transactions : transactions[i].kind = "migrate" =>
       /\ i = 1
       /\ Writable(transactions[i].record)
       /\ transactions[i].record.owner = transactions[i].record.workingCopyId
       /\ transactions[i].record.workingCopyId # workingCopyId
       /\ transactions[i].record.workingCopyId \notin SessionsIn(stored)

\* Whatever is not yet written was staged after all that is.
StagedBy(s, queue, n) ==
    /\ \A c \in Copies : s[c]["latest"] # Absent => s[c]["latest"].stagedAt <= n
    /\ \A i \in DOMAIN queue : queue[i].kind = "migrate" => queue[i].record.stagedAt <= n

InOrder ==
    /\ StagedBy(stored, transactions, clock)
    /\ \A i \in DOMAIN writeChain :
          /\ StagedBy(stored, transactions, writeChain[i].stagedAt)
          /\ writeChain[i].stagedAt <= clock
          /\ \A j \in DOMAIN writeChain :
                i <= j => writeChain[i].stagedAt <= writeChain[j].stagedAt
          /\ pending # Absent => writeChain[i].stagedAt <= pending.stagedAt
    /\ pending # Absent => /\ StagedBy(stored, transactions, pending.stagedAt)
                           /\ pending.stagedAt <= clock

ContractHolds == WellFormed(stored) /\ WithinCaps(stored)

Gone(snapshot) == <<snapshot.owner, snapshot.stagedAt>> \in discarded

\* No snapshot on its way to the store has been thrown away: later ones bear
\* later stamps, and the dialog opens on a chain the guard has awaited.
NothingGone ==
    /\ \A d \in discarded : d[2] <= clock
    /\ page \in {"asking", "keeping"} => awaited = 0
    /\ pending # Absent => ~Gone(pending)
    /\ \A i \in DOMAIN writeChain : ~Gone(writeChain[i])
    /\ \A i \in DOMAIN transactions :
          transactions[i].kind # "delete" => ~Gone(transactions[i].record)

\* But while the page discards, the last thing staged is the live Project, and
\* once nothing is behind the open write it is filed under the identity in use.
LastIsLive == page # "discarding" =>
    /\ pending # Absent => pending.text = live
    /\ pending = Absent /\ writeChain # <<>> => writeChain[Len(writeChain)].text = live
    /\ pending = Absent /\ Len(writeChain) = 1 =>
          \A i \in DOMAIN transactions : transactions[i].kind = "write" =>
             transactions[i].record.workingCopyId = workingCopyId

IInv ==
    /\ TypeOK
    /\ WritesMirror
    /\ MigrationIsolated
    /\ InOrder
    /\ ContractHolds
    /\ NothingGone
    /\ LastIsLive
    /\ StoredMeansCurrent

--------------------------------------------------------------------------------
\* Types.

LEMMA BootTextType == BootText \in Text
<1> DEFINE n == CHOOSE k \in Sizes : \A m \in Sizes : k <= m
<1>1. \E k \in Sizes : \A m \in Sizes : k <= m
  <2>1. Sizes \in SUBSET Nat /\ Sizes # {}
    BY StoreAssumption
  <2> QED BY <2>1, LeastNumber
<1>2. n \in Sizes
  BY <1>1
<1>3. BootText = [version |-> 0, size |-> n]
  BY DEF BootText
<1> HIDE DEF n
<1> QED BY <1>2, <1>3 DEF Text

LEMMA AbsentIsNone ==
  /\ Absent \notin Record
  /\ MaxCopies \in Nat /\ 1 \in Copies /\ Copies \subseteq Nat
BY StoreAssumption DEF Copies

LEMMA CopyType ==
  ASSUME NEW t \in Transaction
  PROVE  /\ CopyOf(t) \in Copies
         /\ t.kind \in {"write", "migrate", "delete"}
         /\ t.kind # "delete" => t.record \in Record /\ CopyOf(t) = t.record.workingCopyId
         /\ t.kind = "delete" => t.copy \in Copies
<1>1. CASE t \in [kind : {"write", "migrate"}, record : Record]
  BY <1>1 DEF CopyOf, Record
<1>2. CASE t \in [kind : {"delete"}, copy : Copies]
  BY <1>2 DEF CopyOf
<1> QED BY <1>1, <1>2 DEF Transaction

\* No identity in use is the new one, or comes after it.
LEMMA NewCopyIsNew ==
  ASSUME TypeOK
  PROVE  /\ NewCopy \in Nat
         /\ \A c \in TakenCopies : c < NewCopy
         /\ workingCopyId \in TakenCopies
         /\ SessionsIn(stored) \subseteq TakenCopies
         /\ \A i \in DOMAIN transactions : CopyOf(transactions[i]) \in TakenCopies
<1>1. /\ workingCopyId \in TakenCopies
      /\ SessionsIn(stored) \subseteq TakenCopies
      /\ \A i \in DOMAIN transactions : CopyOf(transactions[i]) \in TakenCopies
  BY DEF TakenCopies
<1>2. \A i \in DOMAIN transactions : CopyOf(transactions[i]) \in Copies
  <2> TAKE i \in DOMAIN transactions
  <2>1. transactions[i] \in Transaction
    BY DEF TypeOK
  <2> QED BY <2>1, CopyType
<1>3. TakenCopies \subseteq Copies
  BY <1>2 DEF TakenCopies, TypeOK, SessionsIn
<1> HIDE DEF TakenCopies
<1> DEFINE T == {MaxCopies - c : c \in TakenCopies}
<1>4. \A c \in TakenCopies : c \in 1..MaxCopies
  BY <1>3 DEF Copies
<1>5. T \in SUBSET Nat /\ T # {}
  BY <1>1, <1>4, AbsentIsNone
<1>6. \E n \in T : \A m \in T : n <= m
  BY <1>5, LeastNumber
<1>7. \E c \in TakenCopies : \A d \in TakenCopies : d <= c
  <2>1. PICK c \in TakenCopies : \A d \in TakenCopies : MaxCopies - c <= MaxCopies - d
    BY <1>6
  <2>2. \A d \in TakenCopies : d <= c
    BY <2>1, <1>4, AbsentIsNone
  <2> QED BY <2>2
<1> DEFINE top == CHOOSE c \in TakenCopies : \A d \in TakenCopies : d <= c
<1>8. top \in TakenCopies /\ \A d \in TakenCopies : d <= top
  BY <1>7
<1>9. NewCopy = 1 + top
  BY DEF NewCopy
<1> HIDE DEF top
<1> QED BY <1>1, <1>4, <1>8, <1>9

LEMMA StagedType ==
  ASSUME TypeOK, NEW text \in Text, NEW unsaved \in BOOLEAN, NEW copy \in Copies
  PROVE  /\ Staged(text, unsaved, copy) \in Candidate
         /\ Staged(text, unsaved, copy) # Absent
         /\ Staged(text, unsaved, copy).text = text
         /\ Staged(text, unsaved, copy).stagedAt = clock + 1
         /\ clock + 1 \in Nat
<1>1. clock + 1 \in Nat
  BY ClockAssumption DEF TypeOK
<1>2. Staged(text, unsaved, copy) \in Candidate
  BY <1>1 DEF Staged, Candidate
<1> QED BY <1>1, <1>2, NothingPendingAssumption DEF Staged

LEMMA FirstTransaction ==
  ASSUME TypeOK, transactions # <<>>
  PROVE  /\ Head(transactions) = transactions[1]
         /\ 1 \in DOMAIN transactions
         /\ transactions[1] \in Transaction
BY DEF TypeOK

\* The record of an open write or a migration can be written.
LEMMA FirstIsWritable ==
  ASSUME TypeOK, WritesMirror, MigrationIsolated, transactions # <<>>,
         Head(transactions).kind \in {"write", "migrate"}
  PROVE  Writable(Head(transactions).record)
BY FirstTransaction DEF WritesMirror, MigrationIsolated

--------------------------------------------------------------------------------
\* The store changes by a write of the first transaction or by a delete.

Writes ==
    /\ transactions # <<>>
    /\ Head(transactions).kind \in {"write", "migrate"}
    /\ Writable(Head(transactions).record)
    /\ stored' = WriteRecord(stored, Head(transactions).record)

LEMMA StoreSteps ==
  ASSUME TypeOK, WritesMirror, MigrationIsolated, [Next]_vars
  PROVE  \/ stored' = stored
         \/ \E c \in Copies : stored' = WithoutSession(stored, c)
         \/ Writes /\ (Head(transactions).kind = "write" => CommitWrite)
                   /\ (Head(transactions).kind = "migrate" => Migrate \/ CrashInMigration)
<1>1. CASE Flush \/ BuildRecord \/ FailBeforeWrite \/ AbortWrite
  BY <1>1 DEF Flush, BuildRecord, FailBeforeWrite, AbortWrite, storeVars
<1>2. CASE CommitWrite
  BY <1>2, FirstIsWritable DEF CommitWrite, Writes
<1>3. CASE SettleDelete
  <2>1. Head(transactions).copy \in Copies
    BY <1>3, FirstTransaction, CopyType DEF SettleDelete
  <2> QED BY <1>3, <2>1 DEF SettleDelete
<1>4. CASE Migrate \/ CrashInMigration
  <2>1. /\ transactions # <<>> /\ Head(transactions).kind = "migrate"
        /\ stored' = WriteRecord(stored, Head(transactions).record)
    BY <1>4 DEF Migrate, CrashInMigration
  <2> QED BY <2>1, <1>4, FirstIsWritable DEF Writes
<1>5. CASE AbortMigration \/ Discard \/ Reload \/ RestoreAfterRefresh
  BY <1>5 DEF AbortMigration, Discard, Reload, RestoreAfterRefresh, storeVars
<1>11. CASE \/ SaveProject \/ WriteFile \/ EndSave \/ GuardReplacement
            \/ AskToReplace \/ CancelReplacement \/ SaveAndContinue
  BY <1>11 DEF SaveProject, WriteFile, EndSave, GuardReplacement, AskToReplace,
     CancelReplacement, SaveAndContinue, BeginSave, StageAndFlush, storeVars
<1>6. ASSUME NEW size \in Sizes,
             \/ CommitProject(size) \/ ReplaceProject(size)
             \/ PerformAfterSave(size) \/ PerformAfterDiscard(size)
      PROVE  stored' = stored
  BY <1>6 DEF CommitProject, ReplaceProject, PerformAfterSave, PerformAfterDiscard,
     Install, storeVars
<1>7. ASSUME NEW c \in Copies, NEW g \in Generations,
             DeleteSession(c) \/ Restart(c) \/ RestoreSession(c, g)
      PROVE  stored' = stored
  BY <1>7 DEF DeleteSession, Restart, RestoreSession, Install, storeVars
<1>8. ASSUME NEW unsaved \in BOOLEAN, RefreshApp(unsaved)
      PROVE  stored' = stored
  BY <1>8 DEF RefreshApp, StageAndFlush, storeVars
<1>9. CASE UNCHANGED vars
  BY <1>9 DEF vars
<1>10. "latest" \in Generations
  BY DEF Generations
<1> QED BY <1>1, <1>2, <1>3, <1>4, <1>5, <1>6, <1>7, <1>8, <1>9, <1>10, <1>11
        DEF Next, Write

LEMMA ContractStep ==
  ASSUME TypeOK, WritesMirror, MigrationIsolated, ContractHolds, [Next]_vars
  PROVE  ContractHolds'
<1>1. CASE stored' = stored
  BY <1>1 DEF ContractHolds
<1>2. ASSUME NEW c \in Copies, stored' = WithoutSession(stored, c)
      PROVE  ContractHolds'
  BY <1>2, DeleteKeepsContract DEF ContractHolds
<1>3. CASE Writes
  BY <1>3, WriteKeepsContract DEF Writes, ContractHolds
<1> QED BY <1>1, <1>2, <1>3, StoreSteps

--------------------------------------------------------------------------------
\* Types are kept.

\* The queue of a page that starts: at most a migration, under a new identity.
FirstQueue(queue, copy, now) ==
    \A i \in DOMAIN queue :
       /\ i = 1 /\ queue[i].kind = "migrate" /\ Writable(queue[i].record)
       /\ queue[i].record.owner = copy /\ queue[i].record.workingCopyId = copy
       /\ queue[i].record.stagedAt = now

LEMMA MigrationType ==
  ASSUME NEW text \in Text \cup {Absent}, NEW copy \in Nat, NEW now \in Nat
  PROVE  /\ Migration(text, copy, now) \in Seq(Transaction)
         /\ FirstQueue(Migration(text, copy, now), copy, now)
<1> DEFINE t == [kind |-> "migrate", record |-> LegacyRecord(text, copy, now)]
<1>1. CASE text = Absent \/ copy \notin Copies
  BY <1>1 DEF Migration, FirstQueue
<1>2. CASE ~ (text = Absent \/ copy \notin Copies) /\ text.size > MaxRecordBytes
  BY <1>2 DEF Migration, FirstQueue
<1>3. CASE ~ (text = Absent \/ copy \notin Copies) /\ ~ (text.size > MaxRecordBytes)
  <2>1. Migration(text, copy, now) = <<t>>
    BY <1>3 DEF Migration
  <2>2. text \in Text /\ copy \in Copies /\ text.size <= MaxRecordBytes
    <3>1. text \in Text /\ copy \in Copies
      BY <1>3
    <3>2. text.size \in Nat
      BY <3>1, StoreAssumption DEF Text
    <3> QED BY <3>1, <3>2, <1>3, StoreAssumption
  <2>3. LegacyRecord(text, copy, now) \in Record
    BY <2>2 DEF LegacyRecord, Record
  <2>4. t \in Transaction
    BY <2>3 DEF Transaction
  <2>5. Writable(LegacyRecord(text, copy, now))
    BY <2>2, <2>3 DEF Writable, LegacyRecord
  <2>6. /\ LegacyRecord(text, copy, now).owner = copy
        /\ LegacyRecord(text, copy, now).workingCopyId = copy
        /\ LegacyRecord(text, copy, now).stagedAt = now
    BY DEF LegacyRecord
  <2> QED BY <2>1, <2>4, <2>5, <2>6 DEF FirstQueue
<1> QED BY <1>1, <1>2, <1>3

\* What a page starts with.
LEMMA StartPageEffect ==
  ASSUME TypeOK, NEW next \in Page, NEW copy \in Copies, NEW other \in Nat,
         clock' \in Nat, StartPage(next, copy, other)
  PROVE  /\ workingCopyId' = copy /\ live' \in Text /\ recordCounter' \in Nat
         /\ pending' = Absent /\ writeChain' = <<>> /\ page' = next
         /\ state' = "idle" /\ legacy' = legacy
         /\ transactions' \in Seq(Transaction)
         /\ FirstQueue(transactions', other, clock')
<1>1. legacy \in Text \cup {Absent}
  BY DEF TypeOK
<1>2. transactions' = Migration(legacy, other, clock')
  BY DEF StartPage
<1>3. transactions' \in Seq(Transaction) /\ FirstQueue(transactions', other, clock')
  BY <1>1, <1>2, MigrationType
<1> QED BY <1>3, BootTextType DEF StartPage

LEMMA TailOfQueue ==
  ASSUME NEW S, NEW q \in Seq(S), q # <<>>
  PROVE  /\ Tail(q) \in Seq(S)
         /\ \A i \in DOMAIN Tail(q) : i \in Nat /\ i + 1 \in DOMAIN q /\ Tail(q)[i] = q[i + 1]
         /\ Head(q) = q[1] /\ 1 \in DOMAIN q
OBVIOUS

LEMMA AppendToQueue ==
  ASSUME NEW S, NEW q \in Seq(S), NEW t \in S
  PROVE  /\ Append(q, t) \in Seq(S)
         /\ \A i \in DOMAIN Append(q, t) :
               \/ i \in DOMAIN q /\ Append(q, t)[i] = q[i]
               \/ i = Len(q) + 1 /\ Append(q, t)[i] = t /\ i \notin DOMAIN q
         /\ \A i \in DOMAIN q : i \in DOMAIN Append(q, t) /\ Append(q, t)[i] = q[i]
         /\ Append(q, t) # <<>> /\ Len(Append(q, t)) = Len(q) + 1
         /\ Append(q, t)[Len(q) + 1] = t
OBVIOUS

LEMMA OneLeft ==
  ASSUME NEW S, NEW q \in Seq(S), q # <<>>, Tail(q) = <<>>
  PROVE  Len(q) = 1
<1>1. Len(Tail(q)) = Len(q) - 1 /\ Len(q) \in Nat
  OBVIOUS
<1>2. Len(<<>>) = 0
  OBVIOUS
<1>3. Len(Tail(q)) = 0
  BY <1>2, Zenon
<1>4. \A k, m \in Int : k = m - 1 /\ k = 0 => m = 1
  OBVIOUS
<1>5. Len(Tail(q)) \in Int /\ Len(q) \in Int
  BY <1>1
<1> QED BY <1>1, <1>3, <1>4, <1>5, Zenon

LEMMA NoneLeft ==
  ASSUME NEW S, NEW q \in Seq(S), Len(q) = 0
  PROVE  q = <<>>
OBVIOUS

OneWrite ==
    \A i, j \in DOMAIN transactions :
       transactions[i].kind = "write" /\ transactions[j].kind = "write" => i = j

Shapes ==
    /\ clock \in 0..MaxClock
    /\ live \in Text
    /\ workingCopyId \in Copies
    /\ recordCounter \in Nat
    /\ pending \in Candidate \cup {Absent}
    /\ writeChain \in Seq(Candidate)
    /\ transactions \in Seq(Transaction)
    /\ stored \in Store
    /\ legacy \in Text \cup {Absent}
    /\ state \in {"idle", "pending", "stored", "failed"}
    /\ page \in Page
    /\ awaited \in Nat
    /\ saving \in Save \cup {Absent}
    /\ discarded \subseteq Copies \X Nat

LEMMA TypeParts == TypeOK <=> Shapes /\ OneWrite
BY DEF TypeOK, Shapes, OneWrite

\* What the steps other than the coordinator's own do, told apart by what the
\* invariant speaks of.

Staging ==
    /\ clock' = clock + 1 /\ clock' \in Nat
    /\ pending' \in Candidate /\ pending' # Absent
    /\ pending'.text = live' /\ live' \in Text
    /\ pending'.stagedAt = clock'
    /\ page' # "discarding"

\* A commit, the end of a refresh, a step of the dialog, or nothing at all.
Edits ==
    /\ UNCHANGED <<transactions, writeChain, workingCopyId, stored>>
    /\ \/ Staging /\ page # "discarding"
       \/ /\ UNCHANGED <<clock, live, pending, state>>
          /\ page' = "discarding" <=> page = "discarding"

\* A replacement or a restore forks the identity.
Forks ==
    /\ UNCHANGED <<transactions, writeChain, stored>>
    /\ Staging
    /\ workingCopyId' = NewCopy /\ NewCopy \in Copies

Deletes ==
    /\ \E c \in Copies : transactions' = Append(transactions, [kind |-> "delete", copy |-> c])
    /\ UNCHANGED <<writeChain, workingCopyId, stored, live, state>>
    /\ clock' = clock + 1
    /\ \/ pending' = pending /\ page' = page
       \/ pending' = Absent /\ page' = "discarding"

Starts ==
    /\ transactions' \in Seq(Transaction)
    /\ \E other \in Nat : /\ FirstQueue(transactions', other, clock')
                          /\ other \notin TakenCopies /\ other # workingCopyId'
    /\ workingCopyId' \in Copies /\ clock' \in {clock, clock + 1}
    /\ pending' = Absent /\ writeChain' = <<>> /\ page' # "discarding"
    /\ state' = "idle"
    /\ stored' = stored \/ CrashInMigration

NewPage == Reload \/ CrashInMigration \/ \E c \in Copies : Restart(c)

LEMMA PageStarts ==
  ASSUME TypeOK, NewPage
  PROVE  Starts
<1>1. ASSUME NEW next \in Page \ {"discarding"}, NEW copy \in Copies, NEW other \in Nat,
             clock' \in {clock, clock + 1}, StartPage(next, copy, other),
             other \notin TakenCopies, other # copy,
             stored' = stored \/ CrashInMigration
      PROVE  Starts
  <2>1. clock' \in Nat
    BY <1>1, ClockAssumption DEF TypeOK
  <2> QED BY <2>1, <1>1, StartPageEffect DEF Starts
<1>2. CASE Reload
  <2>1. /\ StartPage("restoring", workingCopyId, NewCopy)
        /\ clock' = clock /\ stored' = stored
    BY <1>2 DEF Reload
  <2>2. NewCopy \notin TakenCopies /\ NewCopy # workingCopyId /\ NewCopy \in Nat
    BY NewCopyIsNew
  <2> QED BY <2>1, <2>2, <1>1 DEF Page, TypeOK
<1>3. ASSUME NEW c \in Copies, Restart(c)
      PROVE  Starts
  <2> DEFINE other == IF c = NewCopy THEN c + 1 ELSE NewCopy
  <2>1. /\ StartPage("running", c, other)
        /\ clock' = clock + 1 /\ stored' = stored
        /\ c \in {workingCopyId, NewCopy}
    BY <1>3 DEF Restart, Tick
  <2>2. /\ NewCopy \in Nat /\ workingCopyId \in TakenCopies
        /\ \A d \in TakenCopies : d < NewCopy
    BY NewCopyIsNew
  <2>3. TakenCopies \subseteq Int
    <3>1. \A i \in DOMAIN transactions : CopyOf(transactions[i]) \in Copies
      <4> TAKE i \in DOMAIN transactions
      <4>1. transactions[i] \in Transaction
        BY DEF TypeOK
      <4> QED BY <4>1, CopyType
    <3>2. {CopyOf(transactions[i]) : i \in DOMAIN transactions} \subseteq Copies
      BY <3>1
    <3>3. workingCopyId \in Copies /\ SessionsIn(stored) \subseteq Copies
      BY DEF TypeOK, SessionsIn
    <3>4. Copies \subseteq Int
      BY DEF Copies
    <3> QED BY <3>2, <3>3, <3>4 DEF TakenCopies
  <2>4. other \in Nat /\ other \notin TakenCopies /\ other # c
    BY <2>1, <2>2, <2>3
  <2> HIDE DEF other
  <2> QED BY <2>1, <2>4, <1>1 DEF Page
<1>4. CASE CrashInMigration
  <2>1. /\ StartPage("running", workingCopyId, NewCopy) /\ clock' = clock + 1
    BY <1>4 DEF CrashInMigration, Tick
  <2>2. NewCopy \notin TakenCopies /\ NewCopy # workingCopyId /\ NewCopy \in Nat
    BY NewCopyIsNew
  <2> QED BY <2>1, <2>2, <1>1, <1>4 DEF Page, TypeOK
<1> QED BY <1>2, <1>3, <1>4 DEF NewPage

LEMMA StepsOfPage ==
  ASSUME TypeOK, [Next]_vars, ~NewPage
  PROVE  \/ Flush \/ BuildRecord \/ FailBeforeWrite \/ CommitWrite \/ AbortWrite
         \/ SettleDelete \/ Migrate \/ AbortMigration
         \/ \E unsaved \in BOOLEAN : StageAndFlush(unsaved)
         \/ Edits \/ Forks \/ Deletes
<1>1. ASSUME NEW text \in Text, NEW unsaved \in BOOLEAN, NEW copy \in Copies, Tick,
             live' = text, pending' = Staged(text, unsaved, copy), page' # "discarding"
      PROVE  Staging
  <2>1. clock' = clock + 1
    BY <1>1 DEF Tick
  <2> QED BY <1>1, <2>1, StagedType DEF Staging
<1>2. /\ live \in Text /\ workingCopyId \in Copies
      /\ \A size \in Sizes : [version |-> clock + 1, size |-> size] \in Text
  BY ClockAssumption DEF TypeOK, Text
<1>3. ASSUME EndSave \/ AskToReplace \/ CancelReplacement
      PROVE  Edits
  BY <1>3 DEF EndSave, AskToReplace, CancelReplacement, Edits, storeVars
<1>13. ASSUME SaveProject \/ WriteFile \/ GuardReplacement
       PROVE  \E unsaved \in BOOLEAN : StageAndFlush(unsaved)
  <2>1. CASE WriteFile
    <3> DEFINE unsaved == live # saving.text
    <3>1. unsaved \in BOOLEAN
      OBVIOUS
    <3>2. StageAndFlush(unsaved)
      BY <2>1 DEF WriteFile
    <3> HIDE DEF unsaved
    <3> QED BY <3>1, <3>2
  <2>2. CASE SaveProject \/ GuardReplacement
    <3>1. StageAndFlush(TRUE)
      BY <2>2 DEF SaveProject, GuardReplacement, BeginSave
    <3> QED BY <3>1
  <2> QED BY <1>13, <2>1, <2>2
<1>14. ASSUME SaveAndContinue
       PROVE  Edits \/ \E unsaved \in BOOLEAN : StageAndFlush(unsaved)
  <2>1. CASE BeginSave
    <3>1. StageAndFlush(TRUE)
      BY <2>1 DEF BeginSave
    <3> QED BY <3>1
  <2>2. CASE ~BeginSave
    BY <1>14, <2>2 DEF SaveAndContinue, Edits, storeVars
  <2> QED BY <2>1, <2>2
<1>15. ASSUME NEW unsaved \in BOOLEAN, RefreshApp(unsaved)
       PROVE  StageAndFlush(unsaved)
  BY <1>15 DEF RefreshApp
<1>4. ASSUME NEW size \in Sizes, CommitProject(size)
      PROVE  Edits
  <2>1. /\ Tick /\ live' = [version |-> clock + 1, size |-> size]
        /\ pending' = Staged(live', TRUE, workingCopyId)
        /\ page # "discarding" /\ page' = page
        /\ UNCHANGED <<transactions, writeChain, workingCopyId, stored>>
    BY <1>4 DEF CommitProject, Modal, storeVars, pageVars
  <2>2. Staging
    BY <1>1, <1>2, <2>1
  <2> QED BY <2>1, <2>2 DEF Edits
<1>5. ASSUME RestoreAfterRefresh
      PROVE  Edits
  <2>1. /\ page = "restoring" /\ page' = "running"
        /\ UNCHANGED <<transactions, writeChain, workingCopyId, stored, state>>
    BY <1>5 DEF RestoreAfterRefresh, storeVars
  <2>2. CASE stored[workingCopyId]["latest"] = Absent
    BY <1>5, <2>1, <2>2 DEF RestoreAfterRefresh, Edits
  <2>3. CASE stored[workingCopyId]["latest"] # Absent
    <3>1. /\ stored[workingCopyId]["latest"].text \in Text
          /\ stored[workingCopyId]["latest"].unsaved \in BOOLEAN
      <4>1. stored \in Store /\ "latest" \in Generations
        BY DEF TypeOK, Generations
      <4>2. stored[workingCopyId]["latest"] \in Record
        BY <2>3, <4>1, <1>2, StoreTypes
      <4> QED BY <4>2 DEF Record
    <3>2. /\ Tick /\ live' = stored[workingCopyId]["latest"].text
          /\ pending' = Staged(live', stored[workingCopyId]["latest"].unsaved, workingCopyId)
      BY <1>5, <2>3 DEF RestoreAfterRefresh
    <3>3. Staging
      BY <1>1, <1>2, <2>1, <3>1, <3>2
    <3> QED BY <2>1, <3>3 DEF Edits
  <2> QED BY <2>2, <2>3
<1>6. ASSUME UNCHANGED vars
      PROVE  Edits
  BY <1>6 DEF vars, Edits
<1>7. ASSUME NEW text \in Text, NEW unsaved \in BOOLEAN, Install(text, unsaved)
      PROVE  Forks
  <2>1. /\ Tick /\ NewCopy \in Copies /\ workingCopyId' = NewCopy
        /\ live' = text /\ page' = "running"
        /\ pending' = Staged(text, unsaved, workingCopyId')
        /\ UNCHANGED <<transactions, writeChain, stored>>
    BY <1>7 DEF Install, storeVars
  <2>2. Staging
    BY <1>1, <1>7, <2>1
  <2> QED BY <2>1, <2>2 DEF Forks
<1>8. ASSUME NEW size \in Sizes,
             ReplaceProject(size) \/ PerformAfterSave(size) \/ PerformAfterDiscard(size)
      PROVE  Forks
  BY <1>8, <1>2, <1>7 DEF ReplaceProject, PerformAfterSave, PerformAfterDiscard
<1>9. ASSUME NEW c \in Copies, NEW g \in Generations, RestoreSession(c, g)
      PROVE  Forks
  <2>1. stored[c][g].text \in Text
    BY <1>9, StoreTypes DEF RestoreSession, TypeOK
  <2> QED BY <2>1, <1>9, <1>7 DEF RestoreSession
<1>10. ASSUME NEW c \in Copies, DeleteSession(c)
       PROVE  Deletes
  BY <1>10 DEF DeleteSession, Deletes, Tick, pageVars
<1>11. ASSUME Discard
       PROVE  Deletes
  BY <1>11, <1>2 DEF Discard, Deletes, Tick
<1>12. CASE Next
  BY <1>12, <1>3, <1>4, <1>5, <1>8, <1>9, <1>10, <1>11, <1>13, <1>14, <1>15
  DEF Next, Write, NewPage
<1> QED BY <1>6, <1>12

LEMMA Steps ==
  ASSUME TypeOK, [Next]_vars
  PROVE  \/ Flush \/ BuildRecord \/ FailBeforeWrite \/ CommitWrite \/ AbortWrite
         \/ SettleDelete \/ Migrate \/ AbortMigration
         \/ \E unsaved \in BOOLEAN : StageAndFlush(unsaved)
         \/ Edits \/ Forks \/ Deletes \/ Starts
BY StepsOfPage, PageStarts

\* What the page is busy with, what it awaits and what it has thrown away.
LEMMA PageShapesStep ==
  ASSUME TypeOK, [Next]_vars, writeChain' \in Seq(Candidate), clock' \in Nat
  PROVE  /\ page' \in Page /\ awaited' \in Nat
         /\ saving' \in Save \cup {Absent}
         /\ discarded' \subseteq Copies \X Nat
<1> DEFINE Shaped == /\ page' \in Page /\ awaited' \in Nat
                     /\ saving' \in Save \cup {Absent}
                     /\ discarded' \subseteq Copies \X Nat
<1>1. /\ page \in Page /\ awaited \in Nat /\ saving \in Save \cup {Absent}
      /\ discarded \subseteq Copies \X Nat /\ live \in Text
      /\ workingCopyId \in Copies /\ Len(writeChain') \in Nat
  BY DEF TypeOK
<1>2. OneLess(awaited) \in Nat
  BY <1>1 DEF OneLess
<1>3. saving # Absent =>
         /\ saving \in Save
         /\ [saving EXCEPT !.awaited = OneLess(@)] \in Save
         /\ [saving EXCEPT !.text = Absent] \in Save
         /\ [saving EXCEPT !.awaited = Len(writeChain'), !.written = TRUE] \in Save
  <2> SUFFICES ASSUME saving # Absent
               PROVE  /\ saving \in Save
                      /\ [saving EXCEPT !.awaited = OneLess(@)] \in Save
                      /\ [saving EXCEPT !.text = Absent] \in Save
                      /\ [saving EXCEPT !.awaited = Len(writeChain'), !.written = TRUE]
                            \in Save
    OBVIOUS
  <2>1. saving \in Save
    BY <1>1
  <2>2. OneLess(saving.awaited) \in Nat
    BY <2>1 DEF Save, OneLess
  <2>3. \A n \in Nat : [saving EXCEPT !.awaited = n] \in Save
    BY <2>1 DEF Save
  <2>4. [saving EXCEPT !.text = Absent] \in Save
    BY <2>1 DEF Save
  <2>5. [saving EXCEPT !.awaited = Len(writeChain'), !.written = TRUE] \in Save
    BY <2>1, <1>1 DEF Save
  <2> QED BY <2>1, <2>2, <2>3, <2>4, <2>5
<1>4. CASE SettleLink /\ UNCHANGED <<page, discarded>>
  BY <1>1, <1>2, <1>3, <1>4 DEF SettleLink
<1>5. CASE FailBeforeWrite \/ CommitWrite \/ AbortWrite
  BY <1>4, <1>5 DEF FailBeforeWrite, CommitWrite, AbortWrite
<1>6. CASE UNCHANGED pageVars
  BY <1>1, <1>6 DEF pageVars
<1>7. CASE Flush \/ BuildRecord \/ SettleDelete \/ Migrate \/ AbortMigration
  BY <1>6, <1>7 DEF Flush, BuildRecord, SettleDelete, Migrate, AbortMigration
<1>8. CASE UNCHANGED vars
  BY <1>1, <1>8 DEF vars
<1>9. BeginSave => saving' \in Save
  BY <1>1 DEF BeginSave, Save
<1>10. CASE SaveProject \/ WriteFile \/ EndSave
  BY <1>1, <1>3, <1>9, <1>10 DEF SaveProject, WriteFile, EndSave, Page
<1>11. CASE GuardReplacement \/ AskToReplace \/ CancelReplacement \/ SaveAndContinue
  BY <1>1, <1>9, <1>11
  DEF GuardReplacement, AskToReplace, CancelReplacement, SaveAndContinue, Page
<1>12. CASE Discard
  <2>1. ThrownAway \subseteq Copies \X Nat
    BY <1>1 DEF ThrownAway
  <2> QED BY <1>1, <1>12, <2>1 DEF Discard, Page
<1>13. ASSUME NEW text, NEW unsaved, Install(text, unsaved),
              saving' \in {SaveOfGone, Absent}
       PROVE  Shaped
  BY <1>1, <1>3, <1>13 DEF Install, SaveOfGone, Page
<1>14. ASSUME NEW size \in Sizes,
              ReplaceProject(size) \/ PerformAfterSave(size) \/ PerformAfterDiscard(size)
       PROVE  Shaped
  BY <1>13, <1>14 DEF ReplaceProject, PerformAfterSave, PerformAfterDiscard
<1>15. ASSUME NEW size \in Sizes, CommitProject(size)
       PROVE  Shaped
  BY <1>6, <1>15 DEF CommitProject
<1>16. ASSUME NEW c \in Copies, NEW g \in Generations, RestoreSession(c, g)
       PROVE  Shaped
  BY <1>13, <1>16 DEF RestoreSession
<1>17. ASSUME NEW c \in Copies, DeleteSession(c)
       PROVE  Shaped
  BY <1>6, <1>17 DEF DeleteSession
<1>18. ASSUME NEW unsaved \in BOOLEAN, RefreshApp(unsaved)
       PROVE  Shaped
  BY <1>1, <1>18 DEF RefreshApp, Page
<1>19. ASSUME NEW next \in Page, NEW copy, NEW other, StartPage(next, copy, other)
       PROVE  Shaped
  BY <1>19 DEF StartPage
<1>20. CASE Reload \/ CrashInMigration
  <2>1. \E next \in {"running", "restoring"} : StartPage(next, workingCopyId, NewCopy)
    BY <1>20 DEF Reload, CrashInMigration
  <2> QED BY <2>1, <1>19 DEF Page
<1>21. ASSUME NEW c \in Copies, Restart(c)
       PROVE  Shaped
  BY <1>19, <1>21 DEF Restart, Page
<1>22. CASE RestoreAfterRefresh
  <2>1. saving' \in {saving, SaveOfGone}
    BY <1>22 DEF RestoreAfterRefresh
  <2> QED BY <1>1, <1>3, <1>22, <2>1 DEF RestoreAfterRefresh, SaveOfGone, Page
<1> HIDE DEF Shaped
<1>23. Shaped
  BY <1>5, <1>7, <1>8, <1>10, <1>11, <1>12, <1>14, <1>15, <1>16, <1>17, <1>18,
     <1>20, <1>21, <1>22, Zenon DEF Next, Write, Shaped
<1> QED BY <1>23 DEF Shaped

LEMMA ShapesStep ==
  ASSUME TypeOK, WritesMirror, MigrationIsolated, ContractHolds, [Next]_vars
  PROVE  Shapes'
<1>1. stored' \in Store
  BY ContractStep DEF ContractHolds, WellFormed
<1>2. transactions' \in Seq(Transaction) /\ workingCopyId' \in Copies
  <2>1. transactions \in Seq(Transaction) /\ workingCopyId \in Copies
    BY DEF TypeOK
  <2>2. CASE BuildRecord
    <3>1. writeChain[1] \in Candidate /\ Head(writeChain) = writeChain[1]
      BY <2>2 DEF BuildRecord, LinkToStart, TypeOK
    <3>2. RecordOf(Head(writeChain)) \in Record
      BY <3>1, ClockAssumption DEF RecordOf, Record, Candidate, TypeOK
    <3>3. [kind |-> "write", record |-> RecordOf(Head(writeChain))] \in Transaction
      BY <3>2 DEF Transaction
    <3> QED BY <2>1, <2>2, <3>3 DEF BuildRecord
  <2>3. CASE Deletes
    <3>1. \A c \in Copies : [kind |-> "delete", copy |-> c] \in Transaction
      BY DEF Transaction
    <3> QED BY <2>1, <2>3, <3>1, AppendToQueue DEF Deletes
  <2>4. CASE CommitWrite \/ AbortWrite \/ SettleDelete \/ Migrate \/ AbortMigration
    <3>1. /\ transactions # <<>> /\ transactions' = Tail(transactions)
          /\ workingCopyId' = workingCopyId
      BY <2>4 DEF CommitWrite, AbortWrite, SettleDelete, Migrate, AbortMigration
    <3> QED BY <2>1, <3>1, TailOfQueue
  <2>5. CASE Flush \/ FailBeforeWrite \/ Edits
    BY <2>1, <2>5 DEF Flush, FailBeforeWrite, Edits, storeVars
  <2>6. ASSUME NEW unsaved \in BOOLEAN, StageAndFlush(unsaved)
        PROVE  transactions' = transactions /\ workingCopyId' = workingCopyId
    BY <2>6 DEF StageAndFlush, storeVars
  <2>7. CASE Forks \/ Starts
    BY <2>1, <2>7 DEF Forks, Starts
  <2> QED BY <2>1, <2>2, <2>3, <2>4, <2>5, <2>6, <2>7, Steps
<1>3. /\ clock \in 0..MaxClock /\ live \in Text /\ recordCounter \in Nat
      /\ pending \in Candidate \cup {Absent} /\ writeChain \in Seq(Candidate)
      /\ legacy \in Text \cup {Absent}
      /\ state \in {"idle", "pending", "stored", "failed"}
      /\ workingCopyId \in Copies
  BY DEF TypeOK
<1> DEFINE Rest == /\ clock' \in 0..MaxClock /\ live' \in Text /\ recordCounter' \in Nat
                   /\ pending' \in Candidate \cup {Absent} /\ writeChain' \in Seq(Candidate)
                   /\ legacy' \in Text \cup {Absent}
                   /\ state' \in {"idle", "pending", "stored", "failed"}
<1>4. Tick => clock' \in 0..MaxClock /\ clock' \in Nat
  BY <1>3, ClockAssumption DEF Tick
<1>5. \A size \in Sizes : [version |-> clock + 1, size |-> size] \in Text
  BY <1>3, ClockAssumption DEF Text
<1>6. Flush \/ BuildRecord \/ FailBeforeWrite \/ CommitWrite \/ AbortWrite => Rest
  <2>1. Flush => Rest
    BY <1>3 DEF Flush, storeVars
  <2>2. BuildRecord => Rest
    BY <1>3 DEF BuildRecord
  <2>3. FailBeforeWrite => Rest
    BY <1>3 DEF FailBeforeWrite, SettleLink, LinkToStart, storeVars
  <2>4. CommitWrite \/ AbortWrite => Rest
    <3>1. ASSUME CommitWrite \/ AbortWrite
          PROVE  Tail(writeChain) \in Seq(Candidate)
      <4>1. writeChain # <<>>
        BY <3>1, FirstTransaction DEF CommitWrite, AbortWrite, WritesMirror
      <4> QED BY <4>1, <1>3
    <3> QED BY <3>1, <1>3 DEF CommitWrite, AbortWrite, SettleLink
  <2> QED BY <2>1, <2>2, <2>3, <2>4
<1>7. SettleDelete \/ AbortMigration \/ UNCHANGED vars => Rest
  BY <1>3 DEF SettleDelete, AbortMigration, vars
<1>8. Migrate => Rest
  BY <1>3 DEF Migrate
<1>9. \A unsaved \in BOOLEAN, copy \in Copies, text \in Text :
         Staged(text, unsaved, copy) \in Candidate
  BY StagedType
<1>10. EndSave \/ AskToReplace \/ CancelReplacement => Rest
  BY <1>3 DEF EndSave, AskToReplace, CancelReplacement, storeVars
<1>11. ASSUME NEW size \in Sizes, CommitProject(size)
       PROVE  Rest
  <2>1. /\ live' = [version |-> clock + 1, size |-> size]
        /\ pending' = Staged(live', TRUE, workingCopyId)
    BY <1>11 DEF CommitProject
  <2>2. live' \in Text /\ pending' \in Candidate
    BY <2>1, <1>3, <1>5, <1>9
  <2> QED BY <1>11, <2>2, <1>3, <1>4 DEF CommitProject, storeVars
<1>12. ASSUME NEW text \in Text, NEW unsaved \in BOOLEAN, Install(text, unsaved)
       PROVE  Rest
  <2>1. workingCopyId' \in Copies /\ pending' = Staged(text, unsaved, workingCopyId')
    BY <1>12 DEF Install
  <2>2. pending' \in Candidate
    BY <2>1, <1>9
  <2> QED BY <1>12, <2>2, <1>3, <1>4 DEF Install, storeVars
<1>13. ASSUME NEW size \in Sizes,
              ReplaceProject(size) \/ PerformAfterSave(size) \/ PerformAfterDiscard(size)
       PROVE  Rest
  BY <1>13, <1>5, <1>12 DEF ReplaceProject, PerformAfterSave, PerformAfterDiscard
<1>14. ASSUME NEW c \in Copies, NEW g \in Generations, RestoreSession(c, g)
       PROVE  Rest
  <2>1. stored[c][g].text \in Text
    BY <1>14, StoreTypes DEF RestoreSession, TypeOK
  <2> QED BY <2>1, <1>14, <1>12 DEF RestoreSession
<1>15. ASSUME NEW c \in Copies, DeleteSession(c)
       PROVE  Rest
  BY <1>15, <1>3, <1>4 DEF DeleteSession
<1>16. Discard => Rest
  BY <1>3, <1>4 DEF Discard
<1>17. ASSUME NEW unsaved \in BOOLEAN, StageAndFlush(unsaved)
       PROVE  Rest
  <2>1. Staged(live, unsaved, workingCopyId) \in Candidate
    BY <1>3, <1>9
  <2>2. writeChain' \in Seq(Candidate)
    BY <1>17, <2>1, <1>3 DEF StageAndFlush
  <2> QED BY <1>17, <2>2, <1>3, <1>4 DEF StageAndFlush, storeVars
<1>24. SaveProject \/ WriteFile \/ GuardReplacement => Rest
  <2>1. \A unsaved \in BOOLEAN : StageAndFlush(unsaved) => Rest
    BY <1>17
  <2>2. ASSUME WriteFile
        PROVE  Rest
    <3> DEFINE unsaved == live # saving.text
    <3>1. unsaved \in BOOLEAN /\ StageAndFlush(unsaved)
      BY <2>2 DEF WriteFile
    <3> HIDE DEF unsaved, Rest
    <3> QED BY <2>1, <3>1
  <2>3. SaveProject \/ GuardReplacement => StageAndFlush(TRUE)
    BY DEF SaveProject, GuardReplacement, BeginSave
  <2> HIDE DEF Rest
  <2> QED BY <2>1, <2>2, <2>3
<1>25. SaveAndContinue => Rest
  <2>1. BeginSave => StageAndFlush(TRUE)
    BY DEF BeginSave
  <2>2. SaveAndContinue /\ ~BeginSave => Rest
    BY <1>3 DEF SaveAndContinue, storeVars
  <2> HIDE DEF Rest
  <2> QED BY <1>17, <2>1, <2>2
<1>26. ASSUME NEW unsaved \in BOOLEAN, RefreshApp(unsaved)
       PROVE  Rest
  <2> HIDE DEF Rest
  <2> QED BY <1>17, <1>26 DEF RefreshApp
<1>18. ASSUME NEW next \in Page, NEW copy, NEW other, StartPage(next, copy, other),
              clock' \in 0..MaxClock
       PROVE  Rest
  BY <1>18, <1>3, BootTextType DEF StartPage
<1>19. Reload => Rest
  <2>1. Reload => clock' = clock /\ StartPage("restoring", workingCopyId, NewCopy)
    BY DEF Reload
  <2> QED BY <2>1, <1>3, <1>18 DEF Page
<1>20. ASSUME NEW c \in Copies, Restart(c)
       PROVE  Rest
  BY <1>20, <1>4, <1>18 DEF Restart, Page
<1>21. CrashInMigration => Rest
  BY <1>4, <1>18 DEF CrashInMigration, Page
<1>22. ASSUME RestoreAfterRefresh
       PROVE  Rest
  <2>1. CASE stored[workingCopyId]["latest"] = Absent
    BY <1>22, <2>1, <1>3 DEF RestoreAfterRefresh, storeVars
  <2>2. CASE stored[workingCopyId]["latest"] # Absent
    <3>1. /\ stored[workingCopyId]["latest"].text \in Text
          /\ stored[workingCopyId]["latest"].unsaved \in BOOLEAN
      <4>1. stored \in Store /\ "latest" \in Generations
        BY DEF TypeOK, Generations
      <4>2. stored[workingCopyId]["latest"] \in Record
        BY <2>2, <4>1, <1>3, StoreTypes
      <4> QED BY <4>2 DEF Record
    <3>2. /\ Tick /\ live' = stored[workingCopyId]["latest"].text
          /\ pending' = Staged(live', stored[workingCopyId]["latest"].unsaved, workingCopyId)
      BY <1>22, <2>2 DEF RestoreAfterRefresh
    <3>3. pending' \in Candidate
      BY <3>1, <3>2, <1>3, <1>9
    <3> QED BY <1>22, <3>1, <3>2, <3>3, <1>3, <1>4 DEF RestoreAfterRefresh, storeVars
  <2> QED BY <2>1, <2>2
<1> HIDE DEF Rest
<1>23. Rest
  <2>1. CASE Next
    BY <2>1, <1>6, <1>7, <1>8, <1>10, <1>11, <1>13, <1>14, <1>15, <1>16, <1>19,
       <1>20, <1>21, <1>22, <1>24, <1>25, <1>26 DEF Next, Write
  <2>2. CASE UNCHANGED vars
    BY <2>2, <1>7
  <2> QED BY <2>1, <2>2
<1>27. clock' \in Nat
  BY <1>23, ClockAssumption DEF Rest
<1> QED BY <1>1, <1>2, <1>23, <1>27, PageShapesStep DEF Rest, Shapes

--------------------------------------------------------------------------------
\* The queue.

\* What an append and a removal leave of the queue.
LEMMA Shortened ==
  ASSUME TypeOK, CommitWrite \/ AbortWrite \/ SettleDelete \/ Migrate \/ AbortMigration
  PROVE  /\ transactions # <<>> /\ transactions' = Tail(transactions)
         /\ 1 \in DOMAIN transactions /\ Head(transactions) = transactions[1]
         /\ \A i \in DOMAIN transactions' :
               /\ i \in Nat /\ i + 1 \in DOMAIN transactions /\ i + 1 # 1
               /\ transactions'[i] = transactions[i + 1]
         /\ UNCHANGED <<clock, live, pending, page, workingCopyId, recordCounter>>
<1>1. /\ transactions # <<>> /\ transactions' = Tail(transactions)
      /\ UNCHANGED <<clock, live, pending, page, workingCopyId, recordCounter>>
  BY DEF CommitWrite, AbortWrite, SettleDelete, Migrate, AbortMigration, pageVars
<1>2. transactions \in Seq(Transaction)
  BY DEF TypeOK
<1>3. /\ \A i \in DOMAIN Tail(transactions) :
            /\ i \in Nat /\ i + 1 \in DOMAIN transactions
            /\ Tail(transactions)[i] = transactions[i + 1]
      /\ Head(transactions) = transactions[1] /\ 1 \in DOMAIN transactions
  BY <1>1, <1>2, TailOfQueue
<1>4. \A i \in Nat : i + 1 # 1 \/ i = 0
  OBVIOUS
<1>5. \A i \in DOMAIN Tail(transactions) : i # 0
  BY <1>1, <1>2
<1> QED BY <1>1, <1>3, <1>4, <1>5

LEMMA Extended ==
  ASSUME TypeOK, NEW t \in Transaction, transactions' = Append(transactions, t)
  PROVE  /\ \A i \in DOMAIN transactions' :
               \/ i \in DOMAIN transactions /\ transactions'[i] = transactions[i]
               \/ i \notin DOMAIN transactions /\ transactions'[i] = t
         /\ \A i, j \in DOMAIN transactions' :
               i \notin DOMAIN transactions /\ j \notin DOMAIN transactions => i = j
<1>1. transactions \in Seq(Transaction)
  BY DEF TypeOK
<1> QED BY <1>1, AppendToQueue

LEMMA DeleteIsTransaction ==
  ASSUME NEW c \in Copies
  PROVE  /\ [kind |-> "delete", copy |-> c] \in Transaction
         /\ [kind |-> "delete", copy |-> c].kind = "delete"
BY DEF Transaction

\* What the chain's head becomes.
LEMMA BuiltRecord ==
  ASSUME TypeOK, BuildRecord
  PROVE  LET t == [kind |-> "write", record |-> RecordOf(Head(writeChain))]
         IN  /\ t \in Transaction /\ t.kind = "write"
             /\ transactions' = Append(transactions, t)
             /\ Writable(t.record)
             /\ writeChain # <<>> /\ writeChain' = writeChain
             /\ t.record.text = writeChain[1].text
             /\ t.record.stagedAt = writeChain[1].stagedAt
             /\ t.record.owner = writeChain[1].owner
             /\ t.record.workingCopyId = workingCopyId
             /\ UNCHANGED <<clock, live, workingCopyId, pending, stored, state, page,
                            discarded>>
             /\ \A i \in DOMAIN transactions : transactions[i].kind # "write"
<1> DEFINE t == [kind |-> "write", record |-> RecordOf(Head(writeChain))]
           r == RecordOf(Head(writeChain))
<1>1. /\ writeChain # <<>> /\ writeChain[1] \in Candidate
      /\ Head(writeChain) = writeChain[1]
      /\ Head(writeChain).text.size <= MaxRecordBytes
      /\ \A i \in DOMAIN transactions : transactions[i].kind # "write"
  BY DEF BuildRecord, LinkToStart, WriteInFlight, TypeOK
<1>2. /\ r \in Record
      /\ r.recordId[1] = r.workingCopyId
      /\ r.text = writeChain[1].text
      /\ r.stagedAt = writeChain[1].stagedAt
      /\ r.owner = writeChain[1].owner
      /\ r.workingCopyId = workingCopyId
  BY <1>1, ClockAssumption DEF RecordOf, Record, Candidate, TypeOK
<1>3. Writable(r)
  BY <1>1, <1>2 DEF Writable
<1>4. t \in Transaction
  BY <1>2 DEF Transaction
<1>5. /\ transactions' = Append(transactions, t) /\ writeChain' = writeChain
      /\ UNCHANGED <<clock, live, workingCopyId, pending, stored, state, page, discarded>>
  BY DEF BuildRecord, pageVars
<1> HIDE DEF r
<1> QED BY <1>1, <1>2, <1>3, <1>4, <1>5 DEF r

LEMMA OneWriteStep ==
  ASSUME TypeOK, [Next]_vars
  PROVE  OneWrite'
<1>1. OneWrite
  BY TypeParts
<1>2. CASE BuildRecord
  BY <1>2, BuiltRecord, Extended DEF OneWrite
<1>3. CASE Deletes
  <2>1. PICK c \in Copies : transactions' = Append(transactions, [kind |-> "delete", copy |-> c])
    BY <1>3 DEF Deletes
  <2> DEFINE t == [kind |-> "delete", copy |-> c]
  <2>2. t \in Transaction /\ t.kind # "write"
    BY DeleteIsTransaction
  <2> HIDE DEF t
  <2>3. \A i \in DOMAIN transactions' :
           \/ i \in DOMAIN transactions /\ transactions'[i] = transactions[i]
           \/ transactions'[i] = t
    BY <2>1, <2>2, Extended DEF t
  <2> QED BY <2>2, <2>3, <1>1 DEF OneWrite
<1>4. CASE CommitWrite \/ AbortWrite \/ SettleDelete \/ Migrate \/ AbortMigration
  <2>1. \A i \in DOMAIN transactions' :
           /\ i \in Nat /\ i + 1 \in DOMAIN transactions
           /\ transactions'[i] = transactions[i + 1]
    BY <1>4, Shortened
  <2>2. \A i, j \in Nat : i + 1 = j + 1 => i = j
    OBVIOUS
  <2> QED BY <2>1, <2>2, <1>1 DEF OneWrite
<1>5. CASE Flush \/ FailBeforeWrite \/ Edits \/ Forks
  BY <1>1, <1>5 DEF Flush, FailBeforeWrite, Edits, Forks, storeVars, OneWrite
<1>6. ASSUME NEW unsaved \in BOOLEAN, StageAndFlush(unsaved)
      PROVE  OneWrite'
  BY <1>1, <1>6 DEF StageAndFlush, storeVars, OneWrite
<1>7. CASE Starts
  BY <1>7 DEF Starts, FirstQueue, OneWrite
<1> QED BY <1>2, <1>3, <1>4, <1>5, <1>6, <1>7, Steps

LEMMA WritesMirrorStep ==
  ASSUME TypeOK, WritesMirror, [Next]_vars
  PROVE  WritesMirror'
<1>0. writeChain \in Seq(Candidate) /\ OneWrite
  BY TypeParts DEF TypeOK
<1>1. CASE BuildRecord
  BY <1>1, BuiltRecord, Extended DEF WritesMirror
<1>2. CASE Deletes
  <2>1. PICK c \in Copies : transactions' = Append(transactions, [kind |-> "delete", copy |-> c])
    BY <1>2 DEF Deletes
  <2> DEFINE t == [kind |-> "delete", copy |-> c]
  <2>2. t \in Transaction /\ t.kind # "write"
    BY DeleteIsTransaction
  <2> HIDE DEF t
  <2>3. \A i \in DOMAIN transactions' :
           \/ i \in DOMAIN transactions /\ transactions'[i] = transactions[i]
           \/ transactions'[i] = t
    BY <2>1, <2>2, Extended DEF t
  <2> QED BY <2>2, <2>3, <1>2 DEF WritesMirror, Deletes
<1>3. CASE CommitWrite \/ AbortWrite
  <2>1. /\ transactions[1].kind = "write" /\ 1 \in DOMAIN transactions
        /\ \A i \in DOMAIN transactions' :
              /\ i + 1 \in DOMAIN transactions /\ i + 1 # 1
              /\ transactions'[i] = transactions[i + 1]
    BY <1>3, Shortened DEF CommitWrite, AbortWrite
  <2>2. \A i \in DOMAIN transactions' : transactions'[i].kind # "write"
    BY <2>1, <1>0 DEF OneWrite
  <2> QED BY <2>2 DEF WritesMirror
<1>4. CASE SettleDelete \/ Migrate \/ AbortMigration
  <2>1. \A i \in DOMAIN transactions' :
           i + 1 \in DOMAIN transactions /\ transactions'[i] = transactions[i + 1]
    BY <1>4, Shortened
  <2>2. writeChain' = writeChain
    BY <1>4 DEF SettleDelete, Migrate, AbortMigration
  <2> QED BY <2>1, <2>2 DEF WritesMirror
<1>5. CASE Edits \/ Forks
  BY <1>5 DEF Edits, Forks, WritesMirror
<1>6. CASE FailBeforeWrite
  BY <1>6 DEF FailBeforeWrite, SettleLink, LinkToStart, WriteInFlight, storeVars,
     WritesMirror
<1>7. ASSUME NEW x \in Candidate, writeChain' = Append(writeChain, x),
             transactions' = transactions
      PROVE  WritesMirror'
  <2>1. writeChain # <<>> => writeChain'[1] = writeChain[1]
    BY <1>0, <1>7
  <2>2. writeChain' # <<>>
    BY <1>0, <1>7
  <2> QED BY <2>1, <2>2, <1>7 DEF WritesMirror
<1>8. CASE Flush
  BY <1>7, <1>8 DEF Flush, storeVars, TypeOK
<1>9. ASSUME NEW unsaved \in BOOLEAN, StageAndFlush(unsaved)
      PROVE  WritesMirror'
  <2>1. Staged(live, unsaved, workingCopyId) \in Candidate
    BY StagedType DEF TypeOK
  <2> QED BY <2>1, <1>7, <1>9 DEF StageAndFlush, storeVars
<1>10. CASE Starts
  BY <1>10 DEF Starts, FirstQueue, WritesMirror
<1> QED BY <1>1, <1>2, <1>3, <1>4, <1>5, <1>6, <1>8, <1>9, <1>10, Steps

\* A write adds no session but the one it is for.
LEMMA WriteAddsOne ==
  ASSUME NEW s, WellFormed(s), NEW record, Writable(record)
  PROVE  SessionsIn(WriteRecord(s, record)) \subseteq SessionsIn(s) \cup {record.workingCopyId}
<1> SUFFICES ASSUME NEW d \in Copies, NEW g \in Generations,
                    WriteRecord(s, record)[d][g] # Absent, d # record.workingCopyId
             PROVE  s[d][g] # Absent
  BY DEF SessionsIn
<1> QED BY WriteEffect

LEMMA MigrationIsolatedStep ==
  ASSUME TypeOK, WritesMirror, MigrationIsolated, ContractHolds, [Next]_vars
  PROVE  MigrationIsolated'
<1>1. ASSUME NEW t \in Transaction, t.kind # "migrate",
             transactions' = Append(transactions, t),
             workingCopyId' = workingCopyId, stored' = stored
      PROVE  MigrationIsolated'
  <2>1. \A i \in DOMAIN transactions' :
           \/ i \in DOMAIN transactions /\ transactions'[i] = transactions[i]
           \/ transactions'[i] = t
    BY <1>1, Extended
  <2> QED BY <2>1, <1>1 DEF MigrationIsolated
<1>2. CASE BuildRecord
  <2> DEFINE t == [kind |-> "write", record |-> RecordOf(Head(writeChain))]
  <2>1. /\ t \in Transaction /\ t.kind = "write"
        /\ transactions' = Append(transactions, t)
        /\ workingCopyId' = workingCopyId /\ stored' = stored
    BY <1>2, BuiltRecord
  <2> HIDE DEF t
  <2> QED BY <2>1, <1>1
<1>3. CASE Deletes
  <2>1. PICK c \in Copies : transactions' = Append(transactions, [kind |-> "delete", copy |-> c])
    BY <1>3 DEF Deletes
  <2> DEFINE t == [kind |-> "delete", copy |-> c]
  <2>2. t \in Transaction /\ t.kind # "migrate"
    BY DeleteIsTransaction
  <2> HIDE DEF t
  <2>3. transactions' = Append(transactions, t)
    BY <2>1 DEF t
  <2> QED BY <2>2, <2>3, <1>1, <1>3 DEF Deletes
<1>4. CASE CommitWrite \/ AbortWrite \/ SettleDelete \/ Migrate \/ AbortMigration
  <2>1. \A i \in DOMAIN transactions' :
           /\ i + 1 \in DOMAIN transactions /\ i + 1 # 1
           /\ transactions'[i] = transactions[i + 1]
    BY <1>4, Shortened
  <2> QED BY <2>1 DEF MigrationIsolated
<1>5. CASE Flush \/ FailBeforeWrite \/ Edits
  BY <1>5 DEF Flush, FailBeforeWrite, Edits, storeVars, MigrationIsolated
<1>6. ASSUME NEW unsaved \in BOOLEAN, StageAndFlush(unsaved)
      PROVE  MigrationIsolated'
  BY <1>6 DEF StageAndFlush, storeVars, MigrationIsolated
<1>7. CASE Forks
  <2>1. \A i \in DOMAIN transactions :
           transactions[i].kind = "migrate" => transactions[i].record.workingCopyId # NewCopy
    <3> TAKE i \in DOMAIN transactions
    <3> HAVE transactions[i].kind = "migrate"
    <3>1. transactions[i] \in Transaction
      BY DEF TypeOK
    <3>2. CopyOf(transactions[i]) = transactions[i].record.workingCopyId
      BY <3>1, CopyType
    <3>3. CopyOf(transactions[i]) \in TakenCopies
      BY NewCopyIsNew
    <3>4. NewCopy \notin TakenCopies
      BY NewCopyIsNew
    <3> QED BY <3>2, <3>3, <3>4
  <2> QED BY <2>1, <1>7 DEF Forks, MigrationIsolated
<1>8. CASE Starts
  <2>1. PICK other \in Nat : /\ FirstQueue(transactions', other, clock')
                             /\ other \notin TakenCopies /\ other # workingCopyId'
    BY <1>8 DEF Starts
  <2>2. SessionsIn(stored) \subseteq TakenCopies
    BY NewCopyIsNew
  <2>3. SessionsIn(stored') \subseteq TakenCopies
    <3>1. CASE stored' = stored
      BY <3>1, <2>2
    <3>2. CASE CrashInMigration
      <4>1. /\ transactions # <<>> /\ Head(transactions).kind = "migrate"
            /\ stored' = WriteRecord(stored, Head(transactions).record)
        BY <3>2 DEF CrashInMigration
      <4>2. /\ Head(transactions) = transactions[1] /\ 1 \in DOMAIN transactions
            /\ transactions[1] \in Transaction
        BY <4>1, FirstTransaction
      <4>3. Head(transactions).record.workingCopyId \in TakenCopies
        BY <4>1, <4>2, CopyType, NewCopyIsNew
      <4>4. Writable(Head(transactions).record)
        BY <4>1, FirstIsWritable
      <4> QED BY <4>1, <4>3, <4>4, <2>2, WriteAddsOne DEF ContractHolds
    <3> QED BY <3>1, <3>2, <1>8 DEF Starts
  <2>4. \A i \in DOMAIN transactions' :
           /\ i = 1 /\ Writable(transactions'[i].record)
           /\ transactions'[i].record.owner = transactions'[i].record.workingCopyId
           /\ transactions'[i].record.workingCopyId = other
    BY <2>1 DEF FirstQueue
  <2>5. (SessionsIn(stored))' = SessionsIn(stored')
    BY DEF SessionsIn
  <2> QED BY <2>1, <2>3, <2>4, <2>5 DEF MigrationIsolated
<1> QED BY <1>2, <1>3, <1>4, <1>5, <1>6, <1>7, <1>8, Steps

--------------------------------------------------------------------------------
\* What discarding leaves, and what was staged last.

\* The history changes by a Discard, and ends with its page.
LEMMA DiscardedSteps ==
  ASSUME TypeOK, [Next]_vars
  PROVE  \/ discarded' = discarded /\ ~NewPage
         \/ Discard
         \/ discarded' = {}
<1>6. CASE NewPage
  BY <1>6 DEF NewPage, Reload, CrashInMigration, Restart, StartPage
<1>1. ASSUME Write \/ SettleDelete \/ Migrate \/ AbortMigration \/ RestoreAfterRefresh
      PROVE  discarded' = discarded
  BY <1>1 DEF Write, Flush, BuildRecord, FailBeforeWrite, CommitWrite, AbortWrite,
     SettleDelete, Migrate, AbortMigration, RestoreAfterRefresh, pageVars
<1>2. ASSUME \/ SaveProject \/ WriteFile \/ EndSave \/ GuardReplacement
             \/ AskToReplace \/ CancelReplacement \/ SaveAndContinue
      PROVE  discarded' = discarded
  BY <1>2 DEF SaveProject, WriteFile, EndSave, GuardReplacement, AskToReplace,
     CancelReplacement, SaveAndContinue
<1>3. ASSUME NEW size \in Sizes,
             \/ CommitProject(size) \/ ReplaceProject(size)
             \/ PerformAfterSave(size) \/ PerformAfterDiscard(size)
      PROVE  discarded' = discarded
  BY <1>3 DEF CommitProject, ReplaceProject, PerformAfterSave, PerformAfterDiscard,
     Install, pageVars
<1>4. ASSUME NEW c \in Copies, NEW g \in Generations,
             DeleteSession(c) \/ RestoreSession(c, g)
      PROVE  discarded' = discarded
  BY <1>4 DEF DeleteSession, RestoreSession, Install, pageVars
<1>5. ASSUME NEW unsaved \in BOOLEAN, RefreshApp(unsaved)
      PROVE  discarded' = discarded
  BY <1>5 DEF RefreshApp
<1>7. ASSUME UNCHANGED vars
      PROVE  discarded' = discarded
  BY <1>7 DEF vars
<1>8. "latest" \in Generations
  BY DEF Generations
<1> QED BY <1>1, <1>2, <1>3, <1>4, <1>5, <1>6, <1>7, <1>8 DEF Next, NewPage

\* The dialog opens when nothing is awaited, and awaits nothing itself.
LEMMA AwaitedStep ==
  ASSUME TypeOK, [Next]_vars, page \in {"asking", "keeping"} => awaited = 0,
         page' \in {"asking", "keeping"}
  PROVE  awaited' = 0
<1>1. CASE Write
  BY <1>1 DEF Write, Flush, BuildRecord, FailBeforeWrite, CommitWrite, AbortWrite,
     SettleLink, OneLess, pageVars
<1>2. CASE SettleDelete \/ Migrate \/ AbortMigration \/ RestoreAfterRefresh \/ Discard
  BY <1>2 DEF SettleDelete, Migrate, AbortMigration, RestoreAfterRefresh, Discard, pageVars
<1>3. CASE \/ SaveProject \/ WriteFile \/ EndSave \/ GuardReplacement
           \/ AskToReplace \/ CancelReplacement \/ SaveAndContinue
  BY <1>3 DEF SaveProject, WriteFile, EndSave, GuardReplacement, AskToReplace,
     CancelReplacement, SaveAndContinue
<1>4. ASSUME NEW size \in Sizes,
             \/ CommitProject(size) \/ ReplaceProject(size)
             \/ PerformAfterSave(size) \/ PerformAfterDiscard(size)
      PROVE  awaited' = 0
  BY <1>4 DEF CommitProject, ReplaceProject, PerformAfterSave, PerformAfterDiscard,
     Install, pageVars
<1>5. ASSUME NEW c \in Copies, NEW g \in Generations,
             DeleteSession(c) \/ Restart(c) \/ RestoreSession(c, g)
      PROVE  awaited' = 0
  BY <1>5 DEF DeleteSession, Restart, StartPage, RestoreSession, Install, pageVars
<1>6. ASSUME NEW unsaved \in BOOLEAN, RefreshApp(unsaved)
      PROVE  awaited' = 0
  BY <1>6 DEF RefreshApp
<1>7. CASE Reload \/ CrashInMigration
  BY <1>7 DEF Reload, CrashInMigration, StartPage
<1>8. CASE UNCHANGED vars
  BY <1>8 DEF vars
<1>9. "latest" \in Generations
  BY DEF Generations
<1> QED BY <1>1, <1>2, <1>3, <1>4, <1>5, <1>6, <1>7, <1>8, <1>9 DEF Next

\* A step that throws nothing away sends nothing thrown away to the store.
LEMMA NothingSent ==
  ASSUME TypeOK, WritesMirror, NothingGone, [Next]_vars, discarded' = discarded, ~NewPage
  PROVE  /\ \A d \in discarded' : d[2] <= clock'
         /\ pending' # Absent => ~Gone(pending')
         /\ \A i \in DOMAIN writeChain' : ~Gone(writeChain'[i])
         /\ \A i \in DOMAIN transactions' :
               transactions'[i].kind # "delete" => ~Gone(transactions'[i].record)
<1> DEFINE Old == \A d \in discarded : d[2] <= clock'
           Next1 == pending' # Absent => ~Gone(pending')
           Chain == \A i \in DOMAIN writeChain' : ~Gone(writeChain'[i])
           Queue == \A i \in DOMAIN transactions' :
                       transactions'[i].kind # "delete" => ~Gone(transactions'[i].record)
<1>0. /\ writeChain \in Seq(Candidate) /\ transactions \in Seq(Transaction)
      /\ clock \in Nat /\ pending \in Candidate \cup {Absent}
      /\ \A d \in discarded : d[2] \in Nat /\ d[2] <= clock
  BY ClockAssumption DEF TypeOK, NothingGone
<1>1. clock' \in {clock, clock + 1} => Old
  BY <1>0
<1>2. \A k : k.stagedAt = clock + 1 => ~Gone(k)
  <2> SUFFICES ASSUME NEW k, k.stagedAt = clock + 1, <<k.owner, k.stagedAt>> \in discarded
               PROVE  FALSE
    BY DEF Gone
  <2> DEFINE d == <<k.owner, k.stagedAt>>
  <2>1. d \in discarded /\ d[2] = clock + 1
    OBVIOUS
  <2> HIDE DEF d
  <2> QED BY <2>1, <1>0
<1>3. CASE Staging /\ UNCHANGED <<transactions, writeChain>>
  BY <1>1, <1>2, <1>3 DEF Staging, NothingGone
<1>4. CASE Edits \/ Forks
  BY <1>1, <1>3, <1>4 DEF Edits, Forks, NothingGone
<1>5. ASSUME NEW x \in Candidate, ~Gone(x), writeChain' = Append(writeChain, x),
             transactions' = transactions, pending' = Absent, clock' \in {clock, clock + 1}
      PROVE  Old /\ Next1 /\ Chain /\ Queue
  <2>1. \A i \in DOMAIN writeChain' :
           \/ i \in DOMAIN writeChain /\ writeChain'[i] = writeChain[i]
           \/ writeChain'[i] = x
    BY <1>0, <1>5, AppendToQueue
  <2>2. Chain
    BY <2>1, <1>5 DEF NothingGone
  <2> QED BY <2>2, <1>1, <1>5 DEF NothingGone
<1>6. CASE Flush
  BY <1>0, <1>5, <1>6 DEF Flush, storeVars, NothingGone
<1>7. ASSUME NEW unsaved \in BOOLEAN, StageAndFlush(unsaved)
      PROVE  Old /\ Next1 /\ Chain /\ Queue
  <2> DEFINE x == Staged(live, unsaved, workingCopyId)
  <2>1. x \in Candidate /\ x.stagedAt = clock + 1
    BY StagedType DEF TypeOK
  <2>2. /\ writeChain' = Append(writeChain, x) /\ transactions' = transactions
        /\ pending' = Absent /\ clock' = clock + 1
    BY <1>7 DEF StageAndFlush, storeVars, Tick
  <2> HIDE DEF x
  <2>3. ~Gone(x)
    BY <2>1, <1>2
  <2> HIDE DEF Old, Next1, Chain, Queue
  <2> QED BY <2>1, <2>2, <2>3, <1>5
<1>8. ASSUME NEW t \in Transaction, transactions' = Append(transactions, t),
             t.kind # "delete" => ~Gone(t.record)
      PROVE  Queue
  <2>1. \A i \in DOMAIN transactions' :
           \/ i \in DOMAIN transactions /\ transactions'[i] = transactions[i]
           \/ transactions'[i] = t
    BY <1>8, Extended
  <2> QED BY <2>1, <1>8 DEF NothingGone
<1>9. CASE BuildRecord
  <2> DEFINE t == [kind |-> "write", record |-> RecordOf(Head(writeChain))]
  <2>1. /\ t \in Transaction /\ transactions' = Append(transactions, t)
        /\ t.record.owner = writeChain[1].owner
        /\ t.record.stagedAt = writeChain[1].stagedAt
        /\ writeChain # <<>> /\ UNCHANGED <<writeChain, clock, pending>>
    BY <1>9, BuiltRecord
  <2>2. 1 \in DOMAIN writeChain
    BY <2>1, <1>0
  <2> HIDE DEF t
  <2>3. ~Gone(t.record)
    BY <2>1, <2>2 DEF Gone, NothingGone
  <2>4. Queue
    BY <2>1, <2>3, <1>8
  <2> QED BY <2>1, <2>4, <1>1 DEF NothingGone
<1>10. CASE Deletes
  <2>1. PICK c \in Copies : transactions' = Append(transactions, [kind |-> "delete", copy |-> c])
    BY <1>10 DEF Deletes
  <2> DEFINE t == [kind |-> "delete", copy |-> c]
  <2>2. t \in Transaction /\ t.kind = "delete" /\ transactions' = Append(transactions, t)
    BY <2>1, DeleteIsTransaction
  <2> HIDE DEF t
  <2>3. Queue
    BY <2>2, <1>8
  <2> QED BY <2>3, <1>1, <1>10 DEF Deletes, NothingGone
<1>11. CASE CommitWrite \/ AbortWrite \/ SettleDelete \/ Migrate \/ AbortMigration
  <2>1. Queue
    <3>1. \A i \in DOMAIN transactions' :
             i + 1 \in DOMAIN transactions /\ transactions'[i] = transactions[i + 1]
      BY <1>11, Shortened
    <3> QED BY <3>1 DEF NothingGone
  <2>2. UNCHANGED <<clock, pending>>
    BY <1>11, Shortened
  <2>3. writeChain' \in {writeChain, Tail(writeChain)}
    BY <1>11 DEF CommitWrite, AbortWrite, SettleDelete, Migrate, AbortMigration, SettleLink
  <2>4. Chain
    <3>1. CASE writeChain = <<>>
      <4>1. writeChain' = writeChain
        BY <2>3, <3>1, <1>11, FirstTransaction
        DEF CommitWrite, AbortWrite, SettleDelete, Migrate, AbortMigration, WritesMirror
      <4> QED BY <4>1 DEF NothingGone
    <3>2. CASE writeChain # <<>>
      BY <2>3, <3>2, <1>0, TailOfQueue DEF NothingGone
    <3> QED BY <3>1, <3>2
  <2> QED BY <2>1, <2>2, <2>4, <1>1 DEF NothingGone
<1>12. CASE FailBeforeWrite
  <2>1. /\ writeChain # <<>> /\ writeChain' = Tail(writeChain)
        /\ UNCHANGED <<clock, pending, transactions>>
    BY <1>12 DEF FailBeforeWrite, LinkToStart, SettleLink, storeVars
  <2>2. Chain
    BY <2>1, <1>0, TailOfQueue DEF NothingGone
  <2> QED BY <2>1, <2>2, <1>1 DEF NothingGone
<1> QED BY <1>4, <1>6, <1>7, <1>9, <1>10, <1>11, <1>12, StepsOfPage

LEMMA NothingGoneStep ==
  ASSUME TypeOK, WritesMirror, MigrationIsolated, NothingGone, [Next]_vars
  PROVE  NothingGone'
<1>1. page' \in {"asking", "keeping"} => awaited' = 0
  BY AwaitedStep DEF NothingGone
<1>2. CASE discarded' = discarded /\ ~NewPage
  BY <1>1, <1>2, NothingSent DEF NothingGone, Gone
<1>3. CASE discarded' = {}
  BY <1>1, <1>3 DEF NothingGone, Gone
<1>4. CASE Discard
  <2>1. /\ page = "asking" /\ clock' = clock + 1 /\ pending' = Absent
        /\ writeChain' = writeChain /\ page' = "discarding"
        /\ discarded' = discarded \cup ThrownAway
        /\ transactions' = Append(transactions, [kind |-> "delete", copy |-> workingCopyId])
    BY <1>4 DEF Discard, Tick
  <2>2. /\ awaited = 0 /\ clock \in Nat /\ workingCopyId \in Copies
        /\ writeChain \in Seq(Candidate)
        /\ \A d \in discarded : d[2] \in Nat /\ d[2] <= clock
    BY <2>1, ClockAssumption DEF TypeOK, NothingGone
  <2>3. \A d \in ThrownAway : d[2] <= clock'
    BY <2>1, <2>2 DEF ThrownAway
  <2>4. \A owner, n : <<owner, n>> \in ThrownAway =>
           /\ owner = workingCopyId
           /\ \A i \in DOMAIN writeChain : n # writeChain[i].stagedAt
    <3>1. awaited + 1..Len(writeChain) = DOMAIN writeChain
      BY <2>2
    <3> QED BY <3>1 DEF ThrownAway
  <2>5. \A i \in DOMAIN writeChain' :
           <<writeChain'[i].owner, writeChain'[i].stagedAt>> \notin discarded'
    BY <2>1, <2>4 DEF NothingGone, Gone
  <2>6. ASSUME NEW i \in DOMAIN transactions', transactions'[i].kind # "delete"
        PROVE  <<transactions'[i].record.owner, transactions'[i].record.stagedAt>>
                  \notin discarded'
    <3>1. i \in DOMAIN transactions /\ transactions'[i] = transactions[i]
      <4> DEFINE t == [kind |-> "delete", copy |-> workingCopyId]
      <4>1. t \in Transaction /\ t.kind = "delete"
        BY <2>2, DeleteIsTransaction
      <4> HIDE DEF t
      <4>2. transactions' = Append(transactions, t)
        BY <2>1 DEF t
      <4> QED BY <4>1, <4>2, <2>6, Extended
    <3>2. transactions[i] \in Transaction
      BY <3>1 DEF TypeOK
    <3>3. transactions[i].kind \in {"write", "migrate"}
      BY <3>1, <3>2, <2>6 DEF Transaction
    <3>4. CASE transactions[i].kind = "write"
      <4>1. /\ writeChain # <<>>
            /\ transactions[i].record.stagedAt = writeChain[1].stagedAt
        BY <3>1, <3>4 DEF WritesMirror
      <4>2. 1 \in DOMAIN writeChain
        BY <4>1, <2>2
      <4> QED BY <2>1, <2>4, <2>6, <3>1, <4>1, <4>2 DEF NothingGone, Gone
    <3>5. CASE transactions[i].kind = "migrate"
      <4>1. transactions[i].record.owner # workingCopyId
        BY <3>1, <3>5 DEF MigrationIsolated
      <4> QED BY <2>1, <2>4, <2>6, <3>1, <4>1 DEF NothingGone, Gone
    <3> QED BY <3>3, <3>4, <3>5
  <2>7. \A d \in discarded' : d[2] <= clock'
    BY <2>1, <2>2, <2>3
  <2> QED BY <2>1, <2>5, <2>6, <2>7 DEF NothingGone, Gone
<1> QED BY <1>2, <1>3, <1>4, DiscardedSteps

LEMMA LastIsLiveStep ==
  ASSUME TypeOK, WritesMirror, LastIsLive, [Next]_vars
  PROVE  LastIsLive'
<1>0. writeChain \in Seq(Candidate) /\ OneWrite
  BY TypeParts DEF TypeOK
<1>1. CASE Edits \/ Forks
  BY <1>1 DEF Edits, Forks, Staging, LastIsLive
<1>2. CASE BuildRecord
  BY <1>2, BuiltRecord, Extended DEF LastIsLive
<1>3. CASE Deletes
  <2>1. PICK c \in Copies : transactions' = Append(transactions, [kind |-> "delete", copy |-> c])
    BY <1>3 DEF Deletes
  <2> DEFINE t == [kind |-> "delete", copy |-> c]
  <2>2. t \in Transaction /\ t.kind # "write"
    BY DeleteIsTransaction
  <2> HIDE DEF t
  <2>3. \A i \in DOMAIN transactions' :
           \/ i \in DOMAIN transactions /\ transactions'[i] = transactions[i]
           \/ transactions'[i] = t
    BY <2>1, <2>2, Extended DEF t
  <2>4. CASE pending' = pending
    BY <2>2, <2>3, <2>4, <1>3 DEF LastIsLive, Deletes
  <2>5. CASE page' = "discarding"
    BY <2>5 DEF LastIsLive
  <2> QED BY <2>4, <2>5, <1>3 DEF Deletes
<1>4. CASE CommitWrite \/ AbortWrite
  <2>1. /\ transactions[1].kind = "write" /\ 1 \in DOMAIN transactions
        /\ \A i \in DOMAIN transactions' :
              /\ i + 1 \in DOMAIN transactions /\ i + 1 # 1
              /\ transactions'[i] = transactions[i + 1]
        /\ UNCHANGED <<live, pending, workingCopyId, page>>
    BY <1>4, Shortened DEF CommitWrite, AbortWrite
  <2>2. \A i \in DOMAIN transactions' : transactions'[i].kind # "write"
    BY <2>1, <1>0 DEF OneWrite
  <2>3. writeChain # <<>> /\ writeChain' = Tail(writeChain)
    BY <2>1, <1>4 DEF WritesMirror, CommitWrite, AbortWrite, SettleLink
  <2>4. writeChain' # <<>> => writeChain'[Len(writeChain')] = writeChain[Len(writeChain)]
    BY <2>3, <1>0
  <2> QED BY <2>1, <2>2, <2>3, <2>4 DEF LastIsLive
<1>5. CASE FailBeforeWrite
  <2>1. /\ writeChain # <<>> /\ writeChain' = Tail(writeChain)
        /\ \A i \in DOMAIN transactions : transactions[i].kind # "write"
        /\ UNCHANGED <<live, pending, workingCopyId, transactions, page>>
    BY <1>5 DEF FailBeforeWrite, SettleLink, LinkToStart, WriteInFlight, storeVars
  <2>2. writeChain' # <<>> => writeChain'[Len(writeChain')] = writeChain[Len(writeChain)]
    BY <2>1, <1>0
  <2> QED BY <2>1, <2>2 DEF LastIsLive
<1>6. CASE SettleDelete \/ Migrate \/ AbortMigration
  <2>1. \A i \in DOMAIN transactions' :
           i + 1 \in DOMAIN transactions /\ transactions'[i] = transactions[i + 1]
    BY <1>6, Shortened
  <2>2. UNCHANGED <<live, pending, workingCopyId, writeChain, page>>
    BY <1>6 DEF SettleDelete, Migrate, AbortMigration, pageVars
  <2> QED BY <2>1, <2>2 DEF LastIsLive
<1>7. ASSUME NEW x \in Candidate, writeChain' = Append(writeChain, x),
             page' # "discarding" => x.text = live',
             pending' = Absent, transactions' = transactions
      PROVE  LastIsLive'
  <2>1. writeChain'[Len(writeChain')] = x /\ Len(writeChain') = Len(writeChain) + 1
    BY <1>0, <1>7
  <2>2. Len(writeChain') = 1 => writeChain = <<>>
    <3>1. Len(writeChain) \in Nat
      BY <1>0
    <3>2. Len(writeChain') = Len(writeChain) + 1
      BY <2>1
    <3>3. \A k, m \in Nat : m = k + 1 /\ m = 1 => k = 0
      OBVIOUS
    <3>4. Len(writeChain') \in Nat
      BY <3>1, <3>2
    <3>5. Len(writeChain') = 1 => Len(writeChain) = 0
      BY <3>1, <3>2, <3>3, <3>4, Zenon
    <3> QED BY <3>5, <1>0, NoneLeft
  <2> QED BY <2>1, <2>2, <1>7 DEF LastIsLive, WritesMirror
<1>8. CASE Flush
  BY <1>7, <1>8 DEF Flush, storeVars, pageVars, LastIsLive, TypeOK
<1>9. ASSUME NEW unsaved \in BOOLEAN, StageAndFlush(unsaved)
      PROVE  LastIsLive'
  <2>1. /\ Staged(live, unsaved, workingCopyId) \in Candidate
        /\ Staged(live, unsaved, workingCopyId).text = live
    BY StagedType DEF TypeOK
  <2> QED BY <2>1, <1>7, <1>9 DEF StageAndFlush, storeVars
<1>10. CASE Starts
  <2>1. writeChain' = <<>> /\ Len(<<>>) = 0 /\ pending' = Absent
    BY <1>10 DEF Starts
  <2> QED BY <2>1 DEF LastIsLive
<1> QED BY <1>1, <1>2, <1>3, <1>4, <1>5, <1>6, <1>8, <1>9, <1>10, Steps

--------------------------------------------------------------------------------
\* The order of staging.

LEMMA StagedLater ==
  ASSUME NEW s \in Store, NEW queue \in Seq(Transaction), NEW n \in Nat, NEW m \in Nat,
         n <= m, StagedBy(s, queue, n)
  PROVE  StagedBy(s, queue, m)
<1>1. \A c \in Copies : s[c]["latest"] # Absent => s[c]["latest"].stagedAt \in Nat
  <2>1. "latest" \in Generations
    BY DEF Generations
  <2> QED BY <2>1, StoreTypes DEF Record
<1>2. \A i \in DOMAIN queue :
         queue[i].kind = "migrate" => queue[i].record.stagedAt \in Nat
  <2> TAKE i \in DOMAIN queue
  <2> HAVE queue[i].kind = "migrate"
  <2>1. queue[i] \in Transaction
    OBVIOUS
  <2>2. queue[i].record \in Record
    BY <2>1, CopyType
  <2> QED BY <2>2 DEF Record
<1>3. \A k \in Nat : k <= n => k <= m
  OBVIOUS
<1> QED BY <1>1, <1>2, <1>3 DEF StagedBy

\* What was staged after all that is stored stays so, whatever is stored next.
LEMMA StagedByStep ==
  ASSUME TypeOK, WritesMirror, MigrationIsolated, ContractHolds, [Next]_vars, ~Starts,
         NEW n \in Nat, StagedBy(stored, transactions, n),
         CommitWrite => writeChain[1].stagedAt <= n
  PROVE  StagedBy(stored', transactions', n)
<1>1. \A i \in DOMAIN transactions' :
         transactions'[i].kind = "migrate" => transactions'[i].record.stagedAt <= n
  <2>1. CASE BuildRecord
    <3> DEFINE t == [kind |-> "write", record |-> RecordOf(Head(writeChain))]
    <3>1. /\ t \in Transaction /\ t.kind = "write"
          /\ transactions' = Append(transactions, t)
      BY <2>1, BuiltRecord
    <3> HIDE DEF t
    <3>2. \A i \in DOMAIN transactions' :
             \/ i \in DOMAIN transactions /\ transactions'[i] = transactions[i]
             \/ transactions'[i] = t
      BY <3>1, Extended
    <3> QED BY <3>1, <3>2 DEF StagedBy
  <2>2. CASE Deletes
    <3>1. PICK c \in Copies : transactions' = Append(transactions, [kind |-> "delete", copy |-> c])
      BY <2>2 DEF Deletes
    <3> DEFINE t == [kind |-> "delete", copy |-> c]
    <3>2. t \in Transaction /\ t.kind # "migrate"
      BY DeleteIsTransaction
    <3> HIDE DEF t
    <3>3. \A i \in DOMAIN transactions' :
             \/ i \in DOMAIN transactions /\ transactions'[i] = transactions[i]
             \/ transactions'[i] = t
      BY <3>1, <3>2, Extended DEF t
    <3> QED BY <3>2, <3>3 DEF StagedBy
  <2>3. CASE CommitWrite \/ AbortWrite \/ SettleDelete \/ Migrate \/ AbortMigration
    <3>1. \A i \in DOMAIN transactions' :
             i + 1 \in DOMAIN transactions /\ transactions'[i] = transactions[i + 1]
      BY <2>3, Shortened
    <3> QED BY <3>1 DEF StagedBy
  <2>4. CASE Flush \/ FailBeforeWrite \/ Edits \/ Forks
    BY <2>4 DEF Flush, FailBeforeWrite, Edits, Forks, storeVars, StagedBy
  <2>5. ASSUME NEW unsaved \in BOOLEAN, StageAndFlush(unsaved)
        PROVE  transactions' = transactions
    BY <2>5 DEF StageAndFlush, storeVars
  <2> QED BY <2>1, <2>2, <2>3, <2>4, <2>5, Steps DEF StagedBy
<1>2. \A c \in Copies :
         stored'[c]["latest"] # Absent => stored'[c]["latest"].stagedAt <= n
  <2> TAKE c \in Copies
  <2> HAVE stored'[c]["latest"] # Absent
  <2>0. "latest" \in Generations
    BY DEF Generations
  <2>1. CASE stored' = stored
    BY <2>1 DEF StagedBy
  <2>2. ASSUME NEW d \in Copies, stored' = WithoutSession(stored, d)
        PROVE  stored'[c]["latest"].stagedAt <= n
    <3>1. stored'[c]["latest"] \in {stored[c]["latest"], Absent}
      BY <2>0, <2>2, DeleteKeepsContract DEF ContractHolds
    <3> QED BY <3>1 DEF StagedBy
  <2>3. CASE Writes /\ (Head(transactions).kind = "write" => CommitWrite)
    <3> DEFINE r == Head(transactions).record
    <3>1. /\ Head(transactions) = transactions[1] /\ 1 \in DOMAIN transactions
          /\ transactions[1].kind \in {"write", "migrate"}
      BY <2>3, FirstTransaction DEF Writes
    <3>2. r.stagedAt <= n
      <4>1. CASE transactions[1].kind = "migrate"
        BY <3>1, <4>1 DEF StagedBy
      <4>2. CASE transactions[1].kind = "write"
        <5>1. transactions[1].record.stagedAt = writeChain[1].stagedAt
          BY <3>1, <4>2 DEF WritesMirror
        <5> QED BY <3>1, <4>2, <5>1, <2>3
      <4> QED BY <3>1, <4>1, <4>2
    <3>3. stored' = WriteRecord(stored, r) /\ Writable(r) /\ WellFormed(stored)
      BY <2>3 DEF Writes, ContractHolds
    <3> HIDE DEF r
    <3>4. stored'[c]["latest"] \in {r, stored[c]["latest"], Absent}
      BY <2>0, <3>3, WriteEffect
    <3> QED BY <3>2, <3>4 DEF StagedBy
  <2> QED BY <2>1, <2>2, <2>3, StoreSteps
<1> QED BY <1>1, <1>2 DEF StagedBy

\* The times the order speaks of.
LEMMA StampTypes ==
  ASSUME TypeOK
  PROVE  /\ clock \in Nat
         /\ \A i \in DOMAIN writeChain : writeChain[i].stagedAt \in Nat
         /\ pending # Absent => pending.stagedAt \in Nat
<1>1. \A i \in DOMAIN writeChain : writeChain[i] \in Candidate
  BY DEF TypeOK
<1> QED BY <1>1, ClockAssumption DEF TypeOK, Candidate

LEMMA StartsInOrder ==
  ASSUME TypeOK, WritesMirror, MigrationIsolated, ContractHolds, InOrder, [Next]_vars,
         Starts
  PROVE  InOrder'
<1>1. clock \in Nat /\ clock' \in Nat /\ clock <= clock'
  BY StampTypes DEF Starts
<1>2. PICK other \in Nat : FirstQueue(transactions', other, clock')
  BY DEF Starts
<1>3. \A i \in DOMAIN transactions' : transactions'[i].record.stagedAt <= clock'
  BY <1>1, <1>2 DEF FirstQueue
<1>4. \A c \in Copies :
         stored'[c]["latest"] # Absent => stored'[c]["latest"].stagedAt <= clock
  <2>1. CASE stored' = stored
    BY <2>1 DEF InOrder, StagedBy
  <2>2. CASE CrashInMigration
    <3> DEFINE r == Head(transactions).record
    <3>1. /\ transactions # <<>> /\ Head(transactions).kind = "migrate"
          /\ stored' = WriteRecord(stored, r)
      BY <2>2 DEF CrashInMigration
    <3>2. Head(transactions) = transactions[1] /\ 1 \in DOMAIN transactions
      BY <3>1, FirstTransaction
    <3>3. r.stagedAt <= clock
      BY <3>1, <3>2 DEF InOrder, StagedBy
    <3>4. Writable(r)
      BY <3>1, FirstIsWritable
    <3> HIDE DEF r
    <3>5. \A c \in Copies :
             stored'[c]["latest"] \in {r, stored[c]["latest"], Absent}
      BY <3>1, <3>4, WriteEffect DEF ContractHolds, Generations
    <3> QED BY <3>3, <3>5 DEF InOrder, StagedBy
  <2> QED BY <2>1, <2>2 DEF Starts
<1>5. \A c \in Copies :
         stored'[c]["latest"] # Absent => stored'[c]["latest"].stagedAt \in Nat
  <2>1. stored' \in Store /\ "latest" \in Generations
    BY ContractStep DEF ContractHolds, WellFormed, Generations
  <2> QED BY <2>1, StoreTypes DEF Record
<1>6. \A c \in Copies :
         stored'[c]["latest"] # Absent => stored'[c]["latest"].stagedAt <= clock'
  BY <1>1, <1>4, <1>5
<1>7. StagedBy(stored', transactions', clock')
  BY <1>3, <1>6 DEF StagedBy
<1>8. writeChain' = <<>> /\ pending' = Absent
  BY DEF Starts
<1> QED BY <1>7, <1>8 DEF InOrder

LEMMA InOrderStep ==
  ASSUME TypeOK, WritesMirror, MigrationIsolated, ContractHolds, InOrder, [Next]_vars
  PROVE  InOrder'
<1>1. CASE Starts
  BY <1>1, StartsInOrder
<1>2. SUFFICES ASSUME ~Starts
               PROVE  InOrder'
  BY <1>1
<1> DEFINE A(n) == StagedBy(stored', transactions', n)
<1>3. /\ clock \in Nat
      /\ writeChain \in Seq(Candidate)
      /\ \A i \in DOMAIN writeChain : writeChain[i].stagedAt \in Nat
      /\ pending # Absent => pending.stagedAt \in Nat
  BY StampTypes DEF TypeOK
<1>4. CommitWrite => 1 \in DOMAIN writeChain
  <2> HAVE CommitWrite
  <2>1. writeChain # <<>>
    BY FirstTransaction DEF CommitWrite, WritesMirror
  <2> QED BY <2>1, <1>3
<1>5. \A n \in Nat :
         StagedBy(stored, transactions, n) /\ (CommitWrite => writeChain[1].stagedAt <= n)
            => A(n)
  BY <1>2, StagedByStep
<1>6. A(clock)
  BY <1>3, <1>4, <1>5 DEF InOrder
<1>7. \A i \in DOMAIN writeChain : A(writeChain[i].stagedAt)
  <2> TAKE i \in DOMAIN writeChain
  <2>1. CommitWrite => writeChain[1].stagedAt <= writeChain[i].stagedAt
    <3>1. 1 <= i
      BY <1>3
    <3> QED BY <3>1, <1>4 DEF InOrder
  <2> QED BY <2>1, <1>3, <1>5 DEF InOrder
<1>8. pending # Absent => A(pending.stagedAt)
  BY <1>3, <1>4, <1>5 DEF InOrder
<1>9. stored' \in Store /\ transactions' \in Seq(Transaction)
  BY ShapesStep DEF Shapes
<1>10. \A m, n \in Nat : m <= n /\ A(m) => A(n)
  BY <1>9, StagedLater
<1> HIDE DEF A
<1>11. /\ \A i \in DOMAIN writeChain :
             /\ writeChain[i].stagedAt <= clock
             /\ \A j \in DOMAIN writeChain :
                   i <= j => writeChain[i].stagedAt <= writeChain[j].stagedAt
             /\ pending # Absent => writeChain[i].stagedAt <= pending.stagedAt
       /\ pending # Absent => pending.stagedAt <= clock
  BY DEF InOrder
\* What is left to show of the state after, with the store set aside.
<1> DEFINE After(chain, next, now) ==
             /\ A(now)
             /\ \A i \in DOMAIN chain :
                   /\ A(chain[i].stagedAt)
                   /\ chain[i].stagedAt <= now
                   /\ \A j \in DOMAIN chain :
                         i <= j => chain[i].stagedAt <= chain[j].stagedAt
                   /\ next # Absent => chain[i].stagedAt <= next.stagedAt
             /\ next # Absent => A(next.stagedAt) /\ next.stagedAt <= now
<1>12. After(writeChain', pending', clock') => InOrder'
  BY DEF InOrder, A
<1>13. After(writeChain, pending, clock)
  BY <1>6, <1>7, <1>8, <1>11
<1>14. A(clock + 1) /\ clock + 1 \in Nat
  BY <1>3, <1>6, <1>10
<1>15. After(writeChain, Absent, clock + 1)
  BY <1>3, <1>7, <1>11, <1>14
<1>16. After(writeChain, pending, clock + 1)
  BY <1>3, <1>7, <1>8, <1>11, <1>14
<1>17. CASE BuildRecord \/ SettleDelete \/ Migrate \/ AbortMigration
  <2>1. UNCHANGED <<writeChain, pending, clock>>
    BY <1>17 DEF BuildRecord, SettleDelete, Migrate, AbortMigration
  <2> HIDE DEF After
  <2> QED BY <2>1, <1>12, <1>13
<1>18. ASSUME Staging, writeChain' = writeChain
       PROVE  InOrder'
  <2>1. /\ clock' = clock + 1 /\ pending'.stagedAt = clock + 1
    BY <1>18 DEF Staging
  <2>2. After(writeChain, pending', clock + 1)
    BY <2>1, <1>3, <1>14, <1>15
  <2> HIDE DEF After
  <2> QED BY <2>1, <2>2, <1>12, <1>18
<1>19. CASE Edits \/ Forks
  <2> HIDE DEF After
  <2> QED BY <1>12, <1>13, <1>18, <1>19 DEF Edits, Forks
<1>20. CASE Deletes
  <2>1. /\ clock' = clock + 1 /\ writeChain' = writeChain
        /\ pending' = pending \/ pending' = Absent
    BY <1>20 DEF Deletes
  <2> HIDE DEF After
  <2> QED BY <2>1, <1>12, <1>15, <1>16
<1>21. CASE CommitWrite \/ AbortWrite \/ FailBeforeWrite
  <2>1. /\ writeChain' = Tail(writeChain) /\ UNCHANGED <<pending, clock>>
        /\ writeChain # <<>>
    BY <1>21, FirstTransaction
    DEF CommitWrite, AbortWrite, FailBeforeWrite, SettleLink, LinkToStart, WritesMirror
  <2>2. \A i \in DOMAIN Tail(writeChain) :
           /\ i \in Nat /\ i + 1 \in DOMAIN writeChain
           /\ Tail(writeChain)[i] = writeChain[i + 1]
    BY <2>1, <1>3, TailOfQueue
  <2>3. \A i, j \in Nat : i <= j => i + 1 <= j + 1
    OBVIOUS
  <2>4. After(Tail(writeChain), pending, clock)
    BY <2>2, <2>3, <1>13
  <2> HIDE DEF After
  <2> QED BY <2>1, <2>4, <1>12
<1>22. ASSUME NEW x \in Candidate, NEW now \in Nat,
              writeChain' = Append(writeChain, x), pending' = Absent, clock' = now,
              A(now), A(x.stagedAt), x.stagedAt <= now, clock <= now,
              \A i \in DOMAIN writeChain : writeChain[i].stagedAt <= x.stagedAt
       PROVE  InOrder'
  <2> DEFINE chain == Append(writeChain, x)
  <2>1. \A i \in DOMAIN chain :
           \/ i \in DOMAIN writeChain /\ chain[i] = writeChain[i]
           \/ i = Len(writeChain) + 1 /\ chain[i] = x
    BY <1>3, AppendToQueue
  <2>2. x.stagedAt \in Nat /\ Len(writeChain) \in Nat
    BY <1>3 DEF Candidate
  <2>3. \A i \in DOMAIN writeChain : i \in Nat /\ i <= Len(writeChain)
    BY <1>3
  <2>4. \A i \in DOMAIN chain : A(chain[i].stagedAt) /\ chain[i].stagedAt <= now
    <3> HIDE DEF chain
    <3> QED BY <2>1, <1>3, <1>7, <1>11, <1>22
  <2>5. \A i, j \in DOMAIN chain : i <= j => chain[i].stagedAt <= chain[j].stagedAt
    <3> HIDE DEF chain
    <3> QED BY <2>1, <2>2, <2>3, <1>11, <1>22
  <2> HIDE DEF chain
  <2>6. After(chain, Absent, now)
    BY <2>4, <2>5, <1>22
  <2> HIDE DEF After
  <2> QED BY <2>6, <1>12, <1>22 DEF chain
<1>23. CASE Flush
  <2>1. /\ pending \in Candidate /\ pending # Absent
        /\ writeChain' = Append(writeChain, pending)
        /\ pending' = Absent /\ clock' = clock
    BY <1>23 DEF Flush, TypeOK
  <2> QED BY <2>1, <1>3, <1>6, <1>8, <1>11, <1>22
<1>24. ASSUME NEW unsaved \in BOOLEAN, StageAndFlush(unsaved)
       PROVE  InOrder'
  <2> DEFINE x == Staged(live, unsaved, workingCopyId)
  <2>1. x \in Candidate /\ x.stagedAt = clock + 1
    BY StagedType DEF TypeOK
  <2>2. writeChain' = Append(writeChain, x) /\ pending' = Absent /\ clock' = clock + 1
    BY <1>24 DEF StageAndFlush, Tick
  <2> HIDE DEF x
  <2>3. /\ A(x.stagedAt) /\ x.stagedAt <= clock + 1 /\ clock <= clock + 1
        /\ \A i \in DOMAIN writeChain : writeChain[i].stagedAt <= x.stagedAt
    BY <2>1, <1>3, <1>11, <1>14
  <2> QED BY <2>1, <2>2, <2>3, <1>14, <1>22
<1> QED BY <1>2, <1>17, <1>19, <1>20, <1>21, <1>23, <1>24, Steps

--------------------------------------------------------------------------------
\* What is told stored is the live Project.

LEMMA StoredMeansCurrentStep ==
  ASSUME IInv, [Next]_vars
  PROVE  StoredMeansCurrent'
<1>0. /\ TypeOK /\ WritesMirror /\ MigrationIsolated /\ ContractHolds /\ LastIsLive
      /\ StoredMeansCurrent /\ writeChain \in Seq(Candidate) /\ workingCopyId \in Copies
      /\ "latest" \in Generations
  BY DEF IInv, TypeOK, Generations
<1>1. CASE Edits \/ Forks \/ Deletes \/ Starts
  BY <1>0, <1>1 DEF Edits, Forks, Deletes, Starts, Staging, StoredMeansCurrent
<1>2. CASE BuildRecord
  BY <1>0, <1>2, BuiltRecord DEF StoredMeansCurrent
<1>3. CASE FailBeforeWrite \/ AbortWrite
  BY <1>3 DEF FailBeforeWrite, AbortWrite, StoredMeansCurrent
<1>4. CASE Flush
  <2>1. writeChain' # <<>>
    BY <1>0, <1>4 DEF Flush, TypeOK
  <2> QED BY <2>1 DEF StoredMeansCurrent
<1>5. ASSUME NEW unsaved \in BOOLEAN, StageAndFlush(unsaved)
      PROVE  StoredMeansCurrent'
  <2>1. state' = "pending"
    BY <1>5 DEF StageAndFlush
  <2> QED BY <2>1 DEF StoredMeansCurrent
<1>6. CASE SettleDelete \/ Migrate \/ AbortMigration
  <2>1. UNCHANGED <<state, pending, writeChain, page, workingCopyId, live>>
    BY <1>6 DEF SettleDelete, Migrate, AbortMigration, pageVars
  <2>2. stored'[workingCopyId]["latest"] \in {stored[workingCopyId]["latest"], Absent}
    <3>1. CASE SettleDelete
      <4>1. Head(transactions).copy \in Copies
        BY <1>0, <3>1, FirstTransaction, CopyType DEF SettleDelete
      <4>2. CASE stored' = stored
        BY <4>2
      <4>3. CASE stored' = WithoutSession(stored, Head(transactions).copy)
        BY <1>0, <4>1, <4>3, DeleteKeepsContract DEF ContractHolds
      <4> QED BY <3>1, <4>2, <4>3 DEF SettleDelete
    <3>2. CASE Migrate
      <4> DEFINE r == Head(transactions).record
      <4>1. /\ transactions # <<>> /\ Head(transactions).kind = "migrate"
            /\ stored' = WriteRecord(stored, r)
        BY <3>2 DEF Migrate
      <4>2. Head(transactions) = transactions[1] /\ 1 \in DOMAIN transactions
        BY <1>0, <4>1, FirstTransaction
      <4>3. Writable(r) /\ workingCopyId # r.workingCopyId
        BY <1>0, <4>1, <4>2 DEF MigrationIsolated
      <4> HIDE DEF r
      <4> QED BY <1>0, <4>1, <4>3, WriteEffect DEF ContractHolds
    <3>3. CASE AbortMigration
      BY <3>3 DEF AbortMigration
    <3> QED BY <1>6, <3>1, <3>2, <3>3
  <2> QED BY <1>0, <2>1, <2>2 DEF StoredMeansCurrent
<1>7. CASE CommitWrite
  <2> DEFINE r == Head(transactions).record
  <2>1. /\ transactions # <<>> /\ Head(transactions).kind = "write"
        /\ stored' = WriteRecord(stored, r)
        /\ writeChain' = Tail(writeChain)
        /\ UNCHANGED <<pending, page, workingCopyId, live>>
    BY <1>7 DEF CommitWrite, SettleLink
  <2>2. Head(transactions) = transactions[1] /\ 1 \in DOMAIN transactions
    BY <1>0, <2>1, FirstTransaction
  <2>3. Writable(r) /\ writeChain # <<>> /\ r.text = writeChain[1].text
    BY <1>0, <2>1, <2>2 DEF WritesMirror
  <2>4. ASSUME page # "discarding", pending = Absent, Tail(writeChain) = <<>>
        PROVE  stored'[workingCopyId]["latest"].text = live
    <3>1. Len(writeChain) = 1
      BY <1>0, <2>3, <2>4, OneLeft
    <3>2. writeChain[1].text = live
      BY <1>0, <2>3, <2>4, <3>1 DEF LastIsLive
    <3>3. r.workingCopyId = workingCopyId
      BY <1>0, <2>1, <2>2, <2>4, <3>1 DEF LastIsLive
    <3> HIDE DEF r
    <3>4. stored'[workingCopyId]["latest"].text = r.text
      BY <1>0, <2>1, <2>3, <3>3, WriteEffect DEF ContractHolds
    <3> QED BY <2>3, <3>2, <3>4
  <2> QED BY <2>1, <2>4 DEF StoredMeansCurrent
<1> QED BY <1>0, <1>1, <1>2, <1>3, <1>4, <1>5, <1>6, <1>7, Steps

--------------------------------------------------------------------------------
\* The invariant.

LEMMA InitIInv ==
  ASSUME Init
  PROVE  IInv
<1>1. /\ clock = 0 /\ live = BootText /\ workingCopyId = 1 /\ recordCounter = 0
      /\ pending = Absent /\ writeChain = <<>> /\ state = "idle" /\ page = "running"
      /\ stored = [c \in Copies |-> EmptySession]
      /\ transactions = Migration(legacy, 2, 0)
      /\ awaited = 0 /\ saving = Absent /\ discarded = {}
  BY DEF Init
<1>2. legacy \in Text \cup {Absent}
  BY ClockAssumption DEF Init, LegacyTexts, Text
<1>3. transactions \in Seq(Transaction) /\ FirstQueue(transactions, 2, 0)
  BY <1>1, <1>2, MigrationType
<1>4. ContractHolds
  BY <1>1, EmptyKeepsContract DEF ContractHolds
<1>5. \A c \in Copies, g \in Generations : stored[c][g] = Absent
  BY <1>1 DEF EmptySession
<1>6. TypeOK
  <2>1. Shapes
    BY <1>1, <1>2, <1>3, <1>4, BootTextType, AbsentIsNone, ClockAssumption
    DEF Shapes, ContractHolds, WellFormed, Page
  <2>2. OneWrite
    BY <1>3 DEF OneWrite, FirstQueue
  <2> QED BY <2>1, <2>2, TypeParts
<1>7. SessionsIn(stored) = {}
  BY <1>5 DEF SessionsIn
<1>8. WritesMirror /\ MigrationIsolated
  BY <1>1, <1>3, <1>7 DEF FirstQueue, WritesMirror, MigrationIsolated
<1>9. InOrder
  <2>1. StagedBy(stored, transactions, clock)
    BY <1>1, <1>3, <1>5 DEF StagedBy, FirstQueue, Generations
  <2> QED BY <1>1, <2>1 DEF InOrder
<1>10. NothingGone /\ LastIsLive /\ StoredMeansCurrent
  BY <1>1 DEF NothingGone, Gone, LastIsLive, StoredMeansCurrent
<1> QED BY <1>4, <1>6, <1>8, <1>9, <1>10 DEF IInv

LEMMA StepIInv ==
  ASSUME IInv, [Next]_vars
  PROVE  IInv'
<1>1. /\ TypeOK /\ WritesMirror /\ MigrationIsolated /\ InOrder /\ ContractHolds
      /\ NothingGone /\ LastIsLive
  BY DEF IInv
<1>2. TypeOK'
  <2>1. Shapes' /\ OneWrite'
    BY <1>1, ShapesStep, OneWriteStep
  <2> QED BY <2>1 DEF TypeOK, Shapes, OneWrite
<1>3. WritesMirror' /\ MigrationIsolated' /\ InOrder'
  BY <1>1, WritesMirrorStep, MigrationIsolatedStep, InOrderStep
<1>4. ContractHolds' /\ NothingGone' /\ LastIsLive'
  BY <1>1, ContractStep, NothingGoneStep, LastIsLiveStep
<1>5. StoredMeansCurrent'
  BY StoredMeansCurrentStep
<1> QED BY <1>2, <1>3, <1>4, <1>5 DEF IInv

\* In every state of every behaviour the invariant holds.
THEOREM Invariant == Spec => []IInv
<1>1. Init => IInv
  BY InitIInv
<1>2. IInv /\ [Next]_vars => IInv'
  BY StepIInv
<1> QED BY <1>1, <1>2, PTL DEF Spec

\* Every variable keeps its shape, and never are two writes of a page open.
THEOREM TypeCorrect == Spec => []TypeOK
<1>1. IInv => TypeOK
  BY DEF IInv
<1> QED BY <1>1, Invariant, PTL

\* Whatever limits the contract sets, as long as one record for every session
\* and one more fit, writeRecord never leaves more sessions or bytes than it
\* allows: not when the rotation, a fork of the identity, a migration or a
\* crash falls between two writes.
THEOREM RetentionIsKept == Spec => []RetentionHolds
<1>1. IInv => RetentionHolds
  BY DEF IInv, ContractHolds, WithinCaps, RetentionHolds
<1> QED BY <1>1, Invariant, PTL

\* "stored" with nothing staged behind it means that the newest record of the
\* working copy is the live Project, for chains of every length.
THEOREM StoredIsLive == Spec => []StoredMeansCurrent
<1>1. IInv => StoredMeansCurrent
  BY DEF IInv
<1> QED BY <1>1, Invariant, PTL

\* The chain keeps a slow early write from overwriting a later snapshot.
THEOREM NewerWins == Spec => NewerSnapshotWins
<1>1. ASSUME IInv, [Next]_vars,
             NEW c \in Copies, stored[c]["latest"] # Absent, stored'[c]["latest"] # Absent
      PROVE  stored'[c]["latest"].stagedAt >= stored[c]["latest"].stagedAt
  <2>0. /\ TypeOK /\ WritesMirror /\ MigrationIsolated /\ ContractHolds /\ InOrder
        /\ "latest" \in Generations
    BY <1>1 DEF IInv, Generations
  <2>1. stored[c]["latest"].stagedAt \in Nat
    <3>1. stored[c]["latest"] \in Record
      BY <1>1, <2>0, StoreTypes DEF TypeOK
    <3> QED BY <3>1 DEF Record
  <2>2. CASE stored' = stored
    BY <2>1, <2>2
  <2>3. ASSUME NEW d \in Copies, stored' = WithoutSession(stored, d)
        PROVE  stored'[c]["latest"] = stored[c]["latest"]
    BY <1>1, <2>0, <2>3, DeleteKeepsContract DEF ContractHolds
  <2>4. CASE Writes
    <3> DEFINE r == Head(transactions).record
    <3>1. /\ Head(transactions) = transactions[1] /\ 1 \in DOMAIN transactions
          /\ transactions[1].kind \in {"write", "migrate"}
      BY <2>0, <2>4, FirstTransaction DEF Writes
    <3>2. stored' = WriteRecord(stored, r) /\ Writable(r) /\ WellFormed(stored)
      BY <2>0, <2>4 DEF Writes, ContractHolds
    <3>3. CASE c = r.workingCopyId
      <4>1. stored'[c]["latest"] \in {r, stored[c]["latest"]}
        <5> HIDE DEF r
        <5> QED BY <3>2, <3>3, WriteEffect
      <4>2. transactions[1].kind = "write"
        <5> SUFFICES ASSUME transactions[1].kind = "migrate"
                     PROVE  FALSE
          BY <3>1
        <5>1. r.workingCopyId \notin SessionsIn(stored)
          BY <2>0, <3>1 DEF MigrationIsolated
        <5> QED BY <5>1, <3>3, <1>1, <2>0 DEF SessionsIn
      <4>3. r.stagedAt = writeChain[1].stagedAt /\ writeChain # <<>>
        BY <2>0, <3>1, <4>2 DEF WritesMirror
      <4>4. 1 \in DOMAIN writeChain
        BY <2>0, <4>3 DEF TypeOK
      <4>5. /\ stored[c]["latest"].stagedAt <= writeChain[1].stagedAt
            /\ writeChain[1].stagedAt \in Nat
        BY <1>1, <2>0, <4>4, StampTypes DEF InOrder, StagedBy
      <4>6. r.stagedAt >= stored[c]["latest"].stagedAt
        <5> HIDE DEF r
        <5> QED BY <2>1, <4>3, <4>5
      <4> HIDE DEF r
      <4> QED BY <2>1, <4>1, <4>6
    <3>4. CASE c # r.workingCopyId
      <4> HIDE DEF r
      <4>1. stored'[c]["latest"] = stored[c]["latest"]
        BY <1>1, <2>0, <3>2, <3>4, WriteEffect
      <4> QED BY <2>1, <4>1
    <3> QED BY <3>3, <3>4
  <2> QED BY <1>1, <2>0, <2>1, <2>2, <2>3, <2>4, StoreSteps
<1>2. IInv /\ [Next]_vars
        => [\A c \in Copies :
              (stored[c]["latest"] # Absent /\ stored'[c]["latest"] # Absent)
              => stored'[c]["latest"].stagedAt >= stored[c]["latest"].stagedAt]_vars
  BY <1>1
<1> QED BY <1>2, Invariant, PTL DEF Spec, NewerSnapshotWins

\* The rotation of a write survives its own retention plan.
THEOREM LastGoodIsKept == Spec => LastGoodSurvives
<1>1. ASSUME IInv, [Next]_vars, NEW c \in Copies,
             stored[c]["latest"] # Absent, stored'[c]["latest"] # Absent,
             stored'[c]["latest"].text # stored[c]["latest"].text
      PROVE  stored'[c]["previous"] = stored[c]["latest"]
  <2>0. /\ TypeOK /\ WritesMirror /\ MigrationIsolated /\ ContractHolds
        /\ "latest" \in Generations
    BY <1>1 DEF IInv, Generations
  <2>1. ASSUME NEW d \in Copies, stored' = WithoutSession(stored, d)
        PROVE  FALSE
    BY <1>1, <2>0, <2>1, DeleteKeepsContract DEF ContractHolds
  <2>2. CASE Writes
    <3> DEFINE r == Head(transactions).record
    <3>1. stored' = WriteRecord(stored, r) /\ Writable(r) /\ WellFormed(stored)
      BY <2>0, <2>2 DEF Writes, ContractHolds
    <3> HIDE DEF r
    <3> QED BY <1>1, <2>0, <3>1, WriteEffect
  <2> QED BY <1>1, <2>0, <2>1, <2>2, StoreSteps
<1>2. IInv /\ [Next]_vars
        => [\A c \in Copies :
              (/\ stored[c]["latest"] # Absent
               /\ stored'[c]["latest"] # Absent
               /\ stored'[c]["latest"].text # stored[c]["latest"].text)
              => stored'[c]["previous"] = stored[c]["latest"]]_vars
  BY <1>1
<1> QED BY <1>2, Invariant, PTL DEF Spec, LastGoodSurvives

\* Of all that "Continue without saving" has thrown away, the snapshots that
\* were pending and those the guard awaited, none is written while the page
\* lives.  A link the guard did not await, and what is staged later under the
\* same identity, are not of it: the code does write them.
THEOREM DiscardedStaysGone == Spec => DiscardedWorkStaysGone
<1>1. ASSUME IInv, [Next]_vars, NEW c \in Copies, NEW g \in Generations,
             stored'[c][g] # Absent,
             <<stored'[c][g].owner, stored'[c][g].stagedAt>> \in discarded
      PROVE  \E h \in Generations : stored'[c][g] = stored[c][h]
  <2>0. /\ TypeOK /\ WritesMirror /\ MigrationIsolated /\ ContractHolds /\ NothingGone
        /\ Generations = {"latest", "previous"}
    BY <1>1 DEF IInv, Generations
  <2>1. CASE stored' = stored
    BY <2>1
  <2>2. ASSUME NEW d \in Copies, stored' = WithoutSession(stored, d)
        PROVE  stored'[c][g] = stored[c][g]
    BY <1>1, <2>0, <2>2, DeleteKeepsContract DEF ContractHolds
  <2>3. CASE Writes
    <3> DEFINE r == Head(transactions).record
    <3>1. /\ Head(transactions) = transactions[1] /\ 1 \in DOMAIN transactions
          /\ transactions[1].kind # "delete"
      BY <2>0, <2>3, FirstTransaction DEF Writes
    <3>2. ~Gone(r)
      BY <2>0, <3>1 DEF NothingGone
    <3>3. stored' = WriteRecord(stored, r) /\ Writable(r) /\ WellFormed(stored)
      BY <2>0, <2>3 DEF Writes, ContractHolds
    <3> HIDE DEF r
    <3>4. stored'[c][g] # r
      BY <1>1, <3>2 DEF Gone
    <3>5. CASE c = r.workingCopyId
      <4>1. /\ stored'[c]["latest"] \in {r, stored[c]["latest"]}
            /\ stored'[c]["previous"] \in {stored[c]["latest"], stored[c]["previous"]}
        BY <3>3, <3>5, WriteEffect
      <4> QED BY <2>0, <3>4, <4>1
    <3>6. CASE c # r.workingCopyId
      BY <1>1, <3>3, <3>6, WriteEffect
    <3> QED BY <3>5, <3>6
  <2> QED BY <1>1, <2>0, <2>1, <2>2, <2>3, StoreSteps
<1>2. IInv /\ [Next]_vars
        => [\A c \in Copies, g \in Generations :
              (/\ stored'[c][g] # Absent
               /\ <<stored'[c][g].owner, stored'[c][g].stagedAt>> \in discarded)
              => \E h \in Generations : stored'[c][g] = stored[c][h]]_vars
  BY <1>1
<1> QED BY <1>2, Invariant, PTL DEF Spec, DiscardedWorkStaysGone
================================================================================
