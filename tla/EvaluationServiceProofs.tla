------------------------ MODULE EvaluationServiceProofs ------------------------
(***************************************************************************)
(* Proofs about the Evaluation Service, for any number of attempts, files, *)
(* steps, requests, calls and cases.  The parts of the service share no    *)
(* state, so each has an inductive invariant of its own.                   *)
(***************************************************************************)
EXTENDS EvaluationService, FiniteSetTheorems, SequenceTheorems, WellFoundedInduction, TLAPS

-----------------------------------------------------------------------------
(***************************************************************************)
(* Sums of natural numbers over finite sets, as the files, the scores and  *)
(* the cases are added up                                                  *)
(***************************************************************************)

LEMMA Least ==
  ASSUME NEW S, S \subseteq Nat, S # {}
  PROVE  \E x \in S : \A y \in S : x <= y
<1> DEFINE R == OpToRel(<, Nat)
<1>1. IsWellFoundedOn(R, Nat)
  BY NatLessThanWellFounded
<1>2. PICK x \in S : \A y \in S : ~(<<y, x>> \in R)
  <2> HIDE DEF R
  <2> QED BY <1>1, WFMin
<1>3. \A y \in S : ~(y < x)
  BY <1>2 DEF OpToRel
<1> QED BY <1>3

\* Among finite sets there is one that none is smaller than.
LEMMA Smallest ==
  ASSUME NEW U, U # {}, \A s \in U : IsFiniteSet(s)
  PROVE  \E s \in U : \A t \in U : Cardinality(s) <= Cardinality(t)
<1> DEFINE N == {Cardinality(s) : s \in U}
<1>1. \A s \in U : Cardinality(s) \in Nat
  BY FS_CardinalityType
<1>2. N \subseteq Nat /\ N # {}
  BY <1>1
<1>3. PICK x \in N : \A y \in N : x <= y
  BY <1>2, Least
<1> QED BY <1>3

Pick(s) == CHOOSE x \in s : TRUE

LEMMA Picked ==
  ASSUME NEW s, s # {}
  PROVE  Pick(s) \in s
BY DEF Pick

LEMMA Fewer ==
  ASSUME NEW s, IsFiniteSet(s), NEW x \in s
  PROVE  /\ IsFiniteSet(s \ {x}) /\ Cardinality(s \ {x}) < Cardinality(s)
         /\ Cardinality(s) \in Nat /\ Cardinality(s \ {x}) \in Nat
BY FS_RemoveElement, FS_CardinalityType

\* What the fold behind SumFunctionOnSet looks for.
IsSum(g, T, h) ==
  h = [s \in SUBSET T |-> IF s = {} THEN 0 ELSE g[Pick(s)] + h[s \ {Pick(s)}]]

LEMMA SumChosen ==
  ASSUME NEW g, NEW T
  PROVE  SumFunctionOnSet(g, T) = (CHOOSE h : IsSum(g, T, h))[T]
BY DEF SumFunctionOnSet, FoldFunctionOnSet, MapThenFoldSet, IsSum, Pick

LEMMA SumUnique ==
  ASSUME NEW g, NEW T, IsFiniteSet(T), NEW h, NEW k, IsSum(g, T, h), IsSum(g, T, k)
  PROVE  h[T] = k[T]
<1> DEFINE U == {s \in SUBSET T : h[s] # k[s]}
<1>1. SUFFICES ASSUME U # {} PROVE FALSE
  OBVIOUS
<1>2. \A s \in U : IsFiniteSet(s)
  BY FS_Subset
<1>3. PICK s \in U : \A t \in U : Cardinality(s) <= Cardinality(t)
  <2> HIDE DEF U
  <2> QED BY <1>1, <1>2, Smallest
<1>4. s \in SUBSET T /\ IsFiniteSet(s)
  BY <1>2
<1>5. CASE s = {}
  BY <1>3, <1>4, <1>5 DEF IsSum
<1>6. CASE s # {}
  <2>1. Pick(s) \in s
    BY <1>6, Picked
  <2>2. s \ {Pick(s)} \notin U
    <3>1. Cardinality(s \ {Pick(s)}) < Cardinality(s) /\ Cardinality(s) \in Nat /\ Cardinality(s \ {Pick(s)}) \in Nat
      BY <1>4, <2>1, Fewer
    <3> HIDE DEF U
    <3> QED BY <1>3, <3>1
  <2>3. h[s \ {Pick(s)}] = k[s \ {Pick(s)}]
    BY <1>4, <2>2
  <2>4. /\ h[s] = g[Pick(s)] + h[s \ {Pick(s)}]
        /\ k[s] = g[Pick(s)] + k[s \ {Pick(s)}]
    BY <1>4, <1>6 DEF IsSum
  <2> QED BY <1>3, <2>3, <2>4
<1> QED BY <1>5, <1>6

\* The equation of the fold.
SumOf(g, T) ==
  SumFunctionOnSet(g, T) = IF T = {} THEN 0 ELSE g[Pick(T)] + SumFunctionOnSet(g, T \ {Pick(T)})

LEMMA SumUnfolds ==
  ASSUME NEW g, NEW T, IsFiniteSet(T)
  PROVE  SumOf(g, T)
<1> DEFINE U == {s \in SUBSET T : ~SumOf(g, s)}
<1>1. SUFFICES ASSUME U # {} PROVE FALSE
  OBVIOUS
<1>2. \A s \in U : IsFiniteSet(s)
  BY FS_Subset
<1>3. PICK s \in U : \A t \in U : Cardinality(s) <= Cardinality(t)
  <2> HIDE DEF U
  <2> QED BY <1>1, <1>2, Smallest
<1>4. s \in SUBSET T /\ IsFiniteSet(s)
  BY <1>2
<1>5. \A t \in SUBSET s : t # s => SumOf(g, t)
  <2> SUFFICES ASSUME NEW t \in SUBSET s, t # s, ~SumOf(g, t) PROVE FALSE
    OBVIOUS
  <2>1. t \in U
    BY <1>4
  <2>2. /\ Cardinality(t) <= Cardinality(s) /\ Cardinality(s) # Cardinality(t)
        /\ Cardinality(s) \in Nat /\ Cardinality(t) \in Nat
    BY <1>4, FS_Subset, FS_CardinalityType
  <2> HIDE DEF U
  <2> QED BY <1>3, <2>1, <2>2
<1> DEFINE S(t) == SumFunctionOnSet(g, t)
           value == IF s = {} THEN 0 ELSE g[Pick(s)] + S(s \ {Pick(s)})
           h == [t \in SUBSET s |-> IF t = s THEN value ELSE S(t)]
<1>6. \A t \in SUBSET s : t # s => S(t) = IF t = {} THEN 0 ELSE g[Pick(t)] + S(t \ {Pick(t)})
  BY <1>5 DEF SumOf
<1>7. IsSum(g, s, h)
  <2> HIDE DEF S
  <2>1. \A t \in SUBSET s : t # {} => t \ {Pick(t)} \in SUBSET s /\ t \ {Pick(t)} # s
    BY Picked
  <2>2. \A t \in SUBSET s : t # {} => h[t \ {Pick(t)}] = S(t \ {Pick(t)})
    BY <2>1
  <2>3. \A t \in SUBSET s : h[t] = IF t = {} THEN 0 ELSE g[Pick(t)] + h[t \ {Pick(t)}]
    <3> SUFFICES ASSUME NEW t \in SUBSET s
                 PROVE  h[t] = IF t = {} THEN 0 ELSE g[Pick(t)] + S(t \ {Pick(t)})
      BY <2>2
    <3>1. CASE t = s
      BY <3>1
    <3>2. CASE t # s
      BY <1>6, <3>2
    <3> QED BY <3>1, <3>2
  <2>4. h = [t \in SUBSET s |-> h[t]]
    OBVIOUS
  <2> HIDE DEF h
  <2> QED BY <2>3, <2>4 DEF IsSum
<1> HIDE DEF h
<1>8. IsSum(g, s, CHOOSE k : IsSum(g, s, k))
  BY <1>7
<1>9. S(s) = h[s]
  BY <1>4, <1>7, <1>8, SumChosen, SumUnique
<1>10. h[s] = value
  BY DEF h
<1>11. SumOf(g, s)
  BY <1>9, <1>10 DEF SumOf
<1> QED BY <1>3, <1>11

LEMMA SumEmpty == ASSUME NEW g PROVE SumFunctionOnSet(g, {}) = 0
BY SumUnfolds, FS_EmptySet DEF SumOf

LEMMA SumNat ==
  ASSUME NEW D, NEW g \in [D -> Nat], NEW T \in SUBSET D, IsFiniteSet(T)
  PROVE  SumFunctionOnSet(g, T) \in Nat
<1> DEFINE U == {s \in SUBSET T : SumFunctionOnSet(g, s) \notin Nat}
<1>1. SUFFICES ASSUME U # {} PROVE FALSE
  OBVIOUS
<1>2. \A s \in U : IsFiniteSet(s)
  BY FS_Subset
<1>3. PICK s \in U : \A t \in U : Cardinality(s) <= Cardinality(t)
  <2> HIDE DEF U
  <2> QED BY <1>1, <1>2, Smallest
<1>4. s \in SUBSET T /\ IsFiniteSet(s) /\ SumFunctionOnSet(g, s) \notin Nat
  BY <1>2
<1>5. s # {}
  BY <1>4, SumEmpty
<1>6. Pick(s) \in s
  BY <1>5, Picked
<1>7. /\ IsFiniteSet(s \ {Pick(s)}) /\ Cardinality(s \ {Pick(s)}) < Cardinality(s)
      /\ Cardinality(s) \in Nat /\ Cardinality(s \ {Pick(s)}) \in Nat
  BY <1>4, <1>6, Fewer
<1>8. s \ {Pick(s)} \notin U
  <2> HIDE DEF U
  <2> QED BY <1>3, <1>7
<1>9. SumFunctionOnSet(g, s \ {Pick(s)}) \in Nat
  BY <1>4, <1>8
<1>10. SumFunctionOnSet(g, s) = g[Pick(s)] + SumFunctionOnSet(g, s \ {Pick(s)})
  BY <1>4, <1>5, SumUnfolds DEF SumOf
<1>11. g[Pick(s)] \in Nat
  BY <1>4, <1>6
<1> QED BY <1>4, <1>9, <1>10, <1>11

\* The order in which the fold takes the elements does not matter.
LEMMA SumAdds ==
  ASSUME NEW D, NEW g \in [D -> Nat], NEW T \in SUBSET D, IsFiniteSet(T), NEW x \in D, x \notin T
  PROVE  SumFunctionOnSet(g, T \cup {x}) = g[x] + SumFunctionOnSet(g, T)
<1> DEFINE S(t) == SumFunctionOnSet(g, t)
           U == {s \in SUBSET T : \E y \in D : y \notin s /\ S(s \cup {y}) # g[y] + S(s)}
<1>1. SUFFICES ASSUME U # {} PROVE FALSE
  OBVIOUS
<1>2. \A s \in U : IsFiniteSet(s)
  BY FS_Subset
<1>3. PICK s \in U : \A t \in U : Cardinality(s) <= Cardinality(t)
  <2> HIDE DEF U
  <2> QED BY <1>1, <1>2, Smallest
<1>4. s \in SUBSET T /\ IsFiniteSet(s)
  BY <1>2
<1>5. PICK y \in D : y \notin s /\ S(s \cup {y}) # g[y] + S(s)
  OBVIOUS
<1> DEFINE z == Pick(s \cup {y})
<1>6. /\ IsFiniteSet(s \cup {y}) /\ z \in s \cup {y}
      /\ S(s \cup {y}) = g[z] + S((s \cup {y}) \ {z})
  <2>1. IsFiniteSet(s \cup {y})
    BY <1>4, FS_AddElement
  <2> QED BY <2>1, Picked, SumUnfolds DEF SumOf
<1>7. z # y
  <2>1. z = y => (s \cup {y}) \ {z} = s
    BY <1>5
  <2> HIDE DEF z, S, U
  <2> QED BY <1>5, <1>6, <2>1
<1>8. z \in s /\ (s \cup {y}) \ {z} = (s \ {z}) \cup {y} /\ s = (s \ {z}) \cup {z}
  <2> HIDE DEF z, S, U
  <2> QED BY <1>6, <1>7
<1> HIDE DEF z
<1>9. s \ {z} \notin U
  <2>1. Cardinality(s \ {z}) < Cardinality(s) /\ Cardinality(s) \in Nat /\ Cardinality(s \ {z}) \in Nat
    BY <1>4, <1>8, Fewer
  <2> HIDE DEF U
  <2> QED BY <1>3, <2>1
<1>10. /\ S((s \ {z}) \cup {y}) = g[y] + S(s \ {z})
       /\ S((s \ {z}) \cup {z}) = g[z] + S(s \ {z})
  <2>1. y \in D /\ z \in D /\ y \notin s \ {z} /\ z \notin s \ {z} /\ s \ {z} \in SUBSET T
    BY <1>4, <1>5, <1>8
  <2> HIDE DEF S
  <2> QED BY <1>9, <2>1
<1>11. S(s \ {z}) \in Nat /\ g[y] \in Nat /\ g[z] \in Nat
  BY <1>4, <1>8, SumNat, FS_Subset
<1> HIDE DEF S, U
<1>12. S(s) = g[z] + S(s \ {z})
  BY <1>8, <1>10
<1>13. S(s \cup {y}) = g[z] + (g[y] + S(s \ {z}))
  BY <1>6, <1>8, <1>10
<1> QED BY <1>5, <1>11, <1>12, <1>13

\* A sum depends on the values at its indices only.
LEMMA SumSame ==
  ASSUME NEW g, NEW k, NEW T, IsFiniteSet(T), \A x \in T : g[x] = k[x]
  PROVE  SumFunctionOnSet(g, T) = SumFunctionOnSet(k, T)
<1> DEFINE U == {s \in SUBSET T : SumFunctionOnSet(g, s) # SumFunctionOnSet(k, s)}
<1>1. SUFFICES ASSUME U # {} PROVE FALSE
  OBVIOUS
<1>2. \A s \in U : IsFiniteSet(s)
  BY FS_Subset
<1>3. PICK s \in U : \A t \in U : Cardinality(s) <= Cardinality(t)
  <2> HIDE DEF U
  <2> QED BY <1>1, <1>2, Smallest
<1>4. s \in SUBSET T /\ IsFiniteSet(s) /\ SumFunctionOnSet(g, s) # SumFunctionOnSet(k, s)
  BY <1>2
<1>5. s # {}
  BY <1>4, SumEmpty
<1>6. Pick(s) \in s
  BY <1>5, Picked
<1>7. Cardinality(s \ {Pick(s)}) < Cardinality(s) /\ Cardinality(s) \in Nat /\ Cardinality(s \ {Pick(s)}) \in Nat
  BY <1>4, <1>6, Fewer
<1>8. s \ {Pick(s)} \notin U
  <2> HIDE DEF U
  <2> QED BY <1>3, <1>7
<1>9. SumFunctionOnSet(g, s \ {Pick(s)}) = SumFunctionOnSet(k, s \ {Pick(s)})
  BY <1>4, <1>8
<1>10. /\ SumFunctionOnSet(g, s) = g[Pick(s)] + SumFunctionOnSet(g, s \ {Pick(s)})
       /\ SumFunctionOnSet(k, s) = k[Pick(s)] + SumFunctionOnSet(k, s \ {Pick(s)})
  BY <1>4, <1>5, SumUnfolds DEF SumOf
<1>11. g[Pick(s)] = k[Pick(s)]
  BY <1>4, <1>6
<1> QED BY <1>4, <1>9, <1>10, <1>11

LEMMA SumSplits ==
  ASSUME NEW D, NEW g \in [D -> Nat], NEW T \in SUBSET D, IsFiniteSet(T), NEW P \in SUBSET T
  PROVE  SumFunctionOnSet(g, T) = SumFunctionOnSet(g, P) + SumFunctionOnSet(g, T \ P)
<1> DEFINE S(t) == SumFunctionOnSet(g, t)
           U == {s \in SUBSET T : S(T) # S(s) + S(T \ s)}
<1>1. SUFFICES ASSUME U # {} PROVE FALSE
  OBVIOUS
<1>2. \A s \in U : IsFiniteSet(s)
  BY FS_Subset
<1>3. PICK s \in U : \A t \in U : Cardinality(s) <= Cardinality(t)
  <2> HIDE DEF U
  <2> QED BY <1>1, <1>2, Smallest
<1>4. s \in SUBSET T /\ IsFiniteSet(s) /\ S(T) # S(s) + S(T \ s)
  BY <1>2
<1>5. \A t \in SUBSET T : S(t) \in Nat /\ IsFiniteSet(t)
  BY SumNat, FS_Subset
<1>6. s # {}
  <2>1. S({}) = 0 /\ T \ {} = T
    BY SumEmpty
  <2> HIDE DEF S, U
  <2> QED BY <1>4, <1>5, <2>1
<1>7. PICK x : x \in s
  BY <1>6
<1>8. s \ {x} \notin U
  <2>1. Cardinality(s \ {x}) < Cardinality(s) /\ Cardinality(s) \in Nat /\ Cardinality(s \ {x}) \in Nat
    BY <1>4, <1>7, Fewer
  <2> HIDE DEF U
  <2> QED BY <1>3, <2>1
<1>9. S(T) = S(s \ {x}) + S(T \ (s \ {x}))
  BY <1>4, <1>8
<1>10. S(s) = g[x] + S(s \ {x})
  <2>1. s = (s \ {x}) \cup {x} /\ s \ {x} \in SUBSET D /\ IsFiniteSet(s \ {x}) /\ x \in D /\ x \notin s \ {x}
    BY <1>4, <1>5, <1>7
  <2>2. SumFunctionOnSet(g, (s \ {x}) \cup {x}) = g[x] + SumFunctionOnSet(g, s \ {x})
    BY <2>1, SumAdds
  <2> QED BY <2>1, <2>2
<1>11. S(T \ (s \ {x})) = g[x] + S(T \ s)
  <2>1. /\ T \ (s \ {x}) = (T \ s) \cup {x} /\ T \ s \in SUBSET D /\ IsFiniteSet(T \ s)
        /\ x \in D /\ x \notin T \ s
    BY <1>4, <1>5, <1>7
  <2> DEFINE R == T \ s
  <2>2. R \in SUBSET D /\ IsFiniteSet(R) /\ x \in D /\ x \notin R
    BY <2>1
  <2>3. SumFunctionOnSet(g, R \cup {x}) = g[x] + SumFunctionOnSet(g, R)
    <3> HIDE DEF R
    <3> QED BY <2>2, SumAdds
  <2> QED BY <2>1, <2>3
<1>12. g[x] \in Nat /\ S(s \ {x}) \in Nat /\ S(T \ s) \in Nat
  BY <1>4, <1>5, <1>7
<1> HIDE DEF S, U
<1> QED BY <1>4, <1>9, <1>10, <1>11, <1>12

\* A part of a sum of positive numbers is the whole only if nothing is left out.
LEMMA SumPart ==
  ASSUME NEW D, NEW g \in [D -> Nat], IsFiniteSet(D), NEW P \in SUBSET D
  PROVE  /\ SumFunctionOnSet(g, P) \in Nat /\ SumFunctionOnSet(g, D) \in Nat
         /\ SumFunctionOnSet(g, P) <= SumFunctionOnSet(g, D)
         /\ (\A x \in D : g[x] # 0) /\ P # D => SumFunctionOnSet(g, P) < SumFunctionOnSet(g, D)
<1> DEFINE S(t) == SumFunctionOnSet(g, t)
<1>1. \A t \in SUBSET D : S(t) \in Nat /\ IsFiniteSet(t)
  BY SumNat, FS_Subset
<1>2. S(D) = S(P) + S(D \ P)
  BY SumSplits
<1>3. ASSUME \A x \in D : g[x] # 0, P # D
      PROVE  S(D \ P) > 0
  <2>1. PICK x \in D : x \notin P
    BY <1>3
  <2> DEFINE Q == (D \ P) \ {x}
  <2>2. D \ P = Q \cup {x} /\ Q \in SUBSET D /\ x \notin Q
    BY <2>1
  <2>3. S(Q \cup {x}) = g[x] + S(Q)
    BY <1>1, <2>2, SumAdds
  <2>4. g[x] \in Nat /\ g[x] # 0 /\ S(Q) \in Nat
    BY <1>1, <1>3, <2>2
  <2> HIDE DEF S, Q
  <2> QED BY <2>2, <2>3, <2>4
<1>4. S(P) \in Nat /\ S(D \ P) \in Nat /\ S(D) \in Nat
  BY <1>1
<1>5. S(P) <= S(D) /\ (S(D \ P) > 0 => S(P) < S(D))
  <2> HIDE DEF S
  <2> QED BY <1>2, <1>4
<1> QED BY <1>3, <1>4, <1>5

-----------------------------------------------------------------------------
(***************************************************************************)
(* Freezing a submission                                                   *)
(***************************************************************************)

TryRow == [state : OpenTry \cup {"completed", "failed"}, live : BOOLEAN]

Working == {"reserved", "preflighting", "uploading", "uploaded"}

PodRow == [phase : {"none", "starting", "reserved", "preflighting", "uploading", "uploaded", "succeeded", "failed"},
           bundle : 0..MaxBundles, attempt : 0..MaxFreezeAttempts]

FreezeTyped == FreezeTypeOK /\ tries \in Seq(TryRow) /\ Len(tries) <= MaxFreezeAttempts

\* The cluster: a Job that is absent has no pod, the coordinator is between two
\* calls only for a command that is running, and one that is settled is clean.
ClusterClean ==
  /\ job = "none" => pods["job"].phase = "none" /\ ~deleting
  /\ at # "idle" => command.state = "running"
  /\ at \in {"config", "secret"} => job = "none"
  /\ at = "cleaned" => bundle.state = "none" /\ (job = "none" \/ deleting)
  /\ command.state = "none" => job = "none" /\ tries = <<>> /\ result = 0 /\ pods["lost"].phase = "none"
  /\ SettledClean

\* A pod that is at work has a row, and what it has uploaded is there.
PodWhole(w) ==
  /\ pods[w].phase \in Working => pods[w].attempt \in 1..Len(tries)
  /\ pods[w].phase = "uploaded" => pods[w].attempt \in objects

\* The rows: only the last attempt is open, and only while the request is active.
RowsWhole ==
  /\ freezing.state = "none" => tries = <<>>
  /\ freezing.state = "active" => Len(tries) > 0 /\ tries[Len(tries)].state \in OpenTry
  /\ freezing.state = "completed" => result # 0
  /\ result # 0 => result \in 1..Len(tries)
  /\ \A w \in Pods : PodWhole(w)
  /\ FrozenWhole

FreezeInv == FreezeTyped /\ ClusterClean /\ RowsWhole

LEMMA FreezeInitially == ASSUME FreezeInit PROVE FreezeInv
<1>1. tries \in Seq(TryRow) /\ Len(tries) = 0 /\ DOMAIN tries = {}
  BY EmptySeq DEF FreezeInit
<1>2. FreezeTypeOK
  <2>1. 0 \in 0..MaxBundles /\ 0 \in 0..MaxFreezeAttempts /\ 0 \in 0..2
    BY FreezeBounds
  <2>2. \A n \in DOMAIN tries : tries[n] \in [state : OpenTry \cup {"completed", "failed"}, live : BOOLEAN]
    BY <1>1
  <2> QED BY <2>1, <2>2, Zenon DEF FreezeInit, FreezeTypeOK, NoPod, Pods
<1>3. ClusterClean
  BY DEF FreezeInit, ClusterClean, SettledClean, NoPod, Pods
<1>4. RowsWhole
  BY <1>1 DEF FreezeInit, RowsWhole, PodWhole, FrozenWhole, NoPod, Working
<1> QED BY <1>1, <1>2, <1>3, <1>4, FreezeBounds DEF FreezeInv, FreezeTyped

LEMMA TriesFacts ==
  ASSUME FreezeInv
  PROVE  /\ Len(tries) \in Nat /\ DOMAIN tries = 1..Len(tries)
         /\ \A n \in 1..Len(tries) : tries[n] \in TryRow
BY LenProperties, ElementOfSeq DEF FreezeInv, FreezeTyped

\* The coordinator and Kubernetes: the rows are left alone.
LEMMA RowsKept ==
  ASSUME FreezeInv, UNCHANGED <<worker, told>>,
         \A w \in Pods : PodWhole(w) => PodWhole(w)',
         command'.state = "completed" => result # 0
  PROVE  RowsWhole'
BY DEF FreezeInv, RowsWhole, FrozenWhole, worker

LEMMA AcceptKeeps == ASSUME FreezeInv, Accept PROVE FreezeInv'
<1>1. tries' = tries /\ result' = 0 /\ tries = <<>> /\ pods' = pods
      /\ \A w \in Pods : pods[w].phase = "none"
  BY DEF Accept, FreezeInv, ClusterClean, worker, Pods
<1>2. Len(tries) = 0 /\ DOMAIN tries = {}
  BY <1>1
<1>3. FreezeTyped'
  BY <1>1 DEF Accept, FreezeInv, FreezeTyped, FreezeTypeOK, worker
<1>4. ClusterClean'
  BY <1>1, <1>3 DEF Accept, FreezeInv, FreezeTyped, FreezeTypeOK, ClusterClean, SettledClean, worker
<1>5. RowsWhole'
  BY <1>1, <1>2 DEF Accept, FreezeInv, RowsWhole, PodWhole, FrozenWhole, FreezeTyped, FreezeTypeOK, Working, worker
<1> QED BY <1>3, <1>4, <1>5 DEF FreezeInv

\* What a cleanup leaves in the cluster, whether it is carried out or refused.
LEMMA CleanupLeaves ==
  ASSUME FreezeInv, NEW done \in BOOLEAN, Cleanup(done)
  PROVE  /\ bundle' \in [state : {"none", "partial", "whole"}, made : 0..MaxBundles]
         /\ job' \in {"none", "active", "succeeded", "failed"} /\ deleting' \in BOOLEAN
         /\ job' = "none" => pods["job"].phase = "none" /\ ~deleting'
         /\ job' = "none" \/ deleting'
         /\ done => bundle'.state = "none"
BY DEF Cleanup, DeleteJob, FreezeInv, FreezeTyped, FreezeTypeOK, ClusterClean

LEMMA RefusalLeaves ==
  ASSUME FreezeInv, CleanupRefused
  PROVE  /\ bundle' \in [state : {"none", "partial", "whole"}, made : 0..MaxBundles]
         /\ job' \in {"none", "active", "succeeded", "failed"} /\ deleting' \in BOOLEAN
         /\ job' = "none" => pods["job"].phase = "none" /\ ~deleting'
<1>1. CASE UNCHANGED <<job, deleting, bundle>>
  BY <1>1 DEF FreezeInv, FreezeTyped, FreezeTypeOK, ClusterClean
<1>2. CASE DeleteJob /\ UNCHANGED bundle
  BY <1>2 DEF DeleteJob, FreezeInv, FreezeTyped, FreezeTypeOK, ClusterClean
<1>3. CASE Cleanup(FALSE)
  BY <1>3, CleanupLeaves
<1> QED BY <1>1, <1>2, <1>3 DEF CleanupRefused

\* The coordinator steps of a command that is neither new nor settled.
LEMMA CoordinatorKeeps ==
  ASSUME FreezeInv,
         UNCHANGED <<late, pods, worker, told>>,
         bundle' \in [state : {"none", "partial", "whole"}, made : 0..MaxBundles],
         job' \in {"none", "active", "succeeded", "failed"}, deleting' \in BOOLEAN,
         job' = "none" => pods["job"].phase = "none" /\ ~deleting',
         command' \in [state : {"running", "failed"}, verified : BOOLEAN],
         at' = "idle" \/ (at' = "cleaned" /\ command'.state = "running" /\ bundle'.state = "none"
                                          /\ (job' = "none" \/ deleting')),
         command'.state = "failed" /\ command'.verified =>
           bundle'.state = "none" /\ (job' = "none" \/ deleting')
  PROVE  FreezeInv'
<1>1. FreezeTyped'
  BY DEF FreezeInv, FreezeTyped, FreezeTypeOK, worker
<1>2. command'.state \in {"running", "failed"}
  OBVIOUS
<1>3. ClusterClean'
  BY <1>2 DEF ClusterClean, SettledClean
<1>4. \A w \in Pods : PodWhole(w) => PodWhole(w)'
  BY DEF PodWhole, worker
<1>5. RowsWhole'
  BY <1>2, <1>4, RowsKept
<1> QED BY <1>1, <1>3, <1>5 DEF FreezeInv

LEMMA CleanupPartialBundleKeeps == ASSUME FreezeInv, CleanupPartialBundle PROVE FreezeInv'
<1>1. command' = command /\ command.state = "running" /\ at' = "idle" /\ UNCHANGED <<late, pods, worker, told>>
      /\ command \in [state : {"none", "queued", "running", "completed", "failed"}, verified : BOOLEAN]
  BY DEF CleanupPartialBundle, Reconciling, FreezeInv, FreezeTyped, FreezeTypeOK
<1>2. (\E done \in BOOLEAN : Cleanup(done)) \/ CleanupRefused
  BY DEF CleanupPartialBundle
<1>3. /\ bundle' \in [state : {"none", "partial", "whole"}, made : 0..MaxBundles]
      /\ job' \in {"none", "active", "succeeded", "failed"} /\ deleting' \in BOOLEAN
      /\ job' = "none" => pods["job"].phase = "none" /\ ~deleting'
  BY <1>2, CleanupLeaves, RefusalLeaves
<1>4. command' \in [state : {"running", "failed"}, verified : BOOLEAN] /\ command'.state = "running"
  BY <1>1
<1> QED BY <1>1, <1>3, <1>4, CoordinatorKeeps

LEMMA CleanupFailedCommandKeeps == ASSUME FreezeInv, CleanupFailedCommand PROVE FreezeInv'
<1>1. /\ command.state = "failed" /\ ~command.verified /\ at' = "idle" /\ UNCHANGED <<late, pods, worker, told>>
      /\ command \in [state : {"none", "queued", "running", "completed", "failed"}, verified : BOOLEAN]
  BY DEF CleanupFailedCommand, FreezeInv, FreezeTyped, FreezeTypeOK
<1>2. CASE Cleanup(TRUE) /\ command' = [command EXCEPT !.verified = TRUE]
  <2>1. command' \in [state : {"running", "failed"}, verified : BOOLEAN]
    BY <1>1, <1>2
  <2> QED BY <1>1, <1>2, <2>1, CleanupLeaves, CoordinatorKeeps
<1>3. CASE (Cleanup(FALSE) \/ CleanupRefused) /\ UNCHANGED command
  <2>1. command' \in [state : {"running", "failed"}, verified : BOOLEAN] /\ ~command'.verified
    BY <1>1, <1>3
  <2> QED BY <1>1, <1>3, <2>1, CleanupLeaves, RefusalLeaves, CoordinatorKeeps
<1> QED BY <1>2, <1>3 DEF CleanupFailedCommand

LEMMA CleanupSucceededJobKeeps == ASSUME FreezeInv, CleanupSucceededJob PROVE FreezeInv'
<1>1. /\ command' = command /\ command.state = "running" /\ at = "idle" /\ UNCHANGED <<late, pods, worker, told>>
      /\ command \in [state : {"none", "queued", "running", "completed", "failed"}, verified : BOOLEAN]
  BY DEF CleanupSucceededJob, Reconciling, FreezeInv, FreezeTyped, FreezeTypeOK
<1>2. command' \in [state : {"running", "failed"}, verified : BOOLEAN] /\ command'.state = "running"
  BY <1>1
<1>3. CASE Cleanup(TRUE) /\ at' = "cleaned"
  BY <1>1, <1>2, <1>3, CleanupLeaves, CoordinatorKeeps
<1>4. CASE (Cleanup(FALSE) \/ CleanupRefused) /\ UNCHANGED at
  BY <1>1, <1>2, <1>4, CleanupLeaves, RefusalLeaves, CoordinatorKeeps
<1> QED BY <1>3, <1>4 DEF CleanupSucceededJob

LEMMA FailCommandAfterCleanupKeeps == ASSUME FreezeInv, FailCommandAfterCleanup PROVE FreezeInv'
<1>1. /\ command.state = "running" /\ at' = "idle" /\ UNCHANGED <<late, pods, worker, told>>
      /\ command \in [state : {"none", "queued", "running", "completed", "failed"}, verified : BOOLEAN]
  BY DEF FailCommandAfterCleanup, FreezeInv, FreezeTyped, FreezeTypeOK, ClusterClean
<1>2. CASE Cleanup(TRUE) /\ MarkFailed(TRUE)
  <2>1. command' \in [state : {"running", "failed"}, verified : BOOLEAN]
    BY <1>2 DEF MarkFailed
  <2> QED BY <1>1, <1>2, <2>1, CleanupLeaves, CoordinatorKeeps
<1>3. CASE (Cleanup(FALSE) \/ CleanupRefused) /\ UNCHANGED command
  <2>1. command' \in [state : {"running", "failed"}, verified : BOOLEAN] /\ command'.state = "running"
    BY <1>1, <1>3
  <2> QED BY <1>1, <1>3, <2>1, CleanupLeaves, RefusalLeaves, CoordinatorKeeps
<1> QED BY <1>2, <1>3 DEF FailCommandAfterCleanup

LEMMA MarkFailedPendingCleanupKeeps == ASSUME FreezeInv, MarkFailedPendingCleanup PROVE FreezeInv'
<1>1. /\ at' = "idle" /\ UNCHANGED <<late, bundle, job, deleting, pods, worker, told>>
      /\ command' = [state |-> "failed", verified |-> FALSE]
  BY DEF MarkFailedPendingCleanup, Reconciling, MarkFailed
<1>2. command' \in [state : {"running", "failed"}, verified : BOOLEAN] /\ ~command'.verified
  BY <1>1
<1>3. /\ bundle' \in [state : {"none", "partial", "whole"}, made : 0..MaxBundles]
      /\ job' \in {"none", "active", "succeeded", "failed"} /\ deleting' \in BOOLEAN
      /\ job' = "none" => pods["job"].phase = "none" /\ ~deleting'
  BY <1>1 DEF FreezeInv, FreezeTyped, FreezeTypeOK, ClusterClean
<1> QED BY <1>1, <1>2, <1>3, CoordinatorKeeps

\* The other steps of the coordinator and those of Kubernetes.
LEMMA OutsideKeeps ==
  ASSUME FreezeInv, UNCHANGED <<worker, told>>,
         FreezeTypeOK', ClusterClean',
         \A w \in Pods : PodWhole(w) => PodWhole(w)',
         command'.state = "completed" => result # 0
  PROVE  FreezeInv'
BY RowsKept DEF FreezeInv, FreezeTyped, worker

LEMMA NewBundleNumber == ASSUME FreezeInv PROVE NewBundle \in 1..MaxBundles
<1> DEFINE used == {freezing.bundle, pods["job"].bundle, pods["lost"].bundle}
           Free(n) == n # freezing.bundle /\ \A w \in Pods : n # pods[w].bundle
           Taken(m) == m = freezing.bundle \/ \E w \in Pods : m = pods[w].bundle
<1>1. MaxBundles \in Nat /\ MaxBundles >= 4
  BY FreezeBounds
<1>2. freezing.bundle \in 0..MaxBundles /\ pods["job"].bundle \in 0..MaxBundles /\ pods["lost"].bundle \in 0..MaxBundles
  BY DEF FreezeInv, FreezeTyped, FreezeTypeOK, Pods
<1>3. \A n : Taken(n) <=> n = freezing.bundle \/ n = pods["job"].bundle \/ n = pods["lost"].bundle
  BY DEF Pods
<1>4. \A n : Free(n) <=> ~Taken(n)
  OBVIOUS
<1> HIDE DEF Free, Taken
<1>5. ~Taken(1) \/ ~Taken(2) \/ ~Taken(3) \/ ~Taken(4)
  BY <1>2, <1>3
<1>6. \E n \in 1..MaxBundles : Free(n) /\ \A m \in 1..(n - 1) : Taken(m)
  <2>1. CASE ~Taken(1)
    BY <1>1, <1>4, <2>1
  <2>2. CASE Taken(1) /\ ~Taken(2)
    <3>1. \A m \in 1..(2 - 1) : m = 1
      OBVIOUS
    <3> QED BY <1>1, <1>4, <2>2, <3>1
  <2>3. CASE Taken(1) /\ Taken(2) /\ ~Taken(3)
    <3>1. \A m \in 1..(3 - 1) : m = 1 \/ m = 2
      OBVIOUS
    <3> QED BY <1>1, <1>4, <2>3, <3>1
  <2>4. CASE Taken(1) /\ Taken(2) /\ Taken(3) /\ ~Taken(4)
    <3>1. \A m \in 1..(4 - 1) : m = 1 \/ m = 2 \/ m = 3
      OBVIOUS
    <3> QED BY <1>1, <1>4, <2>4, <3>1
  <2> QED BY <1>5, <2>1, <2>2, <2>3, <2>4
<1> QED BY <1>6 DEF NewBundle, Free, Taken

LEMMA CoordinatorStepsKeep ==
  ASSUME FreezeInv,
         CommandDeadlinePasses \/ ClaimNext \/ CreateConfig \/ CreateSecret \/ CreateJob
           \/ ReconcileFails \/ CoordinatorStops \/ MarkCompleted
  PROVE  FreezeInv'
<1> USE DEF FreezeInv, FreezeTyped, FreezeTypeOK, ClusterClean, SettledClean, Reconciling, worker
<1>1. /\ command \in [state : {"none", "queued", "running", "completed", "failed"}, verified : BOOLEAN]
      /\ command.state = "completed" => result # 0
  BY DEF RowsWhole, FrozenWhole
<1>0. ASSUME UNCHANGED <<pods, worker>> PROVE \A w \in Pods : PodWhole(w) => PodWhole(w)'
  BY <1>0 DEF PodWhole
<1>2. CASE CommandDeadlinePasses
  <2>1. FreezeTypeOK' /\ ClusterClean'
    BY <1>2 DEF CommandDeadlinePasses
  <2> QED BY <1>0, <1>1, <1>2, <2>1, OutsideKeeps DEF CommandDeadlinePasses
<1>3. CASE ClaimNext
  <2>1. FreezeTypeOK' /\ ClusterClean' /\ command'.state = "running"
    BY <1>3 DEF ClaimNext
  <2> QED BY <1>0, <1>3, <2>1, OutsideKeeps DEF ClaimNext
<1>4. CASE CreateConfig
  <2>1. NewBundle \in 0..MaxBundles
    BY NewBundleNumber, FreezeBounds
  <2>2. FreezeTypeOK' /\ ClusterClean'
    BY <1>4, <2>1 DEF CreateConfig
  <2> QED BY <1>0, <1>1, <1>4, <2>2, OutsideKeeps DEF CreateConfig
<1>5. CASE CreateSecret
  <2>1. FreezeTypeOK' /\ ClusterClean'
    BY <1>5 DEF CreateSecret
  <2> QED BY <1>0, <1>1, <1>5, <2>1, OutsideKeeps DEF CreateSecret
<1>6. CASE CreateJob
  <2>1. 0 \in 0..MaxFreezeAttempts /\ bundle.made \in 0..MaxBundles
    BY FreezeBounds
  <2>2. /\ [phase |-> "starting", bundle |-> bundle.made, attempt |-> 0] \in PodRow
        /\ "job" \in Pods /\ "lost" \in Pods
        /\ pods' = [pods EXCEPT !["job"] = [phase |-> "starting", bundle |-> bundle.made, attempt |-> 0]]
    BY <1>6, <2>1 DEF CreateJob, PodRow, Pods
  <2>3. pods \in [Pods -> PodRow]
    BY DEF PodRow
  <2>4. pods' \in [Pods -> PodRow] /\ pods'["lost"] = pods["lost"] /\ pods'["job"].phase = "starting"
    BY <2>2, <2>3
  <2>5. FreezeTypeOK' /\ ClusterClean'
    BY <1>6, <2>4 DEF CreateJob, PodRow
  <2>6. \A w \in Pods : PodWhole(w) => PodWhole(w)'
    BY <1>6, <2>2, <2>3, <2>4 DEF CreateJob, PodWhole, Working, Pods
  <2> QED BY <1>1, <1>6, <2>5, <2>6, OutsideKeeps DEF CreateJob
<1>7. CASE CoordinatorStops \/ ReconcileFails
  <2>1. /\ UNCHANGED <<command, late, bundle, job, deleting, pods, worker, told>>
        /\ at' \in {"idle", "terminal"} /\ (at' = "terminal" => command.state = "running")
    BY <1>7 DEF CoordinatorStops, ReconcileFails
  <2>2. FreezeTypeOK' /\ ClusterClean'
    BY <2>1
  <2> QED BY <1>0, <1>1, <2>1, <2>2, OutsideKeeps
<1>8. CASE MarkCompleted
  <2>1. FreezeTypeOK' /\ ClusterClean'
    BY <1>8 DEF MarkCompleted
  <2> QED BY <1>0, <1>8, <2>1, OutsideKeeps DEF MarkCompleted
<1> QED BY <1>2, <1>3, <1>4, <1>5, <1>6, <1>7, <1>8

LEMMA KubernetesKeeps ==
  ASSUME FreezeInv, (\E w \in Pods : PodStopped(w) \/ PodEnds(w)) \/ PodLost \/ JobGone
  PROVE  FreezeInv'
<1> USE DEF FreezeInv, FreezeTyped, FreezeTypeOK, ClusterClean, SettledClean, worker
<1>1. command.state = "completed" => result # 0
  BY DEF RowsWhole, FrozenWhole
<1>2. NoPod \in PodRow /\ NoPod.phase = "none" /\ pods \in [Pods -> PodRow] /\ "job" \in Pods /\ "lost" \in Pods
  BY FreezeBounds DEF NoPod, PodRow, Pods
<1>3. ASSUME NEW w \in Pods, PodStopped(w) \/ PodEnds(w) PROVE FreezeInv'
  <2>1. /\ UNCHANGED <<command, late, at, bundle, deleting, worker, told>>
        /\ pods' = [pods EXCEPT ![w] = NoPod] /\ pods[w].phase # "none"
        /\ job' \in {"none", "active", "succeeded", "failed"} /\ (job' = "none" <=> job = "none")
    BY <1>3 DEF PodStopped, PodEnds, JobOf
  <2>2. pods' \in [Pods -> PodRow] /\ \A v \in Pods : pods'[v] = pods[v] \/ pods'[v].phase = "none"
    <3> HIDE DEF NoPod
    <3> QED BY <1>2, <2>1
  <2>3. FreezeTypeOK' /\ ClusterClean'
    BY <1>2, <2>1, <2>2 DEF PodRow
  <2>4. \A v \in Pods : PodWhole(v) => PodWhole(v)'
    BY <2>1, <2>2 DEF PodWhole, Working
  <2> QED BY <1>1, <2>1, <2>3, <2>4, OutsideKeeps
<1>4. CASE PodLost
  <2>1. /\ UNCHANGED <<command, late, at, bundle, deleting, worker, told>>
        /\ pods' = [pods EXCEPT !["job"] = NoPod, !["lost"] = pods["job"]]
        /\ pods["job"].phase # "none"
        /\ job' \in {"none", "active", "succeeded", "failed"} /\ (job' = "none" <=> job = "none")
    BY <1>4 DEF PodLost, JobOf
  <2>2. pods' \in [Pods -> PodRow] /\ pods'["job"].phase = "none" /\ pods'["lost"] = pods["job"]
    <3> HIDE DEF NoPod
    <3>1. \A v \in Pods : v = "job" \/ v = "lost"
      BY DEF Pods
    <3> QED BY <1>2, <2>1, <3>1
  <2>3. FreezeTypeOK' /\ ClusterClean'
    BY <2>1, <2>2 DEF PodRow
  <2>4. \A w \in Pods : PodWhole(w)'
    BY <1>2, <2>1, <2>2 DEF RowsWhole, PodWhole, Working, Pods
  <2> QED BY <1>1, <2>1, <2>3, <2>4, OutsideKeeps
<1>5. CASE JobGone
  <2>1. FreezeTypeOK' /\ ClusterClean'
    BY <1>5 DEF JobGone
  <2>2. \A w \in Pods : PodWhole(w) => PodWhole(w)'
    BY <1>5 DEF JobGone, PodWhole
  <2> QED BY <1>1, <1>5, <2>1, <2>2, OutsideKeeps DEF JobGone
<1> QED BY <1>3, <1>4, <1>5

\* What a step of a worker leaves of the pods: all but its own.
OtherPodsKept(w) == \A v \in Pods : v # w => pods'[v] = pods[v]

\* The steps of the worker: the cluster is left alone.
LEMMA WorkerKeeps ==
  ASSUME FreezeInv, UNCHANGED <<command, late, at, bundle, job, deleting>>,
         NEW w \in Pods, pods[w].phase # "none", pods' \in [Pods -> PodRow], OtherPodsKept(w),
         freezing' \in [state : {"none", "active", "retryable", "completed"}, bundle : 0..MaxBundles],
         tries' \in Seq(TryRow), Len(tries') <= MaxFreezeAttempts,
         objects' \subseteq 1..MaxFreezeAttempts, result' \in 0..MaxFreezeAttempts, told' \in 0..2,
         RowsWhole'
  PROVE  FreezeInv'
<1>1. \A n \in DOMAIN tries' : tries'[n] \in TryRow
  BY LenProperties, ElementOfSeq
<1>2. FreezeTypeOK'
  BY <1>1 DEF FreezeInv, FreezeTyped, FreezeTypeOK, PodRow, TryRow
<1>3. command.state # "none" /\ (job = "none" => pods'["job"].phase = "none")
  BY DEF FreezeInv, ClusterClean, OtherPodsKept, Pods
<1>4. ClusterClean'
  BY <1>3 DEF FreezeInv, ClusterClean, SettledClean
<1> QED BY <1>2, <1>4 DEF FreezeInv, FreezeTyped

LEMMA PodFacts ==
  ASSUME FreezeInv
  PROVE  /\ pods \in [Pods -> PodRow]
         /\ freezing \in [state : {"none", "active", "retryable", "completed"}, bundle : 0..MaxBundles]
         /\ tries \in Seq(TryRow) /\ Len(tries) \in Nat /\ Len(tries) <= MaxFreezeAttempts
         /\ objects \subseteq 1..MaxFreezeAttempts /\ result \in 0..MaxFreezeAttempts /\ told \in 0..2
         /\ RowsWhole
BY TriesFacts DEF FreezeInv, FreezeTyped, FreezeTypeOK, PodRow

\* The row of one pod is replaced.
LEMMA PodReplaced ==
  ASSUME FreezeInv, NEW w \in Pods, NEW row \in PodRow, pods' = [pods EXCEPT ![w] = row]
  PROVE  pods' \in [Pods -> PodRow] /\ OtherPodsKept(w) /\ pods'[w] = row
BY PodFacts DEF OtherPodsKept

LEMMA PodMoved ==
  ASSUME FreezeInv, NEW w \in Pods, NEW from,
         NEW to \in {"starting", "reserved", "preflighting", "uploading", "uploaded", "succeeded", "failed"},
         Move(w, from, to)
  PROVE  /\ pods' \in [Pods -> PodRow] /\ OtherPodsKept(w)
         /\ pods[w].phase = from /\ pods'[w].phase = to /\ pods'[w].attempt = pods[w].attempt
<1> DEFINE row == [pods[w] EXCEPT !.phase = to]
<1>1. row \in PodRow /\ row.phase = to /\ row.attempt = pods[w].attempt
  BY PodFacts DEF PodRow
<1>2. pods' = [pods EXCEPT ![w] = row] /\ pods[w].phase = from
  BY DEF Move
<1> HIDE DEF row
<1> QED BY <1>1, <1>2, PodReplaced

\* The rows and the objects that another pod counts on are still there.
LEMMA PodsWhole ==
  ASSUME FreezeInv, NEW w \in Pods, OtherPodsKept(w), PodWhole(w)',
         Len(tries') \in Nat, Len(tries') >= Len(tries), objects \subseteq objects'
  PROVE  \A v \in Pods : PodWhole(v)'
<1> SUFFICES ASSUME NEW v \in Pods, v # w PROVE PodWhole(v)'
  OBVIOUS
<1>1. pods'[v] = pods[v]
  BY DEF OtherPodsKept
<1>2. PodWhole(v) /\ Len(tries) \in Nat
  BY PodFacts DEF RowsWhole
<1>3. 1..Len(tries) \subseteq 1..Len(tries')
  BY <1>2
<1> QED BY <1>1, <1>2, <1>3 DEF PodWhole

\* A row of an attempt is added to rows in which none is open.
LEMMA NewTryKeeps ==
  ASSUME FreezeInv, NEW w \in Pods, NEW rows \in Seq(TryRow), NewTry(w, rows), Len(rows) = Len(tries),
         UNCHANGED <<command, late, at, bundle, job, deleting, objects, result, told>>,
         pods[w].phase # "none", result = 0, command.state # "completed",
         \A n \in 1..Len(rows) : rows[n].state = "failed"
  PROVE  FreezeInv'
<1> DEFINE new == [state |-> "reserved", live |-> TRUE]
           row == [pods[w] EXCEPT !.phase = "reserved", !.attempt = Len(rows) + 1]
<1>1. new \in TryRow
  BY DEF TryRow, OpenTry
<1>2. Len(rows) \in Nat
  BY LenProperties
<1>3. /\ tries' = Append(rows, new) /\ tries' \in Seq(TryRow) /\ Len(tries') = Len(rows) + 1
      /\ \A n \in 1..Len(rows) : tries'[n] = rows[n]
      /\ tries'[Len(rows) + 1] = new
  BY <1>1, <1>2, AppendProperties DEF NewTry
<1>4. Len(rows) + 1 \in 0..MaxFreezeAttempts /\ Len(tries') <= MaxFreezeAttempts
  BY <1>2, <1>3, FreezeBounds DEF NewTry
<1>5. pods[w] \in PodRow
  BY PodFacts
<1>6. row \in PodRow /\ row.attempt = Len(rows) + 1 /\ row.phase = "reserved"
  BY <1>4, <1>5 DEF PodRow
<1>7. pods' = [pods EXCEPT ![w] = row]
  BY PodFacts DEF NewTry
<1>8. /\ freezing' \in [state : {"none", "active", "retryable", "completed"}, bundle : 0..MaxBundles]
      /\ freezing'.state = "active"
  BY <1>5 DEF NewTry, PodRow
<1>9. DOMAIN tries' = 1..(Len(rows) + 1)
  BY <1>3, LenProperties
<1>10. new.state = "reserved"
  OBVIOUS
<1> HIDE DEF new, row
<1>11. pods' \in [Pods -> PodRow] /\ OtherPodsKept(w) /\ pods'[w] = row
  BY <1>6, <1>7, PodReplaced
<1>12. PodWhole(w)'
  BY <1>2, <1>3, <1>6, <1>11 DEF PodWhole
<1>13. \A v \in Pods : PodWhole(v)'
  BY <1>2, <1>3, <1>11, <1>12, PodsWhole
<1>14. FrozenWhole'
  <2>1. \A n \in DOMAIN tries' : tries'[n].state = "failed" \/ (n = Len(tries') /\ tries'[n].state = "reserved")
    BY <1>2, <1>3, <1>9, <1>10
  <2> QED BY <1>8, <2>1 DEF FrozenWhole, OpenTry
<1>15. RowsWhole'
  BY <1>2, <1>3, <1>8, <1>10, <1>13, <1>14 DEF RowsWhole, OpenTry
<1> QED BY <1>3, <1>4, <1>8, <1>11, <1>15, PodFacts, WorkerKeeps

\* A request that is not completed has no result, and its attempts have failed,
\* but for the last one while the request is active.
LEMMA NotCompleted ==
  ASSUME FreezeInv, freezing.state # "completed"
  PROVE  /\ result = 0 /\ command.state # "completed"
         /\ \A n \in 1..Len(tries) :
              tries[n].state = "failed" \/ (n = Len(tries) /\ freezing.state = "active")
<1>1. result = 0
  BY DEF FreezeInv, RowsWhole, FrozenWhole
<1>2. \A n \in 1..Len(tries) : tries[n] \in TryRow /\ n \in DOMAIN tries /\ n # 0
  BY TriesFacts
<1> QED BY <1>1, <1>2 DEF FreezeInv, RowsWhole, FrozenWhole, TryRow

\* A worker ends, whatever it leaves of the rows being as whole as before.
LEMMA WorkerEndsKeep ==
  ASSUME FreezeInv, NEW w \in Pods, pods' \in [Pods -> PodRow], OtherPodsKept(w),
         pods[w].phase # "none", pods'[w].phase \in {"succeeded", "failed"},
         UNCHANGED <<command, late, at, bundle, job, deleting, freezing, tries, result, told>>,
         objects \subseteq objects', objects' \subseteq 1..MaxFreezeAttempts
  PROVE  FreezeInv'
<1>1. PodWhole(w)'
  BY DEF PodWhole, Working
<1>2. \A v \in Pods : PodWhole(v)'
  BY <1>1, PodFacts, PodsWhole
<1>3. RowsWhole'
  BY <1>2, PodFacts DEF RowsWhole, FrozenWhole
<1> QED BY <1>3, PodFacts, WorkerKeeps

LEMMA BeginKeeps == ASSUME FreezeInv, NEW w \in Pods, Begin(w) PROVE FreezeInv'
<1>1. /\ UNCHANGED <<command, late, at, bundle, job, deleting, objects, result, told>>
      /\ pods[w].phase = "starting"
  BY DEF Begin
<1>2. \/ freezing.state = "none" /\ NewTry(w, <<>>)
      \/ (Move(w, "starting", "failed") \/ Move(w, "starting", "succeeded")) /\ UNCHANGED <<freezing, tries>>
      \/ /\ freezing.state = "active"
         /\ NewTry(w, [tries EXCEPT ![Len(tries)] = [state |-> "failed", live |-> FALSE]])
      \/ freezing.state = "retryable" /\ NewTry(w, tries)
  BY DEF Begin
<1>3. CASE freezing.state = "none" /\ NewTry(w, <<>>)
  <2> DEFINE rows == <<>>
  <2>1. rows \in Seq(TryRow) /\ Len(rows) = 0 /\ NewTry(w, rows)
    BY <1>3, EmptySeq
  <2>4. Len(tries) = 0
    BY <1>3, EmptySeq DEF FreezeInv, RowsWhole
  <2> HIDE DEF rows
  <2>2. \A n \in 1..Len(rows) : rows[n].state = "failed"
    BY <2>1
  <2>3. result = 0 /\ command.state # "completed"
    BY <1>3, NotCompleted
  <2> QED BY <1>1, <2>1, <2>2, <2>3, <2>4, NewTryKeeps
<1>4. CASE (Move(w, "starting", "failed") \/ Move(w, "starting", "succeeded")) /\ UNCHANGED <<freezing, tries>>
  <2>1. pods' \in [Pods -> PodRow] /\ OtherPodsKept(w) /\ pods'[w].phase \in {"succeeded", "failed"}
    BY <1>4, PodMoved
  <2> QED BY <1>1, <1>4, <2>1, PodFacts, WorkerEndsKeep
<1>5. CASE /\ freezing.state = "active"
           /\ NewTry(w, [tries EXCEPT ![Len(tries)] = [state |-> "failed", live |-> FALSE]])
  <2> DEFINE row == [state |-> "failed", live |-> FALSE]
             rows == [tries EXCEPT ![Len(tries)] = row]
  <2>1. row \in TryRow /\ row.state = "failed" /\ Len(tries) \in 1..Len(tries)
    BY <1>5, PodFacts DEF TryRow, RowsWhole
  <2>2. /\ rows \in Seq(TryRow) /\ Len(rows) = Len(tries)
        /\ \A n \in 1..Len(tries) : rows[n] = IF n = Len(tries) THEN row ELSE tries[n]
    <3> HIDE DEF row
    <3> QED BY <2>1, PodFacts, ExceptSeq
  <2>3. \A n \in 1..Len(rows) : rows[n].state = "failed"
    <3> HIDE DEF row, rows
    <3> QED BY <1>5, <2>1, <2>2, NotCompleted
  <2>4. NewTry(w, rows) /\ result = 0 /\ command.state # "completed"
    BY <1>5, NotCompleted
  <2> HIDE DEF rows
  <2> QED BY <1>1, <2>2, <2>3, <2>4, NewTryKeeps
<1>6. CASE freezing.state = "retryable" /\ NewTry(w, tries)
  <2>1. \A n \in 1..Len(tries) : tries[n].state = "failed"
    BY <1>6, NotCompleted
  <2> QED BY <1>1, <1>6, <2>1, PodFacts, NotCompleted, NewTryKeeps
<1> QED BY <1>2, <1>3, <1>4, <1>5, <1>6

\* A worker records a transition of its attempt, which is then the last one,
\* whichever of the pods it is in.
LEMMA FencedLast ==
  ASSUME FreezeInv, NEW w \in Pods, NEW states \in SUBSET OpenTry, Fenced(w, states)
  PROVE  /\ pods[w].attempt = Len(tries) /\ pods[w].attempt \in 1..Len(tries)
         /\ freezing.state = "active" /\ result = 0
         /\ tries[pods[w].attempt].state \in states
<1>0. pods[w] \in PodRow /\ Len(tries) \in Nat
  BY PodFacts
<1>1. pods[w].attempt \in 1..Len(tries) /\ tries[pods[w].attempt].state \in OpenTry
  BY <1>0 DEF Fenced, PodRow
<1>2. pods[w].attempt \in DOMAIN tries
  BY <1>1, TriesFacts
<1>3. pods[w].attempt = Len(tries) /\ freezing.state = "active"
  BY <1>1, <1>2 DEF FreezeInv, RowsWhole, FrozenWhole
<1> QED BY <1>1, <1>3, NotCompleted DEF Fenced

\* The row of the last attempt is replaced.
LEMMA RowReplaced ==
  ASSUME FreezeInv, NEW n \in 1..Len(tries), NEW row \in TryRow,
         tries' = [tries EXCEPT ![n] = row]
  PROVE  /\ tries' \in Seq(TryRow) /\ Len(tries') = Len(tries) /\ Len(tries') <= MaxFreezeAttempts
         /\ DOMAIN tries' = 1..Len(tries)
         /\ \A m \in 1..Len(tries) : tries'[m] = IF m = n THEN row ELSE tries[m]
<1>1. /\ tries' \in Seq(TryRow) /\ Len(tries') = Len(tries)
      /\ \A m \in 1..Len(tries) : tries'[m] = IF m = n THEN row ELSE tries[m]
  BY PodFacts, ExceptSeq
<1> QED BY <1>1, PodFacts, LenProperties

\* The attempt that is open stays open, in another state or without its lease.
LEMMA OpenKept ==
  ASSUME FreezeInv, NEW n \in 1..Len(tries), NEW row \in TryRow,
         tries' = [tries EXCEPT ![n] = row], tries[n].state \in OpenTry, row.state \in OpenTry,
         UNCHANGED <<command, freezing, objects, result, told>>,
         \A v \in Pods : PodWhole(v)'
  PROVE  RowsWhole'
<1>1. n = Len(tries) /\ freezing.state = "active" /\ result = 0
  BY TriesFacts, NotCompleted DEF FreezeInv, RowsWhole, FrozenWhole
<1>2. \A m \in DOMAIN tries' : tries'[m].state = "failed" \/ (m = Len(tries') /\ tries'[m].state \in OpenTry)
  BY <1>1, RowReplaced, NotCompleted
<1>3. tries # <<>> /\ Len(tries) > 0 /\ Len(tries) \in Nat
  BY <1>1, PodFacts DEF RowsWhole
<1>4. FrozenWhole'
  BY <1>1, <1>2 DEF FreezeInv, RowsWhole, FrozenWhole, OpenTry
<1> QED BY <1>1, <1>3, <1>4, RowReplaced DEF RowsWhole

LEMMA TransitionKeeps ==
  ASSUME FreezeInv, NEW w \in Pods, NEW from \in OpenTry, NEW to \in OpenTry, Transition(w, from, to),
         pods[w].phase # "none", pods' \in [Pods -> PodRow], OtherPodsKept(w),
         pods'[w].attempt = pods[w].attempt, pods'[w].phase # "uploaded",
         UNCHANGED <<command, late, at, bundle, job, deleting, freezing, objects, result, told>>
  PROVE  FreezeInv'
<1> DEFINE n == pods[w].attempt
           row == [tries[n] EXCEPT !.state = to]
<1>1. n = Len(tries) /\ n \in 1..Len(tries) /\ tries[n].state \in OpenTry
  BY FencedLast DEF Transition
<1>2. tries[n] \in TryRow
  BY <1>1, TriesFacts
<1>3. row \in TryRow /\ row.state = to
  BY <1>2 DEF TryRow
<1>4. tries' = [tries EXCEPT ![n] = row]
  BY DEF Transition
<1> HIDE DEF row
<1>5. Len(tries') = Len(tries) /\ Len(tries) \in Nat
  BY <1>1, <1>3, <1>4, RowReplaced, PodFacts
<1>6. PodWhole(w)'
  BY <1>1, <1>5 DEF PodWhole
<1>7. \A v \in Pods : PodWhole(v)'
  BY <1>5, <1>6, PodsWhole
<1> HIDE DEF n
<1>8. RowsWhole'
  BY <1>1, <1>3, <1>4, <1>7, OpenKept
<1> QED BY <1>1, <1>3, <1>4, <1>8, RowReplaced, PodFacts, WorkerKeeps

LEMMA WorkerMovesKeep ==
  ASSUME FreezeInv, NEW w \in Pods, MarkPreflighting(w) \/ MarkUploading(w) \/ Upload(w)
  PROVE  FreezeInv'
<1>2. CASE MarkPreflighting(w)
  <2>1. /\ pods' \in [Pods -> PodRow] /\ OtherPodsKept(w) /\ pods'[w].attempt = pods[w].attempt
        /\ pods'[w].phase = "preflighting" /\ pods[w].phase = "reserved"
    BY <1>2, PodMoved DEF MarkPreflighting
  <2> QED BY <1>2, <2>1, TransitionKeeps DEF MarkPreflighting, OpenTry
<1>3. CASE MarkUploading(w)
  <2>1. /\ pods' \in [Pods -> PodRow] /\ OtherPodsKept(w) /\ pods'[w].attempt = pods[w].attempt
        /\ pods'[w].phase = "uploading" /\ pods[w].phase = "preflighting"
    BY <1>3, PodMoved DEF MarkUploading
  <2> QED BY <1>3, <2>1, TransitionKeeps DEF MarkUploading, OpenTry
<1>5. CASE Upload(w)
  <2>1. /\ pods' \in [Pods -> PodRow] /\ OtherPodsKept(w) /\ pods'[w].attempt = pods[w].attempt
        /\ pods'[w].phase = "uploaded" /\ pods[w].phase = "uploading"
    BY <1>5, PodMoved DEF Upload
  <2>2. pods[w].attempt \in 1..Len(tries) /\ pods[w].attempt \in 1..MaxFreezeAttempts /\ Len(tries) \in Nat
    BY <2>1, PodFacts, FreezeBounds DEF RowsWhole, PodWhole, Working
  <2>3. PodWhole(w)' /\ objects \subseteq objects' /\ tries' = tries
    BY <1>5, <2>1, <2>2 DEF PodWhole, Upload
  <2>4. \A v \in Pods : PodWhole(v)'
    BY <2>1, <2>2, <2>3, PodsWhole
  <2>5. RowsWhole'
    BY <1>5, <2>3, <2>4, PodFacts DEF RowsWhole, FrozenWhole, Upload
  <2>6. objects' \subseteq 1..MaxFreezeAttempts
    BY <1>5, <2>2, PodFacts DEF Upload
  <2> QED BY <1>5, <2>1, <2>5, <2>6, PodFacts, WorkerKeeps DEF Upload
<1> QED BY <1>2, <1>3, <1>5

LEMMA CompleteFreezeKeeps == ASSUME FreezeInv, NEW w \in Pods, CompleteFreeze(w) PROVE FreezeInv'
<1> DEFINE n == pods[w].attempt
           row == [state |-> "completed", live |-> FALSE]
<1>1. n = Len(tries) /\ n \in 1..Len(tries) /\ result = 0 /\ freezing.state = "active"
  BY FencedLast DEF CompleteFreeze, OpenTry
<1>2. row \in TryRow /\ row.state = "completed" /\ tries' = [tries EXCEPT ![n] = row]
  BY DEF CompleteFreeze, TryRow
<1>3. /\ pods' \in [Pods -> PodRow] /\ OtherPodsKept(w)
      /\ pods'[w].phase = "succeeded" /\ pods[w].phase = "uploaded"
  BY PodMoved DEF CompleteFreeze
<1>4. n \in objects /\ n \in 0..MaxFreezeAttempts
  BY <1>3, PodFacts DEF RowsWhole, PodWhole, PodRow
<1>5. /\ freezing' \in [state : {"none", "active", "retryable", "completed"}, bundle : 0..MaxBundles]
      /\ freezing'.state = "completed" /\ result' = n /\ told' = 2
      /\ UNCHANGED <<command, late, at, bundle, job, deleting, objects>>
  BY PodFacts DEF CompleteFreeze
<1> HIDE DEF n, row
<1>6. \A m \in DOMAIN tries' : IF m = n THEN tries'[m].state = "completed" ELSE tries'[m].state = "failed"
  BY <1>1, <1>2, RowReplaced, NotCompleted
<1>7. n # 0 /\ n \in DOMAIN tries' /\ Len(tries') = Len(tries) /\ Len(tries) \in Nat
  BY <1>1, <1>2, RowReplaced, PodFacts
<1>8. FrozenWhole'
  BY <1>4, <1>5, <1>6, <1>7 DEF FrozenWhole, OpenTry
<1>9. PodWhole(w)'
  BY <1>3 DEF PodWhole, Working
<1>10. \A v \in Pods : PodWhole(v)'
  BY <1>3, <1>5, <1>7, <1>9, PodsWhole
<1>11. RowsWhole'
  BY <1>1, <1>5, <1>7, <1>8, <1>10 DEF RowsWhole
<1> QED BY <1>1, <1>2, <1>3, <1>4, <1>5, <1>11, RowReplaced, PodFacts, WorkerKeeps

LEMMA FreezeFailsKeeps == ASSUME FreezeInv, NEW w \in Pods, FreezeFails(w) PROVE FreezeInv'
<1> DEFINE n == pods[w].attempt
           row == [state |-> "failed", live |-> FALSE]
<1>1. /\ n \in 1..Len(tries) /\ n \in 1..MaxFreezeAttempts
      /\ UNCHANGED <<command, late, at, bundle, job, deleting, result, told>>
      /\ pods[w].phase # "none" /\ pods[w].phase \in Working
  BY PodFacts, FreezeBounds DEF FreezeFails, RowsWhole, PodWhole, Working
<1>2. pods' \in [Pods -> PodRow] /\ OtherPodsKept(w) /\ pods'[w].phase = "failed"
  <2> DEFINE gone == [pods[w] EXCEPT !.phase = "failed"]
  <2>1. pods[w] \in PodRow /\ pods' = [pods EXCEPT ![w] = gone]
    BY PodFacts DEF FreezeFails
  <2>2. gone \in PodRow /\ gone.phase = "failed"
    BY <2>1 DEF PodRow
  <2> HIDE DEF gone
  <2> QED BY <2>1, <2>2, PodReplaced
<1>3. objects' \subseteq 1..MaxFreezeAttempts /\ objects \subseteq objects'
  BY <1>1, PodFacts DEF FreezeFails
<1>4. CASE UNCHANGED <<tries, freezing>>
  BY <1>1, <1>2, <1>3, <1>4, WorkerEndsKeep
<1>5. CASE /\ tries[n].state \in OpenTry
           /\ tries' = [tries EXCEPT ![n] = [state |-> "failed", live |-> FALSE]]
           /\ freezing' = [freezing EXCEPT !.state = IF @ = "active" /\ n = Len(tries)
                                                    THEN "retryable" ELSE @]
  <2>1. n = Len(tries) /\ freezing.state = "active" /\ result = 0
    BY <1>1, <1>5, TriesFacts, NotCompleted DEF FreezeInv, RowsWhole, FrozenWhole
  <2>2. /\ freezing' \in [state : {"none", "active", "retryable", "completed"}, bundle : 0..MaxBundles]
        /\ freezing'.state = "retryable"
    BY <1>5, <2>1, PodFacts
  <2>3. row \in TryRow /\ row.state = "failed" /\ tries' = [tries EXCEPT ![n] = row]
    BY <1>5 DEF TryRow
  <2> HIDE DEF n, row
  <2>4. \A m \in DOMAIN tries' : tries'[m].state = "failed"
    BY <1>1, <2>1, <2>3, RowReplaced, NotCompleted
  <2>5. command.state # "completed"
    BY <2>1, NotCompleted
  <2>6. FrozenWhole'
    BY <1>1, <2>1, <2>4, <2>5 DEF FrozenWhole, OpenTry
  <2>7. PodWhole(w)' /\ Len(tries') = Len(tries) /\ Len(tries) \in Nat
    BY <1>1, <1>2, <2>3, RowReplaced, PodFacts DEF PodWhole, Working
  <2>8. \A v \in Pods : PodWhole(v)'
    BY <1>2, <1>3, <2>7, PodsWhole
  <2>9. RowsWhole'
    BY <1>1, <2>1, <2>2, <2>6, <2>8 DEF RowsWhole
  <2> QED BY <1>1, <1>2, <1>3, <2>2, <2>3, <2>9, RowReplaced, PodFacts, WorkerKeeps
<1> QED BY <1>4, <1>5 DEF FreezeFails

LEMMA FreezeLeaseLapsesKeeps == ASSUME FreezeInv, FreezeLeaseLapses PROVE FreezeInv'
<1>1. PICK n \in DOMAIN tries : tries[n].state \in OpenTry /\ tries' = [tries EXCEPT ![n].live = FALSE]
  BY DEF FreezeLeaseLapses
<1> DEFINE row == [tries[n] EXCEPT !.live = FALSE]
<1>2. n \in 1..Len(tries) /\ tries[n] \in TryRow
  BY <1>1, TriesFacts
<1>3. row \in TryRow /\ row.state \in OpenTry /\ tries' = [tries EXCEPT ![n] = row]
  BY <1>1, <1>2 DEF TryRow
<1> HIDE DEF row
<1>4. /\ tries' \in Seq(TryRow) /\ Len(tries') = Len(tries) /\ Len(tries') <= MaxFreezeAttempts
      /\ DOMAIN tries' = 1..Len(tries) /\ \A m \in 1..Len(tries) : tries'[m] \in TryRow
  BY <1>2, <1>3, RowReplaced, TriesFacts
<1>5. UNCHANGED <<command, pods, freezing, objects, result, told>>
  BY DEF FreezeLeaseLapses
<1>6. \A v \in Pods : PodWhole(v)'
  BY <1>4, <1>5, PodFacts DEF RowsWhole, PodWhole
<1>7. RowsWhole'
  BY <1>1, <1>2, <1>3, <1>5, <1>6, OpenKept
<1>8. FreezeTypeOK'
  BY <1>4 DEF FreezeInv, FreezeTyped, FreezeTypeOK, FreezeLeaseLapses, TryRow
<1>9. command.state # "none"
  BY <1>2, TriesFacts DEF FreezeInv, ClusterClean
<1>10. ClusterClean'
  BY <1>9 DEF FreezeInv, ClusterClean, SettledClean, FreezeLeaseLapses
<1> QED BY <1>4, <1>7, <1>8, <1>10 DEF FreezeInv, FreezeTyped

LEMMA FreezeStepKeeps == ASSUME FreezeInv, FreezeStep PROVE FreezeInv'
BY AcceptKeeps, CoordinatorStepsKeep, CleanupPartialBundleKeeps, MarkFailedPendingCleanupKeeps,
   CleanupFailedCommandKeeps, CleanupSucceededJobKeeps, FailCommandAfterCleanupKeeps,
   BeginKeeps, WorkerMovesKeep, CompleteFreezeKeeps, FreezeFailsKeeps, FreezeLeaseLapsesKeeps,
   KubernetesKeeps DEF FreezeStep

-----------------------------------------------------------------------------
(***************************************************************************)
(* Collecting its files                                                    *)
(***************************************************************************)

Held == Contents \cup Targets

Allowed(p) == ~Excluded(p) /\ \E r \in manifest.include : Covers(r, p)

\* A directory that is listed is, or is below, that of a rule for a tree.
TreeCovered(d) == \E r \in manifest.include : r.kind = "tree" /\ Covers(r, d)

\* What the source may be asked for: v with the files s selected, and the rules
\* r and the directories d still to be looked at.
VisitSound(v, s, r, d) ==
  /\ v.goal = "file" => Allowed(v.path)
  /\ v.goal \in {"tree", "list"} => TreeCovered(v.path)
  /\ v.goal \in {"stat", "open", "after", "check"} => v.path \in s /\ r = {} /\ d = {}
  /\ v.goal \in {"after", "check"} => Fits(v.bytes) /\ (transport = "pvc" => v.bytes # Outside)

Selecting(v, r, d) == r # {} \/ d # {} \/ v.goal \in {"file", "tree", "list"}

\* What has been read is allowed and within the limit, and of a volume nothing
\* is from outside.
ReadSound ==
  /\ \A p \in DOMAIN read : Allowed(p)
  /\ read \in [DOMAIN read -> Held] /\ IsFiniteSet(DOMAIN read)
  /\ transport = "pvc" => \A p \in DOMAIN read : read[p] # Outside
  /\ Bytes(read) <= manifest.bytes

\* What is selected is allowed too, and nothing is read before every rule has
\* been looked up.
CollectedSound ==
  /\ ReadSound
  /\ \A p \in selected : Allowed(p)
  /\ \A d \in pending : TreeCovered(d)
  /\ VisitSound(visit, selected, rules, pending)
  /\ Selecting(visit, rules, pending) => DOMAIN read = {}
  /\ selected \cap DOMAIN read = {}

SnapshotInv ==
  /\ SnapshotTypeOK
  /\ pass # "none" => manifest \in Manifests
  /\ CollectedSound
  /\ pass = "archived" => Selected /\ selected = {} /\ SameFiles(read, report)

LEMMA BytesOfNothing == Bytes(Nothing) = 0
<1> DEFINE g == [p \in DOMAIN Nothing |-> SizeOf[Nothing[p]]]
<1>1. DOMAIN g = {}
  BY DEF Nothing
<1> HIDE DEF g
<1>2. SumFunctionOnSet(g, DOMAIN g) = 0
  BY <1>1, SumEmpty
<1> QED BY <1>2 DEF Bytes, SumFunction, g

\* A file that is read adds its size.
LEMMA BytesAdd ==
  ASSUME NEW a, IsFiniteSet(DOMAIN a), a \in [DOMAIN a -> Held], NEW p, p \notin DOMAIN a,
         NEW c \in Held, NEW b, b = [q \in DOMAIN a \cup {p} |-> IF q = p THEN c ELSE a[q]]
  PROVE  /\ Bytes(b) = Bytes(a) + SizeOf[c]
         /\ b \in [DOMAIN b -> Held] /\ DOMAIN b = DOMAIN a \cup {p} /\ IsFiniteSet(DOMAIN b)
<1> DEFINE D == DOMAIN a
           E == D \cup {p}
           g == [q \in D |-> SizeOf[a[q]]]
           k == [q \in E |-> SizeOf[b[q]]]
<1>0. SizeOf \in [Held -> Nat]
  BY SnapshotAssumption DEF Held
<1>1. DOMAIN b = E /\ b[p] = c /\ \A q \in D : b[q] = a[q]
  OBVIOUS
<1>2. \A q \in D : a[q] \in Held
  OBVIOUS
<1>3. g \in [D -> Nat] /\ k \in [E -> Nat] /\ DOMAIN g = D /\ DOMAIN k = E
  BY <1>0, <1>1, <1>2
<1>4. \A q \in D : g[q] = k[q]
  BY <1>1
<1>5. k[p] = SizeOf[c] /\ SizeOf[c] \in Nat
  BY <1>0, <1>1
<1>6. Bytes(a) = SumFunctionOnSet(g, D) /\ Bytes(b) = SumFunctionOnSet(k, E)
  BY <1>1, <1>3 DEF Bytes, SumFunction
<1>7. IsFiniteSet(D) /\ IsFiniteSet(E)
  BY FS_AddElement
<1> DEFINE sg == SumFunctionOnSet(g, D)
           sk == SumFunctionOnSet(k, D)
           se == SumFunctionOnSet(k, E)
<1>8. D \in SUBSET E /\ p \in E /\ p \notin D /\ E = D \cup {p}
  OBVIOUS
<1>9. se = k[p] + sk
  <2> HIDE DEF k, D, E
  <2> QED BY <1>3, <1>7, <1>8, SumAdds
<1>10. sg = sk
  <2> HIDE DEF k, g, D, E
  <2> QED BY <1>4, <1>7, SumSame
<1>11. sk \in Nat
  <2> HIDE DEF k, D, E
  <2> QED BY <1>3, <1>7, <1>8, SumNat
<1>12. Bytes(b) = Bytes(a) + SizeOf[c]
  <2>1. Bytes(a) = sg /\ Bytes(b) = se
    BY <1>6
  <2> HIDE DEF sg, sk, se, k
  <2> QED BY <2>1, <1>5, <1>9, <1>10, <1>11
<1>13. b \in [E -> Held]
  BY <1>1, <1>2
<1> QED BY <1>1, <1>7, <1>12, <1>13

LEMMA ManifestFacts ==
  ASSUME SnapshotInv, pass # "none"
  PROVE  /\ manifest.include \subseteq Rules /\ manifest.files \in Nat /\ manifest.bytes \in Nat
         /\ \A rule \in rules : rule \in manifest.include /\ rule.path \in Paths /\ rule.kind \in {"file", "tree"}
BY SnapshotAssumption DEF SnapshotInv, SnapshotTypeOK, Rules

LEMMA NoVisitPlain == NoVisit.goal = "none" /\ \A v \in Visits : v.goal # "none" /\ v # NoVisit
BY DEF NoVisit, Visits

LEMMA PrefixesTyped == ASSUME NEW p \in Paths PROVE Prefixes(p) \in Seq(Paths)
<1>1. Parent[p] \in Paths /\ Parent[Parent[p]] \in Paths
  BY SnapshotAssumption
<1>2. /\ <<p>> \in Seq(Paths) /\ <<Parent[p], p>> \in Seq(Paths)
      /\ <<Parent[Parent[p]], Parent[p], p>> \in Seq(Paths)
  BY <1>1
<1>3. Prefixes(p) \in {<<p>>, <<Parent[p], p>>, <<Parent[Parent[p]], Parent[p], p>>}
  BY DEF Prefixes
<1> QED BY <1>2, <1>3

LEMMA VisitTyped ==
  ASSUME SnapshotInv, NEW p \in Paths, NEW g \in {"file", "tree", "list", "stat"}
  PROVE  Visit(g, p) \in Visits /\ Visit(g, p).goal = g /\ Visit(g, p).path = p
BY PrefixesTyped DEF Visit, Visits, Targets

\* The content that a look at a path finds, and what opening a file of a volume does.
LEMMA LookupFacts ==
  ASSUME SnapshotInv, NEW p \in Paths
  PROVE  /\ Lookup(p).content \in Held
         /\ transport = "pvc" /\ Openable(p) => Lookup(p).content # Outside
<1>1. \A q \in Paths : source[q] \in Entries
  BY DEF SnapshotInv, SnapshotTypeOK
<1>2. \A e \in Entries : e.content \in Held /\ (e.kind = "file" => e.content # Outside)
  BY SnapshotAssumption DEF Entries, Held, Targets
<1>3. CASE LinksAbove(p) = {}
  BY <1>1, <1>2, <1>3 DEF Lookup, Openable
<1>4. CASE LinksAbove(p) # {}
  <2>1. FirstLink(p) \in Paths
    BY <1>4 DEF FirstLink, LinksAbove, Ancestors
  <2>2. Lookup(p).content = source[FirstLink(p)].content
    BY <1>4 DEF Lookup
  <2>3. transport = "pvc" /\ Openable(p) => source[FirstLink(p)].content # Outside
    BY <1>4 DEF Openable, Reachable
  <2> QED BY <1>1, <1>2, <2>1, <2>2, <2>3
<1> QED BY <1>3, <1>4

LEMMA SnapshotInitially == ASSUME SnapshotInit PROVE SnapshotInv
<1>1. SnapshotTypeOK
  BY SnapshotAssumption DEF SnapshotInit, SnapshotTypeOK, NoManifest, Nothing, Entries, Absent, Consistent
<1>2. DOMAIN read = {} /\ read \in [DOMAIN read -> Held] /\ visit.goal = "none"
  BY NoVisitPlain DEF SnapshotInit, Nothing
<1>3. IsFiniteSet(DOMAIN read)
  BY <1>2, FS_EmptySet
<1>4. Bytes(read) <= manifest.bytes
  BY BytesOfNothing DEF SnapshotInit, NoManifest
<1> QED BY <1>1, <1>2, <1>3, <1>4 DEF SnapshotInit, SnapshotInv, CollectedSound, ReadSound, VisitSound

\* A pass starts, or ends, with nothing selected and nothing read.
LEMMA ClearedKeeps ==
  ASSUME SnapshotInv, pass' \in {"preflight", "freeze", "failed"}, manifest' \in Manifests,
         rules' \subseteq manifest'.include, pending' = {}, visit' = NoVisit,
         selected' = {}, directories' = {}, read' = Nothing,
         source' \in [Paths -> Entries], Consistent(source'), transport' \in {"pvc", "ssh"},
         DOMAIN report' \subseteq Paths, UNCHANGED edits
  PROVE  SnapshotInv'
<1>1. manifest'.bytes \in Nat
  BY SnapshotAssumption
<1>2. DOMAIN read' = {} /\ read' \in [DOMAIN read' -> Held] /\ visit'.goal = "none"
  BY NoVisitPlain DEF Nothing
<1>3. IsFiniteSet(DOMAIN read')
  BY <1>2, FS_EmptySet
<1>4. Bytes(read') <= manifest'.bytes
  BY <1>1, BytesOfNothing
<1>5. Bytes(read)' = Bytes(read')
  BY DEF Bytes
<1>6. CollectedSound'
  BY <1>2, <1>3, <1>4, <1>5 DEF CollectedSound, ReadSound, VisitSound
<1>7. SnapshotTypeOK'
  BY <1>2 DEF SnapshotInv, SnapshotTypeOK, Consistent, Ancestors
<1> QED BY <1>6, <1>7 DEF SnapshotInv

LEMMA PreflightKeeps == ASSUME SnapshotInv, Preflight PROVE SnapshotInv'
<1>1. /\ source' \in Workspaces /\ manifest' \in Manifests /\ transport' \in {"pvc", "ssh"}
      /\ Start("preflight") /\ UNCHANGED <<report, edits>>
  BY DEF Preflight
<1>2. source' \in [Paths -> Entries]
  <2>1. {Absent, Directory} \cup [kind : {"file"}, content : {1}] \subseteq Entries
    BY SnapshotAssumption DEF Absent, Directory, Entries
  <2>2. source' \in [Paths -> {Absent, Directory} \cup [kind : {"file"}, content : {1}]]
    BY <1>1 DEF Workspaces
  <2> HIDE DEF Entries
  <2> QED BY <2>1, <2>2
<1>3. Consistent(source')
  <2>1. \A p \in Paths : \A q \in Ancestors(p) : source'[q] = Directory
    BY <1>1 DEF Workspaces, Ancestors
  <2> QED BY <2>1 DEF Consistent, Directory
<1> QED BY <1>1, <1>2, <1>3, ClearedKeeps DEF Start, SnapshotInv, SnapshotTypeOK

LEMMA PreflightEndsKeeps == ASSUME SnapshotInv, PreflightEnds PROVE SnapshotInv'
<1>1. /\ pass = "preflight" /\ report' = read
      /\ UNCHANGED <<source, transport, manifest, edits>> /\ Start("freeze")
  BY DEF PreflightEnds
<1> QED BY <1>1, ClearedKeeps DEF Start, SnapshotInv, SnapshotTypeOK

LEMMA CollectFailsKeeps == ASSUME SnapshotInv, CollectFails PROVE SnapshotInv'
<1>1. DOMAIN report' \subseteq Paths /\ rules' \subseteq manifest'.include
  BY DEF CollectFails, Nothing
<1> QED BY <1>1, ClearedKeeps DEF CollectFails, SnapshotInv, SnapshotTypeOK

LEMMA EditKeeps == ASSUME SnapshotInv, Edit PROVE SnapshotInv'
<1>1. PICK p \in Paths, e \in Entries :
        /\ source' = [q \in Paths |->
                       IF q = p THEN e
                       ELSE IF p \in Ancestors(q) /\ e.kind \notin {"directory", "symlink"} THEN Absent
                       ELSE source[q]]
        /\ Consistent(source')
  BY DEF Edit
<1>2. Absent \in Entries
  BY DEF Absent, Entries
<1>3. source' \in [Paths -> Entries]
  <2> HIDE DEF Entries
  <2> QED BY <1>1, <1>2 DEF SnapshotInv, SnapshotTypeOK
<1>4. edits' \in 0..MaxEdits
  BY SnapshotAssumption DEF Edit, SnapshotInv, SnapshotTypeOK
<1>5. /\ UNCHANGED <<transport, manifest, pass, rules, pending, visit, selected, directories, read, report>>
      /\ pass # "archived"
  BY DEF Edit
<1>6. SnapshotTypeOK'
  BY <1>1, <1>3, <1>4, <1>5 DEF SnapshotInv, SnapshotTypeOK, Consistent, Ancestors
<1>7. CollectedSound'
  BY <1>5 DEF SnapshotInv, CollectedSound, ReadSound, VisitSound, Selecting, TreeCovered, Allowed,
              Excluded, Covers, Bytes, Fits
<1> QED BY <1>5, <1>6, <1>7 DEF SnapshotInv

LEMMA FreezeEndsKeeps == ASSUME SnapshotInv, FreezeEnds PROVE SnapshotInv'
<1>1. /\ UNCHANGED <<source, transport, manifest, rules, pending, visit, selected, directories, read, report, edits>>
      /\ pass # "none" /\ pass' = "archived"
  BY DEF FreezeEnds
<1>2. SnapshotTypeOK'
  BY <1>1 DEF SnapshotInv, SnapshotTypeOK, Consistent
<1>3. CollectedSound'
  BY <1>1 DEF SnapshotInv, CollectedSound, ReadSound, VisitSound, Selecting, TreeCovered, Allowed,
              Excluded, Covers, Bytes, Fits
<1>4. Selected /\ selected = {} /\ SameFiles(read, report)
  BY DEF FreezeEnds
<1>5. Selected' = Selected /\ SameFiles(read, report)' = SameFiles(read, report)
  BY <1>1 DEF Selected, Required, SameFiles
<1> QED BY <1>1, <1>2, <1>3, <1>4, <1>5 DEF SnapshotInv

\* A step of a pass that reads no file to its end.
LEMMA CollectKeeps ==
  ASSUME SnapshotInv, UNCHANGED <<source, transport, manifest, pass, read, report, edits>>,
         pass \in {"preflight", "freeze"}, rules' \subseteq rules, pending' \subseteq Paths,
         visit' \in {NoVisit} \cup Visits, selected' \subseteq Paths, directories' \subseteq Paths,
         \A p \in selected' : p \in selected \/ Allowed(p),
         \A d \in pending' : d \in pending \/ TreeCovered(d),
         VisitSound(visit', selected', rules', pending'),
         Selecting(visit', rules', pending') \/ selected' # selected => Selecting(visit, rules, pending)
  PROVE  SnapshotInv'
<1>1. SnapshotTypeOK'
  BY DEF SnapshotInv, SnapshotTypeOK, Consistent
<1>2. ReadSound'
  BY DEF SnapshotInv, CollectedSound, ReadSound, Allowed, Excluded, Covers, Bytes
<1>3. (\A p \in selected' : Allowed(p)) /\ (\A d \in pending' : TreeCovered(d))
  BY DEF SnapshotInv, CollectedSound
<1>4. (\A p : Allowed(p)' <=> Allowed(p)) /\ (\A d : TreeCovered(d)' <=> TreeCovered(d))
  BY DEF Allowed, TreeCovered, Excluded, Covers
<1>5. VisitSound(visit, selected, rules, pending)'
  BY <1>4 DEF VisitSound, Fits, Bytes
<1>6. Selecting(visit', rules', pending') => DOMAIN read' = {}
  BY DEF SnapshotInv, CollectedSound
<1>7. selected' \cap DOMAIN read' = {}
  BY DEF SnapshotInv, CollectedSound
<1>8. CollectedSound'
  BY <1>2, <1>3, <1>4, <1>5, <1>6, <1>7 DEF CollectedSound, Selecting
<1> QED BY <1>1, <1>8 DEF SnapshotInv

\* A path is looked at once more.
LEMMA ValidationKeeps == ASSUME SnapshotInv, ValidateComponent \/ Canonicalize PROVE SnapshotInv'
<1>1. /\ UNCHANGED <<source, transport, manifest, pass, rules, pending, selected, directories, read, report, edits>>
      /\ pass \in {"preflight", "freeze"} /\ visit # NoVisit
  BY DEF ValidateComponent, Canonicalize
<1>2. visit \in Visits
  BY <1>1 DEF SnapshotInv, SnapshotTypeOK
<1>3. visit.left \in Seq(Paths) /\ (visit.left # <<>> => Tail(visit.left) \in Seq(Paths)) /\ <<>> \in Seq(Paths)
  BY <1>2 DEF Visits
<1>4. \/ visit' = [visit EXCEPT !.left = <<>>, !.canonical = FALSE]
      \/ visit.left # <<>> /\ visit' = [visit EXCEPT !.left = Tail(visit.left)]
      \/ visit' = [visit EXCEPT !.canonical = FALSE]
  BY DEF ValidateComponent, Canonicalize
<1>5. visit' \in Visits /\ visit'.goal = visit.goal /\ visit'.path = visit.path /\ visit'.bytes = visit.bytes
  BY <1>2, <1>3, <1>4 DEF Visits
<1>6. VisitSound(visit', selected', rules', pending')
  BY <1>1, <1>5 DEF SnapshotInv, CollectedSound, VisitSound
<1>7. Selecting(visit', rules', pending') => Selecting(visit, rules, pending)
  BY <1>1, <1>5 DEF Selecting
<1> QED BY <1>1, <1>5, <1>6, <1>7, CollectKeeps DEF SnapshotInv, SnapshotTypeOK

LEMMA SelectRuleKeeps == ASSUME SnapshotInv, SelectRule PROVE SnapshotInv'
<1> DEFINE rule == NextOf(rules)
<1>1. /\ UNCHANGED <<source, transport, manifest, pass, pending, selected, directories, read, report, edits>>
      /\ pass \in {"preflight", "freeze"} /\ rules # {} /\ rules' = rules \ {rule}
      /\ visit' = IF rule.kind = "file" /\ Excluded(rule.path) THEN NoVisit ELSE Visit(rule.kind, rule.path)
  BY DEF SelectRule, Visiting
<1>2. rule \in rules
  BY <1>1 DEF NextOf
<1> HIDE DEF rule
<1>3. rule \in manifest.include /\ rule.path \in Paths /\ rule.kind \in {"file", "tree"}
  BY <1>1, <1>2, ManifestFacts
<1>4. CASE rule.kind = "file" /\ Excluded(rule.path)
  <2>1. visit' = NoVisit /\ VisitSound(visit', selected', rules', pending')
    BY <1>1, <1>4, NoVisitPlain DEF VisitSound
  <2> QED BY <1>1, <2>1, CollectKeeps DEF Selecting, SnapshotInv, SnapshotTypeOK
<1>5. CASE ~(rule.kind = "file" /\ Excluded(rule.path))
  <2>1. visit' \in Visits /\ visit'.goal = rule.kind /\ visit'.path = rule.path
    BY <1>1, <1>3, <1>5, VisitTyped
  <2>2. VisitSound(visit', selected', rules', pending')
    BY <1>3, <1>5, <2>1 DEF VisitSound, Allowed, TreeCovered, Covers
  <2> QED BY <1>1, <2>1, <2>2, CollectKeeps DEF Selecting, SnapshotInv, SnapshotTypeOK
<1> QED BY <1>4, <1>5

LEMMA SelectFileKeeps == ASSUME SnapshotInv, SelectFile PROVE SnapshotInv'
<1>1. /\ UNCHANGED <<source, transport, manifest, pass, rules, pending, directories, read, report, edits>>
      /\ pass \in {"preflight", "freeze"} /\ visit.goal = "file" /\ visit' = NoVisit
      /\ selected' \in {selected, selected \cup {visit.path}}
  BY DEF SelectFile, Visiting
<1>2. visit.path \in Paths /\ Allowed(visit.path)
  BY <1>1, NoVisitPlain DEF SnapshotInv, SnapshotTypeOK, CollectedSound, VisitSound, Visits
<1>3. VisitSound(visit', selected', rules', pending')
  BY <1>1, NoVisitPlain DEF VisitSound
<1>4. Selecting(visit, rules, pending)
  BY <1>1 DEF Selecting
<1> QED BY <1>1, <1>2, <1>3, <1>4, CollectKeeps DEF SnapshotInv, SnapshotTypeOK

LEMMA SelectTreeKeeps == ASSUME SnapshotInv, SelectTree PROVE SnapshotInv'
<1>1. /\ UNCHANGED <<source, transport, manifest, pass, rules, selected, read, report, edits>>
      /\ pass \in {"preflight", "freeze"} /\ visit.goal = "tree" /\ visit' = NoVisit
      /\ pending' \subseteq {visit.path} /\ directories' \subseteq directories \cup {visit.path}
  BY DEF SelectTree, Visiting
<1>2. visit.path \in Paths /\ TreeCovered(visit.path)
  BY <1>1, NoVisitPlain DEF SnapshotInv, SnapshotTypeOK, CollectedSound, VisitSound, Visits
<1>3. VisitSound(visit', selected', rules', pending')
  BY <1>1, NoVisitPlain DEF VisitSound
<1>4. Selecting(visit, rules, pending)
  BY <1>1 DEF Selecting
<1> QED BY <1>1, <1>2, <1>3, <1>4, CollectKeeps DEF SnapshotInv, SnapshotTypeOK

LEMMA WalkDirectoryKeeps == ASSUME SnapshotInv, WalkDirectory PROVE SnapshotInv'
<1> DEFINE d == NextOf(pending)
<1>1. /\ UNCHANGED <<source, transport, manifest, pass, rules, selected, directories, read, report, edits>>
      /\ pass \in {"preflight", "freeze"} /\ pending # {} /\ pending' = pending \ {d} /\ visit' = Visit("list", d)
  BY DEF WalkDirectory, Visiting
<1>2. d \in pending
  BY <1>1 DEF NextOf
<1> HIDE DEF d
<1>3. d \in Paths /\ TreeCovered(d) /\ pending' \subseteq Paths
  BY <1>1, <1>2 DEF SnapshotInv, SnapshotTypeOK, CollectedSound
<1>4. visit' \in Visits /\ visit'.goal = "list" /\ visit'.path = d
  BY <1>1, <1>3, VisitTyped
<1>5. VisitSound(visit', selected', rules', pending') /\ Selecting(visit, rules, pending)
  BY <1>1, <1>3, <1>4 DEF VisitSound, Selecting
<1> QED BY <1>1, <1>3, <1>4, <1>5, CollectKeeps DEF SnapshotInv, SnapshotTypeOK

\* A rule for a tree covers what is in each directory that it covers.
LEMMA ChildCovered ==
  ASSUME NEW r, r.kind = "tree", NEW d \in Paths, NEW p \in Paths, Covers(r, d), p # d, Parent[p] = d
  PROVE  Covers(r, p)
<1>1. CASE r.path = d
  BY <1>1 DEF Covers, Ancestors
<1>2. CASE r.path \in Ancestors(d)
  <2>1. r.path = Parent[Parent[p]] /\ r.path \in Paths
    BY <1>2, SnapshotAssumption DEF Ancestors
  <2> QED BY <2>1 DEF Covers, Ancestors
<1> QED BY <1>1, <1>2 DEF Covers

LEMMA ListDirectoryKeeps == ASSUME SnapshotInv, ListDirectory PROVE SnapshotInv'
<1> DEFINE d == visit.path
           found == {p \in Children(d) : ~Excluded(p)}
<1>1. /\ UNCHANGED <<source, transport, manifest, pass, rules, read, report, edits>>
      /\ pass \in {"preflight", "freeze"} /\ visit.goal = "list" /\ visit' = NoVisit
      /\ selected' \subseteq selected \cup found /\ directories' \subseteq directories \cup found
      /\ pending' \subseteq pending \cup found
  BY DEF ListDirectory, Visiting
<1>2. d \in Paths /\ TreeCovered(d)
  BY <1>1, NoVisitPlain DEF SnapshotInv, SnapshotTypeOK, CollectedSound, VisitSound, Visits
<1>3. \A p \in found : p \in Paths /\ p # d /\ Parent[p] = d /\ ~Excluded(p)
  BY DEF Children
<1> HIDE DEF d, found
<1>4. PICK r \in manifest.include : r.kind = "tree" /\ Covers(r, d)
  BY <1>2 DEF TreeCovered
<1>5. \A p \in found : p \in Paths /\ Allowed(p) /\ TreeCovered(p)
  BY <1>2, <1>3, <1>4, ChildCovered DEF Allowed, TreeCovered
<1>6. VisitSound(visit', selected', rules', pending') /\ Selecting(visit, rules, pending)
  BY <1>1, NoVisitPlain DEF VisitSound, Selecting
<1> QED BY <1>1, <1>5, <1>6, CollectKeeps DEF SnapshotInv, SnapshotTypeOK

\* A file is looked at, opened, and looked at again.
LEMMA ReadingKeeps ==
  ASSUME SnapshotInv, ReadFile \/ StatFile \/ OpenFile \/ StatAgain PROVE SnapshotInv'
<1>1. /\ UNCHANGED <<source, transport, manifest, pass, rules, pending, selected, directories, read, report, edits>>
      /\ pass \in {"preflight", "freeze"}
  BY DEF ReadFile, StatFile, OpenFile, StatAgain, Visiting
<1>2. visit.goal # "none" => visit \in Visits /\ visit.path \in Paths
  BY NoVisitPlain DEF SnapshotInv, SnapshotTypeOK, Visits
<1>3. CASE ReadFile
  <2> DEFINE p == NextOf(selected)
  <2>1. selected # {} /\ visit' = Visit("stat", p) /\ rules = {} /\ pending = {}
    BY <1>3 DEF ReadFile, Selected
  <2>2. p \in selected
    BY <2>1 DEF NextOf
  <2> HIDE DEF p
  <2>3. p \in Paths
    BY <2>2 DEF SnapshotInv, SnapshotTypeOK
  <2>4. visit' \in Visits /\ visit'.goal = "stat" /\ visit'.path = p
    BY <2>1, <2>3, VisitTyped
  <2>5. VisitSound(visit', selected', rules', pending') /\ ~Selecting(visit', rules', pending')
    BY <1>1, <2>1, <2>2, <2>4 DEF VisitSound, Selecting
  <2> QED BY <1>1, <2>4, <2>5, CollectKeeps DEF SnapshotInv, SnapshotTypeOK
<1>4. CASE StatFile \/ OpenFile \/ StatAgain
  <2>1. visit.goal \in {"stat", "open", "after"}
    BY <1>4 DEF StatFile, OpenFile, StatAgain, Visiting
  <2>2. /\ visit \in Visits /\ visit.path \in Paths /\ visit.path \in selected /\ rules = {} /\ pending = {}
        /\ Lookup(visit.path).content \in Held /\ Prefixes(visit.path) \in Seq(Paths)
    BY <1>2, <2>1, LookupFacts, PrefixesTyped DEF SnapshotInv, CollectedSound, VisitSound
  <2>3. /\ visit' \in Visits /\ visit'.path = visit.path /\ visit'.goal \in {"open", "after", "check"}
        /\ visit'.goal \in {"after", "check"} =>
             Fits(visit'.bytes) /\ (transport = "pvc" => visit'.bytes # Outside)
    <3>1. CASE StatFile
      BY <2>2, <3>1 DEF StatFile, Visits, Held
    <3>2. CASE OpenFile
      <4>1. /\ visit' = [visit EXCEPT !.goal = "after", !.bytes = Lookup(visit.path).content]
            /\ Fits(Lookup(visit.path).content) /\ Openable(visit.path)
        BY <3>2 DEF OpenFile
      <4>2. visit' \in Visits /\ visit'.path = visit.path /\ visit'.goal = "after"
            /\ visit'.bytes = Lookup(visit.path).content
        BY <2>2, <4>1 DEF Visits, Held
      <4> QED BY <2>2, <4>1, <4>2, LookupFacts
    <3>3. CASE StatAgain
      <4>1. /\ visit' = [visit EXCEPT !.goal = "check", !.left = Prefixes(visit.path), !.canonical = (transport = "ssh")]
            /\ visit.goal = "after"
        BY <3>3 DEF StatAgain, Visiting
      <4>2. visit' \in Visits /\ visit'.path = visit.path /\ visit'.goal = "check" /\ visit'.bytes = visit.bytes
        BY <2>2, <4>1 DEF Visits
      <4>3. Fits(visit.bytes) /\ (transport = "pvc" => visit.bytes # Outside)
        BY <4>1 DEF SnapshotInv, CollectedSound, VisitSound
      <4> QED BY <4>2, <4>3
    <3> QED BY <1>4, <3>1, <3>2, <3>3
  <2>4. VisitSound(visit', selected', rules', pending') /\ ~Selecting(visit', rules', pending')
    BY <1>1, <2>2, <2>3 DEF VisitSound, Selecting
  <2> QED BY <1>1, <2>3, <2>4, CollectKeeps DEF SnapshotInv, SnapshotTypeOK
<1> QED BY <1>3, <1>4

LEMMA FileReadKeeps == ASSUME SnapshotInv, FileRead PROVE SnapshotInv'
<1> DEFINE p == visit.path
           c == visit.bytes
<1>1. /\ UNCHANGED <<source, transport, manifest, pass, rules, pending, directories, report, edits>>
      /\ pass \in {"preflight", "freeze"} /\ visit.goal = "check" /\ visit' = NoVisit
      /\ selected' = selected \ {p}
      /\ read' = [q \in DOMAIN read \cup {p} |-> IF q = p THEN c ELSE read[q]]
  BY DEF FileRead, Visiting
<1>2. visit \in Visits
  BY <1>1, NoVisitPlain DEF SnapshotInv, SnapshotTypeOK
<1>3. /\ p \in selected /\ p \in Paths /\ p \notin DOMAIN read /\ c \in Held /\ rules = {} /\ pending = {}
      /\ Fits(c) /\ (transport = "pvc" => c # Outside)
      /\ selected \subseteq Paths /\ DOMAIN read \subseteq Paths
  BY <1>1, <1>2 DEF SnapshotInv, SnapshotTypeOK, CollectedSound, VisitSound, Visits, Held
<1> HIDE DEF p, c
<1>4. /\ Bytes(read') = Bytes(read) + SizeOf[c]
      /\ read' \in [DOMAIN read' -> Held] /\ DOMAIN read' = DOMAIN read \cup {p} /\ IsFiniteSet(DOMAIN read')
  <2>1. read \in [DOMAIN read -> Held] /\ IsFiniteSet(DOMAIN read)
    BY DEF SnapshotInv, CollectedSound, ReadSound
  <2> DEFINE b == read'
  <2>2. b = [q \in DOMAIN read \cup {p} |-> IF q = p THEN c ELSE read[q]]
    BY <1>1
  <2> HIDE DEF b
  <2>3. /\ Bytes(b) = Bytes(read) + SizeOf[c]
        /\ b \in [DOMAIN b -> Held] /\ DOMAIN b = DOMAIN read \cup {p} /\ IsFiniteSet(DOMAIN b)
    BY <1>3, <2>1, <2>2, BytesAdd
  <2> QED BY <2>3 DEF b
<1>5. /\ \A q \in DOMAIN read' : Allowed(q)
      /\ transport = "pvc" => \A q \in DOMAIN read' : read'[q] # Outside
  BY <1>1, <1>3, <1>4 DEF SnapshotInv, CollectedSound, ReadSound
<1>6. \A q : Allowed(q)' <=> Allowed(q)
  BY <1>1 DEF Allowed, Excluded, Covers
<1>7. Bytes(read)' <= manifest'.bytes
  BY <1>1, <1>3, <1>4 DEF Bytes, Fits
<1>8. ReadSound'
  BY <1>1, <1>4, <1>5, <1>6, <1>7 DEF ReadSound
<1>9. CollectedSound'
  BY <1>1, <1>3, <1>4, <1>6, <1>8, NoVisitPlain DEF SnapshotInv, CollectedSound, VisitSound, Selecting
<1>10. SnapshotTypeOK'
  BY <1>1, <1>3, <1>4 DEF SnapshotInv, SnapshotTypeOK, Consistent
<1> QED BY <1>1, <1>9, <1>10 DEF SnapshotInv

LEMMA SnapshotStepKeeps == ASSUME SnapshotInv, SnapshotStep PROVE SnapshotInv'
BY PreflightKeeps, PreflightEndsKeeps, EditKeeps, FreezeEndsKeeps, CollectFailsKeeps, ValidationKeeps,
   SelectRuleKeeps, SelectFileKeeps, SelectTreeKeeps, WalkDirectoryKeeps, ListDirectoryKeeps,
   ReadingKeeps, FileReadKeeps
DEF SnapshotStep

LEMMA ArchivesSound == ASSUME SnapshotInv PROVE ArchiveSound
<1> SUFFICES ASSUME pass = "archived" PROVE ArchiveSound
  BY DEF ArchiveSound
<1>1. Selected /\ selected = {} /\ SameFiles(read, report) /\ ReadSound
  BY DEF SnapshotInv, CollectedSound
<1>2. \A p \in DOMAIN read : ~Excluded(p) /\ \E r \in manifest.include : Covers(r, p)
  BY <1>1 DEF ReadSound, Allowed
<1>3. \A r \in manifest.required : r.kind = "file" => r.path \in DOMAIN read
  BY <1>1 DEF Selected, Required
<1>4. DOMAIN read # {} /\ IsFiniteSet(DOMAIN read) /\ Cardinality(DOMAIN read) <= manifest.files
  <2>1. selected \cup DOMAIN read = DOMAIN read
    BY <1>1
  <2> QED BY <1>1, <2>1 DEF Selected, ReadSound
<1>5. Cardinality(DOMAIN read) \in Nat /\ Cardinality(DOMAIN read) # 0
  BY <1>4, FS_CardinalityType, FS_EmptySet
<1>6. Cardinality(DOMAIN read) \in 1..manifest.files
  BY <1>4, <1>5, ManifestFacts
<1> QED BY <1>1, <1>2, <1>3, <1>6 DEF ArchiveSound, ReadSound, SameFiles

-----------------------------------------------------------------------------
(***************************************************************************)
(* The Job of a step                                                       *)
(***************************************************************************)

LEMMA OrdersTyped ==
  /\ \A s \in Orders : s \in Seq(Kinds) /\ Len(s) = 3
  /\ Kinds = {CleanupOrder[i] : i \in 1..3}
BY DEF Orders, LookOrder, ApplyOrder, CleanupOrder, Kinds

\* What is left of an order that the code goes through.
LEMMA SuffixFacts ==
  ASSUME NEW s \in Orders, NEW n \in 1..4
  PROVE  /\ SubSeq(s, n, 3) \in Seq(Kinds) /\ Len(SubSeq(s, n, 3)) = 4 - n
         /\ n = 4 => SubSeq(s, n, 3) = <<>>
         /\ n # 4 => /\ SubSeq(s, n, 3) # <<>> /\ Head(SubSeq(s, n, 3)) = s[n] /\ s[n] \in Kinds
                     /\ Tail(SubSeq(s, n, 3)) = SubSeq(s, n + 1, 3)
         /\ SubSeq(s, 1, 3) = s
<1>1. s \in Seq(Kinds) /\ Len(s) = 3
  BY OrdersTyped
<1>2. \A i \in n..3 : s[i] \in Kinds
  <2>1. \A i \in n..3 : i \in 1..Len(s)
    BY <1>1
  <2>2. \A i \in 1..Len(s) : s[i] \in Kinds
    BY <1>1, ElementOfSeq
  <2> QED BY <2>1, <2>2
<1>3. SubSeq(s, n, 3) \in Seq(Kinds) /\ Len(SubSeq(s, n, 3)) = 4 - n
  BY <1>2, SubSeqProperties
<1>4. n = 4 => SubSeq(s, n, 3) = <<>>
  BY SubSeqEmpty
<1>5. ASSUME n # 4
      PROVE  /\ Head(SubSeq(s, n, 3)) = s[n] /\ s[n] \in Kinds
             /\ Tail(SubSeq(s, n, 3)) = SubSeq(s, n + 1, 3)
  <2>1. n \in 1..Len(s) /\ 3 \in n..Len(s)
    BY <1>1, <1>5
  <2> QED BY <1>1, <1>2, <2>1, HeadTailOfSubSeq
<1>6. n # 4 => SubSeq(s, n, 3) # <<>>
  <2>1. n # 4 => 4 - n # 0
    OBVIOUS
  <2>2. Len(<<>>) = 0
    BY EmptySeq
  <2> QED BY <1>3, <2>1, <2>2
<1>7. SubSeq(s, 1, 3) = s
  BY <1>1, SubSeqFull
<1> QED BY <1>3, <1>4, <1>5, <1>6, <1>7

Phases == {"idle", "look", "apply", "delete", "verify", "job", "pods"}

CallRow == [phase : Phases, left : Seq(Kinds), seen : Nat, found : {"no", "current", "stale"},
            after : {"idle", "apply", "error", "cleaned"}]

Suffix(o, c) == \E n \in 1..4 : c.left = SubSeq(o, n, 3)

\* A call is somewhere in one of the orders, and has found the next object only
\* while it deletes.
CallSound(c) ==
  /\ c \in CallRow
  /\ \E s \in Orders : Suffix(s, c)
  /\ c.phase \in {"delete", "verify"} => Suffix(CleanupOrder, c)
  /\ c.found # "no" => c.phase = "delete" /\ c.left # <<>>

\* The kinds that the verification of a cleanup has been through.
Checked(c) == {CleanupOrder[i] : i \in 1..(3 - Len(c.left))}

Gone(k) == resources[k] \in {"own", "going"} => k \in arrivedLate

\* Nothing of the attempt is left behind a cleanup, and what was found is still
\* what is there unless the call knows better.
CleanupSound ==
  /\ call.phase # "idle" => answer = "none"
  /\ call.phase = "verify" /\ call.after = "cleaned" => \A k \in Checked(call) : Gone(k)
  /\ call.found = "current" => resources[NextKind] \in {"own", "going"}
  /\ CleanedAbsent

RunnerInv == RunnerTypeOK /\ CallSound(call) /\ CleanupSound

LEMMA NoCallSound == CallSound(NoCall) /\ NoCall.phase = "idle" /\ NoCall.found = "no"
<1>1. NoCall.left = SubSeq(CleanupOrder, 4, 3) /\ CleanupOrder \in Orders
  BY SuffixFacts DEF NoCall, Orders
<1>2. NoCall \in CallRow
  BY EmptySeq DEF NoCall, CallRow, Phases
<1> QED BY <1>1, <1>2 DEF CallSound, Suffix, NoCall

LEMMA RunnerInitially == ASSUME RunnerInit PROVE RunnerInv
<1>1. CallSound(call) /\ call.phase = "idle" /\ call.found = "no"
  BY NoCallSound DEF RunnerInit
<1>2. call.phase \in {"idle", "look", "apply", "delete", "verify", "job", "pods"}
      /\ (\E s \in Orders, n \in 1..4 : call.left = SubSeq(s, n, 3))
      /\ call.after \in {"idle", "apply", "error", "cleaned"}
  BY <1>1 DEF CallSound, Suffix, CallRow, Phases
<1>3. RunnerTypeOK
  BY <1>2, RunnerBounds DEF RunnerInit, RunnerTypeOK, NoRunner
<1>4. CleanupSound
  BY <1>1 DEF RunnerInit, CleanupSound, CleanedAbsent
<1> QED BY <1>1, <1>3, <1>4 DEF RunnerInv

ClusterOK ==
  /\ resources \in [Kinds -> {"absent", "own", "going", "drifted"}]
  /\ jobState \in {"none", "active", "succeeded", "failed", "deadline"}
  /\ runner \in [owner : {"own", "drifted"}, phase : {"none", "running", "succeeded", "failed"}]
  /\ unanswered \subseteq Kinds /\ arrivedLate \subseteq Kinds
  /\ calls \in 0..MaxCalls /\ drifts \in 0..MaxDrift

AnswerSet == {"none", "started", "missing", "running", "completed", "failed", "cleaned",
              "pending", "conflict", "invalid", "error"}

LEMMA RunnerTypes ==
  /\ RunnerInv => ClusterOK /\ answer \in AnswerSet /\ CallSound(call)
  /\ ClusterOK' /\ answer' \in AnswerSet /\ CallSound(call') /\ CleanupSound' => RunnerInv'
<1>1. RunnerInv => ClusterOK /\ answer \in AnswerSet /\ CallSound(call)
  BY DEF RunnerInv, RunnerTypeOK, ClusterOK, AnswerSet
<1>2. ASSUME ClusterOK', answer' \in AnswerSet, CallSound(call'), CleanupSound'
      PROVE  RunnerInv'
  <2>1. call'.phase \in {"idle", "look", "apply", "delete", "verify", "job", "pods"}
        /\ (\E s \in Orders, n \in 1..4 : call'.left = SubSeq(s, n, 3))
        /\ call'.after \in {"idle", "apply", "error", "cleaned"}
    BY <1>2 DEF CallSound, Suffix, CallRow, Phases
  <2>2. CallSound(call)' = CallSound(call')
    BY DEF CallSound, Suffix
  <2> QED BY <1>2, <2>1, <2>2 DEF RunnerInv, RunnerTypeOK, ClusterOK, AnswerSet
<1> QED BY <1>1, <1>2

\* A call that is answered, or taken one step on, stays sound.
LEMMA StepOfCall ==
  ASSUME CallSound(call), call.left # <<>>
  PROVE  /\ NextKind \in Kinds
         /\ CallSound(Onwards) /\ Onwards.found = "no" /\ Onwards.phase = call.phase
         /\ Onwards.after = call.after /\ Onwards.left = Tail(call.left)
         /\ CallSound([Onwards EXCEPT !.seen = Onwards.seen + 1])
         /\ call.phase = "delete" => CallSound([call EXCEPT !.found = "current"]) /\ CallSound([call EXCEPT !.found = "stale"])
<1>1. PICK s \in Orders, n \in 1..4 : call.left = SubSeq(s, n, 3)
  BY DEF CallSound, Suffix
<1>2. n # 4 /\ n + 1 \in 1..4
  BY <1>1, SuffixFacts
<1>3. NextKind \in Kinds /\ Tail(call.left) = SubSeq(s, n + 1, 3) /\ Tail(call.left) \in Seq(Kinds)
  BY <1>1, <1>2, SuffixFacts DEF NextKind
<1>4. call.phase \in {"delete", "verify"} => \E m \in 1..4 : Tail(call.left) = SubSeq(CleanupOrder, m, 3)
  <2>1. SUFFICES ASSUME call.phase \in {"delete", "verify"}
                 PROVE  \E m \in 1..4 : Tail(call.left) = SubSeq(CleanupOrder, m, 3)
    OBVIOUS
  <2>2. PICK m \in 1..4 : call.left = SubSeq(CleanupOrder, m, 3)
    BY <2>1 DEF CallSound, Suffix
  <2>3. CleanupOrder \in Orders
    BY DEF Orders
  <2>4. m # 4 /\ m + 1 \in 1..4
    BY <2>2, <2>3, SuffixFacts
  <2> QED BY <2>2, <2>3, <2>4, SuffixFacts
<1>5. call \in CallRow
  BY DEF CallSound
<1>6. /\ Onwards \in CallRow /\ Onwards.found = "no" /\ Onwards.phase = call.phase
      /\ Onwards.after = call.after /\ Onwards.left = Tail(call.left)
  BY <1>3, <1>5 DEF Onwards, CallRow
<1>7. CallSound(Onwards)
  BY <1>2, <1>3, <1>4, <1>6 DEF CallSound, Suffix
<1> DEFINE c == [Onwards EXCEPT !.seen = Onwards.seen + 1]
<1>8. c \in CallRow /\ c.left = Onwards.left /\ c.phase = Onwards.phase /\ c.found = Onwards.found
  BY <1>6 DEF CallRow
<1>9. CallSound(c)
  <2> HIDE DEF c
  <2> QED BY <1>7, <1>8 DEF CallSound, Suffix
<1>10. ASSUME call.phase = "delete", NEW fo \in {"current", "stale"}
       PROVE  CallSound([call EXCEPT !.found = fo])
  <2> DEFINE d == [call EXCEPT !.found = fo]
  <2>1. d \in CallRow /\ d.left = call.left /\ d.phase = call.phase
    BY <1>5, <1>10 DEF CallRow
  <2> HIDE DEF d
  <2>2. CallSound(d)
    BY <1>10, <2>1 DEF CallSound, Suffix
  <2> QED BY <2>2 DEF d
<1> QED BY <1>3, <1>6, <1>7, <1>9, <1>10

\* The calls that the executor starts.
LEMMA FirstCalls ==
  /\ \A seen \in Nat : CallSound(Applying(seen)) /\ Applying(seen).phase = "apply" /\ Applying(seen).found = "no"
  /\ \A after \in {"apply", "error", "cleaned"} :
       CallSound(Cleaning(after, 0)) /\ Cleaning(after, 0).phase = "delete" /\ Cleaning(after, 0).found = "no"
  /\ CallSound([NoCall EXCEPT !.phase = "look", !.left = LookOrder])
  /\ CallSound([NoCall EXCEPT !.phase = "job"])
<1>1. \A s \in Orders : s \in Seq(Kinds) /\ \E n \in 1..4 : s = SubSeq(s, n, 3)
  BY OrdersTyped, SuffixFacts
<1>2. LookOrder \in Orders /\ ApplyOrder \in Orders /\ CleanupOrder \in Orders
  BY DEF Orders
<1>3. \A seen \in Nat : /\ Applying(seen) \in CallRow /\ Applying(seen).phase = "apply"
                        /\ Applying(seen).found = "no" /\ Applying(seen).left = ApplyOrder
  BY <1>1, <1>2 DEF Applying, NoCall, CallRow, Phases
<1>4. \A after \in {"apply", "error", "cleaned"} :
        /\ Cleaning(after, 0) \in CallRow /\ Cleaning(after, 0).phase = "delete"
        /\ Cleaning(after, 0).found = "no" /\ Cleaning(after, 0).left = CleanupOrder
  BY <1>1, <1>2 DEF Cleaning, NoCall, CallRow, Phases
<1>5. CallSound([NoCall EXCEPT !.phase = "look", !.left = LookOrder])
  BY <1>1, <1>2 DEF NoCall, CallSound, CallRow, Suffix, Phases
<1>6. CallSound([NoCall EXCEPT !.phase = "job"])
  <2>1. NoCall.left = <<>> /\ \E s \in Orders : Suffix(s, NoCall)
    BY NoCallSound DEF CallSound, NoCall
  <2>2. [NoCall EXCEPT !.phase = "job"] \in CallRow
    BY EmptySeq DEF NoCall, CallRow, Phases
  <2> QED BY <2>1, <2>2 DEF NoCall, CallSound, Suffix
<1> QED BY <1>1, <1>2, <1>3, <1>4, <1>5, <1>6 DEF CallSound, Suffix

\* A call goes on, and the cluster stays as it is: what matters is what it has
\* found, and what it has verified.
LEMMA GoesSound ==
  ASSUME RunnerInv, NEW c, CallSound(c), Goes(c), call.phase # "idle",
         UNCHANGED <<resources, arrivedLate>>,
         c.found = "current" => resources[Head(c.left)] \in {"own", "going"},
         c.phase = "verify" /\ c.after = "cleaned" => \A k \in Checked(c) : Gone(k)
  PROVE  CleanupSound' /\ CallSound(call') /\ answer' \in AnswerSet
<1>1. call' = c /\ answer' = answer /\ answer = "none"
  BY DEF RunnerInv, CleanupSound, Goes
<1>2. answer' \in AnswerSet
  BY <1>1 DEF AnswerSet
<1> QED BY <1>1, <1>2 DEF CleanupSound, CleanedAbsent, Gone, Checked, NextKind

\* A call is answered, with anything but "cleaned".
LEMMA AnswersSound ==
  ASSUME RunnerInv, NEW result1 \in AnswerSet \ {"cleaned"}, Answers(result1)
  PROVE  CleanupSound' /\ CallSound(call') /\ answer' \in AnswerSet
<1>1. call' = NoCall /\ answer' = result1
  BY DEF Answers
<1> QED BY <1>1, NoCallSound DEF CleanupSound, CleanedAbsent

\* A call goes on to where nothing has been found or verified yet.
LEMMA GoesPlain ==
  ASSUME RunnerInv, NEW c, CallSound(c), Goes(c), call.phase # "idle", c.found = "no", c.phase # "verify"
  PROVE  CleanupSound' /\ CallSound(call') /\ answer' \in AnswerSet
<1>1. call' = c /\ answer' = "none"
  BY DEF RunnerInv, CleanupSound, Goes
<1> QED BY <1>1 DEF CleanupSound, CleanedAbsent, AnswerSet

LEMMA Started ==
  ASSUME RunnerInv, StartAttempt \/ CleanupAttempt \/ ObserveAttempt
  PROVE  RunnerInv'
<1>1. /\ UNCHANGED <<clusterVars, unanswered, drifts>>
      /\ arrivedLate' \in {arrivedLate, {}} /\ calls' = calls + 1 /\ calls < MaxCalls
  BY DEF StartAttempt, CleanupAttempt, ObserveAttempt, Called
<1>2. ClusterOK'
  BY <1>1, RunnerTypes, RunnerBounds DEF ClusterOK, clusterVars
<1>3. CallSound(call') /\ call'.found = "no" /\ call'.phase # "verify" /\ answer' = "none"
  BY FirstCalls DEF StartAttempt, CleanupAttempt, ObserveAttempt, Called, NoCall
<1>4. CleanupSound' /\ answer' \in AnswerSet
  BY <1>3 DEF CleanupSound, CleanedAbsent, AnswerSet
<1> QED BY <1>2, <1>3, <1>4, RunnerTypes

LEMMA LookAtKeeps == ASSUME RunnerInv, LookAt PROVE RunnerInv'
<1>1. UNCHANGED <<clusterVars, unanswered, arrivedLate, calls, drifts>> /\ call.phase = "look"
  BY DEF LookAt
<1>2. ClusterOK'
  BY <1>1, RunnerTypes DEF ClusterOK, clusterVars
<1>3. CallSound(call) /\ call.seen \in Nat
  BY RunnerTypes DEF CallSound, CallRow
<1>4. CASE call.left # <<>>
  <2>1. /\ CallSound(Onwards) /\ Onwards.found = "no" /\ Onwards.phase = "look" /\ Onwards \in CallRow
        /\ CallSound([Onwards EXCEPT !.seen = Onwards.seen + 1])
    BY <1>1, <1>3, <1>4, StepOfCall DEF CallSound
  <2>2. \/ Answers("conflict")
        \/ Goes([Onwards EXCEPT !.seen = Onwards.seen + 1])
        \/ Goes([Onwards EXCEPT !.seen = Onwards.seen])
    BY <1>4 DEF LookAt
  <2> DEFINE c == [Onwards EXCEPT !.seen = Onwards.seen + 1]
  <2>3. [Onwards EXCEPT !.seen = Onwards.seen] = Onwards /\ c.found = "no" /\ c.phase = "look" /\ CallSound(c)
    BY <2>1 DEF CallRow
  <2>4. Answers("conflict") \/ Goes(c) \/ Goes(Onwards)
    BY <2>2, <2>3
  <2> HIDE DEF c
  <2>5. CleanupSound' /\ CallSound(call') /\ answer' \in AnswerSet
    <3>1. CASE Answers("conflict")
      BY <3>1, AnswersSound DEF AnswerSet
    <3>2. CASE Goes(c)
      BY <1>1, <2>3, <3>2, GoesPlain
    <3>3. CASE Goes(Onwards)
      BY <1>1, <2>1, <3>3, GoesPlain
    <3> QED BY <2>4, <3>1, <3>2, <3>3
  <2> QED BY <1>2, <2>5, RunnerTypes
<1>5. CASE call.left = <<>>
  <2>1. Goes(Cleaning("apply", 0)) \/ Goes(Applying(call.seen))
    BY <1>5 DEF LookAt
  <2>2. CleanupSound' /\ CallSound(call') /\ answer' \in AnswerSet
    BY <1>1, <1>3, <2>1, FirstCalls, GoesPlain
  <2> QED BY <1>2, <2>2, RunnerTypes
<1> QED BY <1>4, <1>5

LEMMA ArriveTyped ==
  ASSUME ClusterOK, NEW k \in Kinds, Arrive(k)
  PROVE  /\ resources' \in [Kinds -> {"absent", "own", "going", "drifted"}]
         /\ jobState' \in {"none", "active", "succeeded", "failed", "deadline"}
         /\ runner' \in [owner : {"own", "drifted"}, phase : {"none", "running", "succeeded", "failed"}]
         /\ \A j \in Kinds : j # k => resources'[j] = resources[j]
         /\ \A j \in Kinds : resources'[j] \in {resources[j], "own"}
BY DEF ClusterOK, Arrive

LEMMA ApplyKeeps == ASSUME RunnerInv, ApplyNext \/ ApplyFails PROVE RunnerInv'
<1>1. /\ call.phase = "apply" /\ UNCHANGED <<arrivedLate, calls, drifts>> /\ ClusterOK /\ CallSound(call)
  BY RunnerTypes DEF ApplyNext, ApplyFails
<1>2. CASE call.left = <<>>
  <2>1. UNCHANGED <<clusterVars, unanswered>> /\ Answers("started")
    BY <1>2 DEF ApplyNext, ApplyFails
  <2>2. ClusterOK'
    BY <1>1, <2>1 DEF ClusterOK, clusterVars
  <2> QED BY <2>1, <2>2, AnswersSound, RunnerTypes DEF AnswerSet
<1>3. CASE call.left # <<>>
  <2>1. /\ NextKind \in Kinds /\ CallSound(Onwards) /\ Onwards.found = "no" /\ Onwards.phase = "apply"
    BY <1>1, <1>3, StepOfCall
  <2>2. /\ UNCHANGED clusterVars \/ Arrive(NextKind)
        /\ unanswered' \in {unanswered, unanswered \cup {NextKind}}
    BY <1>3 DEF ApplyNext, ApplyFails
  <2>3. ClusterOK'
    BY <1>1, <2>1, <2>2, ArriveTyped DEF ClusterOK, clusterVars
  <2>4. Goes(Onwards) \/ Answers("error") \/ Goes(Cleaning("error", 0))
    BY <1>3 DEF ApplyNext, ApplyFails
  <2>5. CleanupSound' /\ CallSound(call') /\ answer' \in AnswerSet
    <3>1. CASE Goes(Onwards)
      BY <1>1, <2>1, <3>1, GoesPlain
    <3>2. CASE Answers("error")
      BY <3>2, AnswersSound DEF AnswerSet
    <3>3. CASE Goes(Cleaning("error", 0))
      BY <1>1, <3>3, FirstCalls, GoesPlain
    <3> QED BY <2>4, <3>1, <3>2, <3>3
  <2> QED BY <2>3, <2>5, RunnerTypes
<1> QED BY <1>2, <1>3

\* A cleanup ends without having removed everything.
LEMMA CleanupEndsEarly ==
  ASSUME RunnerInv, NEW r \in {"conflict", "pending"}, CleanupAnswers(r)
  PROVE  CleanupSound' /\ CallSound(call') /\ answer' \in AnswerSet
<1>1. Answers(r) \/ Answers("pending")
  BY DEF CleanupAnswers
<1> QED BY <1>1, AnswersSound DEF AnswerSet

LEMMA GetForDeleteKeeps == ASSUME RunnerInv, GetForDelete PROVE RunnerInv'
<1>1. /\ call.phase = "delete" /\ call.found = "no" /\ CallSound(call) /\ call \in CallRow
      /\ UNCHANGED <<clusterVars, unanswered, arrivedLate, calls, drifts>>
  BY RunnerTypes DEF GetForDelete, CallSound
<1>2. ClusterOK' /\ resources' = resources
  BY <1>1, RunnerTypes DEF ClusterOK, clusterVars
<1>3. CASE call.left = <<>>
  <2> DEFINE c == [call EXCEPT !.phase = "verify", !.left = CleanupOrder]
  <2>1. CleanupOrder \in Orders /\ CleanupOrder \in Seq(Kinds) /\ CleanupOrder = SubSeq(CleanupOrder, 1, 3)
        /\ Len(CleanupOrder) = 3
    BY OrdersTyped, SuffixFacts DEF Orders
  <2>2. c \in CallRow /\ c.left = CleanupOrder /\ c.phase = "verify" /\ c.found = "no"
    BY <1>1, <2>1 DEF CallRow, Phases
  <2>3. Goes(c)
    BY <1>3 DEF GetForDelete
  <2> HIDE DEF c
  <2>4. CallSound(c)
    BY <2>1, <2>2 DEF CallSound, Suffix
  <2>5. Checked(c) = {}
    <3>1. \A i \in 1..(3 - Len(c.left)) : FALSE
      <4>1. Len(c.left) = 3
        BY <2>1, <2>2, Zenon
      <4> QED BY <4>1
    <3> QED BY <3>1, Zenon DEF Checked
  <2>6. CleanupSound' /\ CallSound(call') /\ answer' \in AnswerSet
    BY <1>1, <1>2, <2>2, <2>3, <2>4, <2>5, GoesSound
  <2> QED BY <1>2, <2>6, RunnerTypes
<1>4. CASE call.left # <<>> /\ Goes(Onwards)
  <2>1. CallSound(Onwards) /\ Onwards.found = "no" /\ Onwards.phase = "delete"
    BY <1>1, <1>4, StepOfCall
  <2>2. CleanupSound' /\ CallSound(call') /\ answer' \in AnswerSet
    BY <1>1, <1>4, <2>1, GoesPlain
  <2> QED BY <1>2, <2>2, RunnerTypes
<1>5. CASE CleanupAnswers("conflict")
  BY <1>2, <1>5, CleanupEndsEarly, RunnerTypes
<1>6. CASE call.left # <<>> /\ VerifyOwned(resources[NextKind]) /\ Goes([call EXCEPT !.found = "current"])
  <2> DEFINE c == [call EXCEPT !.found = "current"]
  <2>1. CallSound(c) /\ c.left = call.left /\ c.phase = "delete" /\ Goes(c)
    BY <1>1, <1>6, StepOfCall DEF CallRow
  <2> HIDE DEF c
  <2>2. resources[Head(c.left)] \in {"own", "going"}
    BY <1>6, <2>1 DEF VerifyOwned, NextKind
  <2>3. CleanupSound' /\ CallSound(call') /\ answer' \in AnswerSet
    BY <1>1, <1>2, <2>1, <2>2, GoesSound
  <2> QED BY <1>2, <2>3, RunnerTypes
<1> QED BY <1>3, <1>4, <1>5, <1>6 DEF GetForDelete

LEMMA DeleteTyped ==
  ASSUME ClusterOK, NEW k \in Kinds, DeleteObject(k)
  PROVE  /\ resources' \in [Kinds -> {"absent", "own", "going", "drifted"}]
         /\ jobState' \in {"none", "active", "succeeded", "failed", "deadline"}
         /\ runner' \in [owner : {"own", "drifted"}, phase : {"none", "running", "succeeded", "failed"}]
         /\ \A j \in Kinds : j # k => resources'[j] = resources[j]
BY DEF ClusterOK, DeleteObject

LEMMA DeleteKeeps == ASSUME RunnerInv, DeleteFound \/ DeleteConflicts PROVE RunnerInv'
<1>1. /\ call.phase = "delete" /\ CallSound(call) /\ call.left # <<>> /\ ClusterOK
      /\ UNCHANGED <<unanswered, arrivedLate, calls, drifts>>
  BY RunnerTypes DEF DeleteFound, DeleteConflicts, CallSound
<1>2. NextKind \in Kinds /\ CallSound(Onwards) /\ Onwards.found = "no" /\ Onwards.phase = "delete"
  BY <1>1, StepOfCall
<1>3. UNCHANGED clusterVars \/ DeleteObject(NextKind)
  BY DEF DeleteFound, DeleteConflicts
<1>4. ClusterOK'
  BY <1>1, <1>2, <1>3, DeleteTyped DEF ClusterOK, clusterVars
<1>5. Goes(Onwards) \/ CleanupAnswers("conflict")
  BY DEF DeleteFound, DeleteConflicts
<1>6. CleanupSound' /\ CallSound(call') /\ answer' \in AnswerSet
  BY <1>1, <1>2, <1>5, GoesPlain, CleanupEndsEarly
<1> QED BY <1>4, <1>6, RunnerTypes

LEMMA VerifyAbsentKeeps == ASSUME RunnerInv, VerifyAbsent PROVE RunnerInv'
<1>1. /\ call.phase = "verify" /\ CallSound(call)
      /\ UNCHANGED <<clusterVars, unanswered, arrivedLate, calls, drifts>>
  BY RunnerTypes DEF VerifyAbsent
<1>2. ClusterOK' /\ resources' = resources /\ arrivedLate' = arrivedLate
  BY <1>1, RunnerTypes DEF ClusterOK, clusterVars
<1>3. PICK n \in 1..4 : call.left = SubSeq(CleanupOrder, n, 3)
  BY <1>1 DEF CallSound, Suffix
<1>4. CleanupOrder \in Orders
  BY DEF Orders
<1>5. Len(call.left) = 4 - n /\ (call.left = <<>> <=> n = 4)
      /\ (n # 4 => NextKind = CleanupOrder[n] /\ Tail(call.left) = SubSeq(CleanupOrder, n + 1, 3))
  BY <1>3, <1>4, SuffixFacts DEF NextKind
<1>6. CASE call.left = <<>>
  <2>1. CleanupAnswers("cleaned") /\ 3 - Len(call.left) = 3
    BY <1>5, <1>6 DEF VerifyAbsent
  <2>2. Checked(call) = Kinds
    BY <2>1, OrdersTyped DEF Checked
  <2>3. CASE call.after = "cleaned"
    <3>1. Answers("cleaned")
      BY <2>1, <2>3 DEF CleanupAnswers
    <3>2. \A k \in Kinds : Gone(k)
      BY <1>1, <2>2, <2>3 DEF RunnerInv, CleanupSound
    <3>3. CleanedAbsent'
      BY <1>2, <3>2 DEF CleanedAbsent, Gone
    <3>4. CleanupSound' /\ CallSound(call') /\ answer' \in AnswerSet
      BY <3>1, <3>3, NoCallSound DEF CleanupSound, Answers, AnswerSet
    <3> QED BY <1>2, <3>4, RunnerTypes
  <2>4. CASE call.after = "error"
    <3>1. Answers("error")
      BY <2>1, <2>4 DEF CleanupAnswers
    <3> QED BY <1>2, <3>1, AnswersSound, RunnerTypes DEF AnswerSet
  <2>5. CASE call.after \notin {"cleaned", "error"}
    <3>1. Goes(Applying(0))
      BY <2>1, <2>5 DEF CleanupAnswers
    <3>2. CleanupSound' /\ CallSound(call') /\ answer' \in AnswerSet
      BY <1>1, <3>1, FirstCalls, GoesPlain
    <3> QED BY <1>2, <3>2, RunnerTypes
  <2> QED BY <2>3, <2>4, <2>5
<1>7. CASE call.left # <<>> /\ ~IsPresent(NextKind)
  <2>1. Goes(Onwards)
    BY <1>7 DEF VerifyAbsent
  <2>2. /\ CallSound(Onwards) /\ Onwards.found = "no" /\ Onwards.phase = "verify"
        /\ Onwards.after = call.after /\ Onwards.left = Tail(call.left)
    BY <1>1, <1>7, StepOfCall
  <2>3. n # 4 /\ n + 1 \in 1..4 /\ Len(Onwards.left) = 4 - (n + 1)
    BY <1>4, <1>5, <1>7, <2>2, SuffixFacts
  <2>4. 3 - Len(Onwards.left) = n /\ 3 - Len(call.left) = n - 1
    BY <1>5, <2>3
  <2>5. \A k \in Checked(Onwards) : k = NextKind \/ k \in Checked(call)
    <3>1. \A i \in 1..n : i = n \/ i \in 1..(n - 1)
      OBVIOUS
    <3> QED BY <1>5, <2>3, <2>4, <3>1 DEF Checked
  <2>6. call.after = "cleaned" => \A k \in Checked(Onwards) : Gone(k)
    BY <1>1, <1>7, <2>5 DEF RunnerInv, CleanupSound, IsPresent, Gone
  <2>7. CleanupSound' /\ CallSound(call') /\ answer' \in AnswerSet
    <3> DEFINE c == Onwards
    <3>1. /\ CallSound(c) /\ Goes(c) /\ c.found = "no"
          /\ c.phase = "verify" /\ c.after = "cleaned" => \A k \in Checked(c) : Gone(k)
      BY <2>1, <2>2, <2>6
    <3> HIDE DEF c
    <3> QED BY <1>1, <1>2, <3>1, GoesSound
  <2> QED BY <1>2, <2>7, RunnerTypes
<1>8. CASE CleanupAnswers("conflict") \/ CleanupAnswers("pending")
  <2>1. CleanupSound' /\ CallSound(call') /\ answer' \in AnswerSet
    BY <1>8, CleanupEndsEarly
  <2> QED BY <1>2, <2>1, RunnerTypes
<1> QED BY <1>6, <1>7, <1>8 DEF VerifyAbsent

LEMMA ObserveKeeps == ASSUME RunnerInv, ObserveJob \/ ObservePods PROVE RunnerInv'
<1>1. /\ CallSound(call) /\ call \in CallRow /\ call.phase \in {"job", "pods"}
      /\ UNCHANGED <<clusterVars, unanswered, arrivedLate, calls, drifts>>
  BY RunnerTypes DEF ObserveJob, ObservePods, CallSound
<1>2. ClusterOK'
  BY <1>1, RunnerTypes DEF ClusterOK, clusterVars
<1>3. CASE \E r \in AnswerSet \ {"cleaned"} : Answers(r)
  BY <1>2, <1>3, AnswersSound, RunnerTypes
<1>4. CASE \E a \in {"cleaned", "error"} : Goes([call EXCEPT !.phase = "pods", !.after = a])
  <2>1. PICK a \in {"cleaned", "error"} : Goes([call EXCEPT !.phase = "pods", !.after = a])
    BY <1>4
  <2> DEFINE c == [call EXCEPT !.phase = "pods", !.after = a]
  <2>2. call.found = "no"
    BY <1>1 DEF CallSound, CallRow
  <2>3. c \in CallRow /\ c.left = call.left /\ c.phase = "pods" /\ c.found = "no"
    BY <1>1, <2>2 DEF CallRow, Phases
  <2>4. Goes(c)
    BY <2>1
  <2> HIDE DEF c
  <2>5. CallSound(c)
    BY <1>1, <2>3 DEF CallSound, Suffix
  <2>6. CleanupSound' /\ CallSound(call') /\ answer' \in AnswerSet
    BY <1>1, <2>3, <2>4, <2>5, GoesPlain
  <2> QED BY <1>2, <2>6, RunnerTypes
<1>5. ObservePods => \E r \in AnswerSet \ {"cleaned"} : Answers(r)
  BY DEF ObservePods, AnswerSet
<1>6. ObserveJob => \/ \E r \in AnswerSet \ {"cleaned"} : Answers(r)
                    \/ \E a \in {"cleaned", "error"} : Goes([call EXCEPT !.phase = "pods", !.after = a])
  BY DEF ObserveJob, AnswerSet
<1> QED BY <1>3, <1>4, <1>5, <1>6

LEMMA RequestFailsKeeps == ASSUME RunnerInv, RequestFails PROVE RunnerInv'
<1>1. /\ CallSound(call) /\ ClusterOK /\ UNCHANGED <<unanswered, arrivedLate, calls, drifts>>
      /\ UNCHANGED clusterVars \/ (call.found = "current" /\ DeleteObject(NextKind))
      /\ Answers("pending") \/ Answers("error")
  BY RunnerTypes DEF RequestFails
<1>2. call.found = "current" => NextKind \in Kinds
  BY <1>1, StepOfCall DEF CallSound
<1>3. ClusterOK'
  BY <1>1, <1>2, DeleteTyped DEF ClusterOK, clusterVars
<1>4. CleanupSound' /\ CallSound(call') /\ answer' \in AnswerSet
  BY <1>1, AnswersSound DEF AnswerSet
<1> QED BY <1>3, <1>4, RunnerTypes

\* What the cluster does to the object of one kind: the call notices it, and what
\* the cleanup has seen gone comes back only late.
LEMMA ClusterStepKeeps ==
  ASSUME RunnerInv, ClusterOK', NEW k \in Kinds, ResourceChanged(k), arrivedLate \subseteq arrivedLate',
         \A j \in Kinds : j # k => resources'[j] = resources[j],
         resources'[k] \in {"own", "going"} => resources[k] \in {"own", "going"} \/ k \in arrivedLate'
  PROVE  RunnerInv'
<1>1. CallSound(call) /\ call \in CallRow /\ answer' = answer /\ answer \in AnswerSet
  BY RunnerTypes DEF CallSound, ResourceChanged
<1>2. /\ CallSound(call') /\ call'.phase = call.phase /\ call'.after = call.after /\ call'.left = call.left
      /\ call'.found = "current" => call.found = "current" /\ NextKind # k
  <2>1. CASE call.found # "no" /\ NextKind = k
    <3>1. call' = [call EXCEPT !.found = "stale"] /\ call.left # <<>> /\ call.phase = "delete"
      BY <1>1, <2>1 DEF ResourceChanged, CallSound
    <3>2. CallSound(call')
      BY <1>1, <3>1, StepOfCall
    <3> QED BY <1>1, <3>1, <3>2 DEF CallRow
  <2>2. CASE ~(call.found # "no" /\ NextKind = k)
    <3>1. call' = call
      BY <2>2 DEF ResourceChanged
    <3>2. call.found = "current" => NextKind # k
      BY <2>2
    <3> QED BY <1>1, <3>1, <3>2, Zenon
  <2> QED BY <2>1, <2>2
<1>3. \A j \in Kinds : Gone(j) => Gone(j)'
  BY DEF Gone
<1>4. Checked(call') = Checked(call) /\ Checked(call) \subseteq Kinds
  <2>1. Checked(call') = Checked(call)
    BY <1>2 DEF Checked
  <2>2. PICK s \in Orders, n \in 1..4 : call.left = SubSeq(s, n, 3)
    BY <1>1 DEF CallSound, Suffix
  <2>3. Len(call.left) = 4 - n
    BY <2>2, SuffixFacts
  <2>4. \A i \in 1..(3 - Len(call.left)) : i \in 1..3
    BY <2>3
  <2> QED BY <2>1, <2>4, OrdersTyped DEF Checked
<1>5. call'.found = "current" => resources'[NextKind]  \in {"own", "going"}
  <2>1. SUFFICES ASSUME call'.found = "current" PROVE resources'[NextKind] \in {"own", "going"}
    OBVIOUS
  <2>2. NextKind \in Kinds
    BY <1>1, <1>2, <2>1, StepOfCall DEF CallSound
  <2>3. resources[NextKind] \in {"own", "going"}
    BY <1>2, <2>1 DEF RunnerInv, CleanupSound
  <2> QED BY <1>2, <2>1, <2>2, <2>3
<1>6. CleanedAbsent'
  <2>1. answer = "cleaned" => \A j \in Kinds : Gone(j)
    BY DEF RunnerInv, CleanupSound, CleanedAbsent, Gone
  <2> QED BY <1>1, <1>3, <2>1 DEF CleanedAbsent, Gone
<1>7. call'.phase = "verify" /\ call'.after = "cleaned" => \A j \in Checked(call') : Gone(j)'
  BY <1>2, <1>3, <1>4 DEF RunnerInv, CleanupSound
<1>8. call'.phase # "idle" => answer' = "none"
  BY <1>1, <1>2 DEF RunnerInv, CleanupSound
<1>9. NextKind' = NextKind
  BY <1>2 DEF NextKind
<1>10. CleanupSound'
  BY <1>5, <1>6, <1>7, <1>8, <1>9 DEF CleanupSound, Checked, Gone
<1> QED BY <1>1, <1>2, <1>10, RunnerTypes

LEMMA ClusterKeeps ==
  ASSUME RunnerInv, RunnerEnds \/ JobCollected \/ \E k \in Kinds : LateApply(k) \/ ReplacedByOther(k)
  PROVE  RunnerInv'
<1>1. ClusterOK /\ "jobs" \in Kinds
  BY RunnerTypes DEF Kinds
<1>2. CASE RunnerEnds
  <2>1. ClusterOK' /\ resources' = resources
    BY <1>1, <1>2 DEF ClusterOK, RunnerEnds, NoRunner
  <2> QED BY <1>1, <1>2, <2>1, ClusterStepKeeps DEF RunnerEnds
<1>3. CASE JobCollected
  <2>1. ClusterOK' /\ resources'["jobs"] = "absent" /\ \A j \in Kinds : j # "jobs" => resources'[j] = resources[j]
    BY <1>1, <1>3 DEF ClusterOK, JobCollected, NoRunner
  <2> QED BY <1>1, <1>3, <2>1, ClusterStepKeeps DEF JobCollected
<1>4. ASSUME NEW k \in Kinds, LateApply(k) PROVE RunnerInv'
  <2>1. /\ Arrive(k) /\ unanswered' \subseteq unanswered /\ arrivedLate' = arrivedLate \cup {k}
        /\ ResourceChanged(k) /\ UNCHANGED <<calls, drifts>>
    BY <1>4 DEF LateApply
  <2>2. ClusterOK' /\ \A j \in Kinds : j # k => resources'[j] = resources[j]
    BY <1>1, <2>1, ArriveTyped DEF ClusterOK
  <2> QED BY <2>1, <2>2, ClusterStepKeeps
<1>5. ASSUME NEW k \in Kinds, ReplacedByOther(k) PROVE RunnerInv'
  <2>1. /\ ResourceChanged(k) /\ UNCHANGED <<unanswered, arrivedLate, calls>>
        /\ resources'[k] = "drifted" /\ \A j \in Kinds : j # k => resources'[j] = resources[j]
    BY <1>1, <1>5 DEF ReplacedByOther, ClusterOK
  <2>2. drifts' \in 0..MaxDrift
    BY <1>1, <1>5, RunnerBounds DEF ReplacedByOther, ClusterOK
  <2>3. ClusterOK'
    BY <1>1, <1>5, <2>1, <2>2 DEF ReplacedByOther, ClusterOK
  <2> QED BY <2>1, <2>3, ClusterStepKeeps
<1> QED BY <1>2, <1>3, <1>4, <1>5

LEMMA RunnerStepKeeps == ASSUME RunnerInv, RunnerStep PROVE RunnerInv'
BY Started, LookAtKeeps, ApplyKeeps, GetForDeleteKeeps, DeleteKeeps, VerifyAbsentKeeps,
   ObserveKeeps, RequestFailsKeeps, ClusterKeeps DEF RunnerStep

\* A deletion takes what was found, which is of the request.
LEMMA DeletesOwn ==
  ASSUME RunnerInv, call.found = "current", DeleteObject(NextKind), NEW k \in Kinds, resources[k] = "drifted"
  PROVE  resources'[k] = "drifted"
<1>1. NextKind \in Kinds /\ resources[NextKind] \in {"own", "going"} /\ ClusterOK
  BY StepOfCall, RunnerTypes DEF RunnerInv, CleanupSound, CallSound
<1> QED BY <1>1, DeleteTyped

\* No step of the executor or of the cluster takes an object of another request
\* away, but for a Job that has ended.
LEMMA OthersKeptByStep ==
  ASSUME RunnerInv, RunnerStep, NEW k \in Kinds, resources[k] = "drifted", k = "jobs" => jobState = "active"
  PROVE  resources'[k] \notin {"absent", "going"}
<1>1. ClusterOK /\ "jobs" \in Kinds
  BY RunnerTypes DEF Kinds
<1>2. CASE resources' = resources
  BY <1>2
<1>3. CASE call.found = "current" /\ DeleteObject(NextKind)
  BY <1>3, DeletesOwn
<1>4. ASSUME NEW j \in Kinds, Arrive(j) PROVE resources'[k] \notin {"absent", "going"}
  <2>1. resources'[k] \in {resources[k], "own"}
    BY <1>1, <1>4, ArriveTyped
  <2> QED BY <2>1
<1>5. CASE JobCollected
  BY <1>1, <1>5 DEF JobCollected, ClusterOK
<1>6. ASSUME NEW j \in Kinds, ReplacedByOther(j) PROVE resources'[k] \notin {"absent", "going"}
  BY <1>1, <1>6 DEF ReplacedByOther, ClusterOK
<1>7. CASE ApplyNext \/ ApplyFails
  <2>1. UNCHANGED resources \/ (call.left # <<>> /\ Arrive(NextKind))
    BY <1>7 DEF ApplyNext, ApplyFails, clusterVars
  <2>2. call.left # <<>> => NextKind \in Kinds
    BY StepOfCall, RunnerTypes
  <2> QED BY <1>2, <1>4, <2>1, <2>2
<1>8. CASE DeleteFound \/ RequestFails
  BY <1>2, <1>3, <1>8 DEF DeleteFound, RequestFails, clusterVars
<1>9. CASE \E j \in Kinds : LateApply(j)
  BY <1>4, <1>9 DEF LateApply
<1>10. CASE \/ StartAttempt \/ LookAt \/ CleanupAttempt \/ GetForDelete \/ DeleteConflicts \/ VerifyAbsent
            \/ ObserveAttempt \/ ObserveJob \/ ObservePods \/ RunnerEnds
  BY <1>2, <1>10
  DEF StartAttempt, LookAt, CleanupAttempt, GetForDelete, DeleteConflicts, VerifyAbsent,
      ObserveAttempt, ObserveJob, ObservePods, RunnerEnds, clusterVars
<1> QED BY <1>5, <1>6, <1>7, <1>8, <1>9, <1>10 DEF RunnerStep

LEMMA CompletionOwnedByStep ==
  ASSUME RunnerInv, RunnerStep, answer' = "completed", answer # "completed"
  PROVE  runner.owner = "own"
<1>1. ObservePods => runner.owner = "own"
  <2>1. runner.owner \in {"own", "drifted"}
    BY RunnerTypes DEF ClusterOK
  <2> QED BY <2>1 DEF ObservePods, Answers, VerifyOwned
<1>2. ASSUME NEW r, CleanupAnswers(r), r \in {"conflict", "pending", "cleaned"} PROVE FALSE
  BY <1>2 DEF CleanupAnswers, Answers, Goes
<1>3. ~(GetForDelete \/ DeleteConflicts \/ VerifyAbsent)
  BY <1>2 DEF GetForDelete, DeleteConflicts, VerifyAbsent, Goes
<1>4. ~(StartAttempt \/ LookAt \/ ApplyNext \/ ApplyFails \/ CleanupAttempt \/ DeleteFound)
  BY DEF StartAttempt, LookAt, ApplyNext, ApplyFails, CleanupAttempt, DeleteFound, Called, Answers, Goes
<1>5. ~(ObserveAttempt \/ ObserveJob \/ RequestFails)
  BY DEF ObserveAttempt, ObserveJob, RequestFails, Called, Answers, Goes
<1>6. ~(RunnerEnds \/ JobCollected \/ \E k \in Kinds : LateApply(k) \/ ReplacedByOther(k))
  BY DEF RunnerEnds, JobCollected, LateApply, ReplacedByOther, ResourceChanged
<1> QED BY <1>1, <1>3, <1>4, <1>5, <1>6 DEF RunnerStep

-----------------------------------------------------------------------------
(***************************************************************************)
(* What runs in it                                                         *)
(***************************************************************************)

\* A share of the points is all of them only for all of the cases.
LEMMA Share ==
  ASSUME NEW a \in Nat, NEW b \in Nat, NEW s \in Nat, a <= b, b # 0
  PROVE  /\ (a * s) \div b \in Nat /\ (a * s) \div b <= s
         /\ s # 0 => ((a * s) \div b = s <=> a = b)
<1> DEFINE x == a * s
           q == x \div b
<1>1. x \in Nat /\ q \in Nat /\ q * b <= x /\ x < q * b + b
  <2>1. x \in Nat
    OBVIOUS
  <2> HIDE DEF x
  <2>2. x = b * q + (x % b) /\ x % b \in 0..(b - 1) /\ q \in Int
    BY <2>1
  <2>3. q >= 0
    BY <2>1, <2>2
  <2> HIDE DEF q
  <2>4. b * q = q * b /\ q * b \in Int
    BY <2>2
  <2> QED BY <2>1, <2>2, <2>3, <2>4
<1>2. x <= b * s
  <2>1. b = a + (b - a) /\ b - a \in Nat
    OBVIOUS
  <2>2. b * s = a * s + (b - a) * s /\ (b - a) * s \in Nat
    BY <2>1
  <2> QED BY <2>2
<1>3. q <= s
  <2>1. SUFFICES ASSUME q >= s + 1 PROVE FALSE
    BY <1>1
  <2>2. q * b >= s * b + b
    <3> HIDE DEF q
    <3>1. q - (s + 1) \in Nat
      BY <1>1, <2>1
    <3>2. q * b = (q - (s + 1)) * b + (s * b + b) /\ (q - (s + 1)) * b \in Nat
      BY <1>1, <3>1
    <3> QED BY <3>2
  <2>3. s * b = b * s /\ s * b \in Nat
    OBVIOUS
  <2> HIDE DEF x, q
  <2> QED BY <1>1, <1>2, <2>2, <2>3
<1>4. a = b => q = s
  <2>1. SUFFICES ASSUME a = b, q # s PROVE FALSE
    OBVIOUS
  <2>2. q + 1 <= s /\ s - (q + 1) \in Nat
    BY <1>1, <1>3, <2>1
  <2>3. b * s = (s - (q + 1)) * b + (q * b + b) /\ (s - (q + 1)) * b \in Nat
    <3> HIDE DEF q
    <3> QED BY <1>1, <2>2
  <2>4. x = b * s
    BY <2>1
  <2> HIDE DEF x, q
  <2> QED BY <1>1, <2>3, <2>4
<1>5. s # 0 /\ q = s => a = b
  <2>1. SUFFICES ASSUME s # 0, q = s, a < b PROVE FALSE
    OBVIOUS
  <2>2. b * s = a * s + (b - a) * s /\ (b - a) * s > 0
    <3>1. b - a \in Nat /\ b - a > 0 /\ s > 0
      BY <2>1
    <3> QED BY <3>1
  <2>3. q * b = b * s
    BY <2>1
  <2> QED BY <1>1, <2>2, <2>3
<1> QED BY <1>1, <1>3, <1>4, <1>5

OjTyped ==
  /\ ojStep \in {"start", "source", "cases", "ended", "error"}
  /\ ojRequest \in OjRequests \cup {NoRequest}
  /\ ojCommand \in {"none", "file", "link"}
  /\ ojCases \in Seq(CaseStatuses)
  /\ ojReceipt \in [status : CaseStatuses \cup {"none", "compile_error", "evidence_invalid", "command_invalid"},
                    points : Nat, max : Nat]

\* A request is valid once it has been read, and cases run only for a test.
OjInv ==
  /\ OjTyped
  /\ ojStep \in {"source", "cases", "ended"} => ojRequest \in OjRequests /\ ValidRequest(ojRequest)
  /\ ojStep \in {"start", "source"} => ojCases = <<>>
  /\ ojStep = "cases" => ojRequest.phase = "test"
  /\ OjScored

LEMMA OjInitially == ASSUME WorkerInit PROVE OjInv
<1>1. ojCases \in Seq(CaseStatuses)
  BY EmptySeq DEF WorkerInit
<1> QED BY <1>1 DEF WorkerInit, OjInv, OjTyped, OjScored, NoReceipt

LEMMA RequestFacts ==
  ASSUME NEW r \in OjRequests, ValidRequest(r)
  PROVE  /\ r.phase \in {"compile", "test"} /\ r.cases \in Seq(Nat) /\ r.score \in Nat
         /\ r.phase = "compile" => r.score = 0
         /\ r.phase = "test" => r.score # 0 /\ r.cases # <<>>
         /\ \A i \in DOMAIN r.cases : r.cases[i] # 0
BY WorkerAssumption DEF ValidRequest

LEMMA OjFailsKeeps ==
  ASSUME OjInv, NEW status \in {"none", "command_invalid"}, OjFails(status), UNCHANGED ojCases,
         ojRequest' \in OjRequests \cup {NoRequest}, ojCommand' \in {"none", "file", "link"}
  PROVE  OjInv'
<1>1. ojStep' = "error" /\ ojReceipt' = [status |-> status, points |-> 0, max |-> 0]
  BY DEF OjFails, NoReceipt
<1> QED BY <1>1 DEF OjInv, OjTyped, OjScored

LEMMA ReadRequestKeeps == ASSUME OjInv, ReadRequest PROVE OjInv'
<1>1. CASE OjFails("command_invalid")
  BY <1>1, OjFailsKeeps DEF ReadRequest
<1>2. CASE ojStep' = "source" /\ ValidRequest(ojRequest') /\ UNCHANGED ojReceipt
  <2>1. OjTyped' /\ ojCases' = <<>> /\ ojRequest' \in OjRequests
    BY <1>2 DEF ReadRequest, OjInv, OjTyped
  <2>2. OjScored'
    BY <1>2 DEF OjInv, OjScored
  <2> QED BY <1>2, <2>1, <2>2 DEF OjInv, ValidRequest
<1> QED BY <1>1, <1>2 DEF ReadRequest

LEMMA CompileKeeps == ASSUME OjInv, CompileCpp17 PROVE OjInv'
<1>1. /\ ojStep = "source" /\ UNCHANGED <<ojRequest, ojCommand, ojCases>>
      /\ ojRequest \in OjRequests /\ ValidRequest(ojRequest) /\ ojCases = <<>>
  BY DEF CompileCpp17, OjInv
<1>2. PICK compiled \in BOOLEAN :
        IF ~compiled \/ ojRequest.phase = "compile"
        THEN PersistEvidence(compiled, <<>>, CompileEvidence(compiled))
        ELSE ojStep' = "cases" /\ UNCHANGED ojReceipt
  BY DEF CompileCpp17
<1>3. /\ ojRequest.phase \in {"compile", "test"} /\ ojRequest.score \in Nat
      /\ ojRequest.phase = "compile" => ojRequest.score = 0
      /\ ojRequest.phase = "test" => ojRequest.score # 0
  BY <1>1, RequestFacts
<1>4. CASE compiled /\ ojRequest.phase = "compile"
  <2> DEFINE e == [status |-> "accepted", points |-> 0, max |-> 0]
  <2>1. CompileEvidence(compiled) = e
    BY <1>4 DEF CompileEvidence
  <2>2. ValidEvidence(ojRequest, compiled, <<>>, e)
    BY <1>3, <1>4 DEF ValidEvidence
  <2>3. ojStep' = "ended" /\ ojReceipt' = e
    BY <1>2, <1>4, <2>1, <2>2 DEF PersistEvidence
  <2>4. OjTyped'
    BY <1>1, <2>3 DEF OjInv, OjTyped, CaseStatuses
  <2>5. OjScored'
    BY <1>1, <1>4, <2>3 DEF OjScored
  <2> QED BY <1>1, <2>3, <2>4, <2>5 DEF OjInv, ValidRequest
<1>5. CASE ~compiled
  <2> DEFINE e == [status |-> "compile_error", points |-> 0, max |-> ojRequest.score]
  <2>1. CompileEvidence(compiled) = e
    BY <1>5 DEF CompileEvidence
  <2>2. ValidEvidence(ojRequest, compiled, <<>>, e)
    BY <1>3, <1>5 DEF ValidEvidence
  <2>3. ojStep' = "ended" /\ ojReceipt' = e
    BY <1>2, <1>5, <2>1, <2>2 DEF PersistEvidence
  <2>4. OjTyped'
    BY <1>1, <1>3, <2>3 DEF OjInv, OjTyped
  <2>5. OjScored'
    BY <1>1, <1>3, <2>3 DEF OjScored
  <2> QED BY <1>1, <2>3, <2>4, <2>5 DEF OjInv, ValidRequest
<1>6. CASE compiled /\ ojRequest.phase # "compile"
  <2>1. ojStep' = "cases" /\ UNCHANGED ojReceipt /\ ojRequest'.phase = "test"
    BY <1>1, <1>2, <1>3, <1>6
  <2>2. OjTyped' /\ OjScored'
    BY <1>1, <2>1 DEF OjInv, OjTyped, OjScored
  <2> QED BY <1>1, <2>1, <2>2 DEF OjInv, ValidRequest
<1> QED BY <1>4, <1>5, <1>6

LEMMA RunCaseKeeps == ASSUME OjInv, RunCase PROVE OjInv'
<1>1. UNCHANGED <<ojStep, ojRequest, ojCommand, ojReceipt>> /\ ojStep = "cases"
  BY DEF RunCase
<1>2. PICK p \in OjProcesses : ojCases' = Append(ojCases, ClassifyCase(p, ojRequest.checker))
  BY DEF RunCase
<1>3. ClassifyCase(p, ojRequest.checker) \in CaseStatuses
  BY DEF ClassifyCase, CaseStatuses
<1>4. ojCases' \in Seq(CaseStatuses)
  BY <1>2, <1>3, AppendProperties DEF OjInv, OjTyped
<1> QED BY <1>1, <1>4 DEF OjInv, OjTyped, OjScored, ValidRequest

\* What is aggregated over the cases of a test that is valid.
LEMMA AggregateFacts ==
  ASSUME NEW r \in OjRequests, ValidRequest(r), r.phase = "test",
         NEW cases \in Seq(CaseStatuses), Len(cases) = Len(r.cases)
  PROVE  /\ Aggregate(r, cases) \in [status : CaseStatuses, points : Nat, max : Nat]
         /\ Aggregate(r, cases).max = r.score /\ Aggregate(r, cases).points <= r.score
         /\ Aggregate(r, cases).status = "accepted" <=> \A i \in DOMAIN cases : cases[i] = "accepted"
         /\ Aggregate(r, cases).points = r.score <=> \A i \in DOMAIN cases : cases[i] = "accepted"
<1> DEFINE n == Len(cases)
           D == 1..n
           P == {i \in DOMAIN cases : cases[i] = "accepted"}
           W == {i \in DOMAIN cases : cases[i] # "accepted"}
           A == SumFunctionOnSet(r.cases, P)
           B == SumFunctionOnSet(r.cases, D)
           st == IF \A i \in DOMAIN cases : cases[i] = "accepted" THEN "accepted" ELSE cases[Min(W)]
           pt == (A * r.score) \div B
<1>1. /\ r.cases \in Seq(Nat) /\ r.score \in Nat /\ r.score # 0 /\ r.cases # <<>>
      /\ \A i \in DOMAIN r.cases : r.cases[i] # 0
  BY RequestFacts
<1>2. n \in Nat /\ DOMAIN cases = D /\ DOMAIN r.cases = D /\ r.cases \in [D -> Nat]
  BY <1>1, LenProperties
<1>3. n # 0
  BY <1>1, EmptySeq
<1>4. IsFiniteSet(D) /\ P \in SUBSET D /\ {} \in SUBSET D /\ {} # D
  <2>1. 1 \in D
    BY <1>2, <1>3
  <2>2. IsFiniteSet(D)
    BY <1>2, FS_Interval
  <2>3. P \in SUBSET D
    BY <1>2
  <2> QED BY <2>1, <2>2, <2>3, Zenon
<1>5. /\ A \in Nat /\ B \in Nat /\ A <= B /\ (P # D => A < B)
      /\ B # 0
  <2>1. \A i \in D : r.cases[i] # 0
    BY <1>1, <1>2
  <2>2. A \in Nat /\ B \in Nat /\ A <= B /\ (P # D => A < B)
    <3> HIDE DEF D, P
    <3> QED BY <1>2, <1>4, <2>1, SumPart
  <2>3. SumFunctionOnSet(r.cases, {}) = 0
    BY SumEmpty
  <2>4. SumFunctionOnSet(r.cases, {}) < B
    <3> HIDE DEF D
    <3> QED BY <1>2, <1>4, <2>1, SumPart
  <2> QED BY <2>2, <2>3, <2>4
<1>6. pt \in Nat /\ pt <= r.score /\ (pt = r.score <=> A = B)
  <2> DEFINE s == r.score
  <2>1. s \in Nat /\ s # 0
    BY <1>1
  <2> HIDE DEF A, B, s
  <2>2. (A * s) \div B \in Nat /\ (A * s) \div B <= s /\ ((A * s) \div B = s <=> A = B)
    BY <1>5, <2>1, Share
  <2> QED BY <2>2 DEF s
<1>7. P = D <=> \A i \in DOMAIN cases : cases[i] = "accepted"
  BY <1>2
<1>8. pt = r.score <=> \A i \in DOMAIN cases : cases[i] = "accepted"
  <2>1. P = D => A = B
    OBVIOUS
  <2>2. P # D => A # B
    BY <1>5
  <2> QED BY <1>6, <1>7, <2>1, <2>2
<1>9. st \in CaseStatuses /\ (st = "accepted" <=> \A i \in DOMAIN cases : cases[i] = "accepted")
  <2>1. CASE \A i \in DOMAIN cases : cases[i] = "accepted"
    BY <2>1 DEF CaseStatuses
  <2>2. CASE ~\A i \in DOMAIN cases : cases[i] = "accepted"
    <3>1. W # {} /\ W \subseteq Nat
      BY <1>2, <2>2
    <3>2. \E w \in W : \A y \in W : w <= y
      <4> HIDE DEF W
      <4> QED BY <3>1, Least
    <3>3. Min(W) \in W
      <4> HIDE DEF W
      <4> QED BY <3>2 DEF Min
    <3>4. st = cases[Min(W)] /\ cases[Min(W)] # "accepted" /\ Min(W) \in 1..Len(cases)
      BY <1>2, <2>2, <3>3
    <3>5. cases[Min(W)] \in CaseStatuses
      <4> HIDE DEF W
      <4> QED BY <3>4, ElementOfSeq
    <3> QED BY <2>2, <3>4, <3>5
  <2> QED BY <2>1, <2>2
<1>10. Aggregate(r, cases) = [status |-> st, points |-> pt, max |-> r.score]
  BY <1>2 DEF Aggregate, CaseMaxPoints, SumFunction
<1> HIDE DEF st, pt
<1> QED BY <1>1, <1>6, <1>8, <1>9, <1>10

LEMMA CasesEndKeeps == ASSUME OjInv, CasesEnd PROVE OjInv'
<1> DEFINE e == Aggregate(ojRequest, ojCases)
<1>1. /\ ojStep = "cases" /\ Len(ojCases) = Len(ojRequest.cases) /\ UNCHANGED <<ojRequest, ojCommand, ojCases>>
      /\ ojRequest \in OjRequests /\ ValidRequest(ojRequest) /\ ojRequest.phase = "test"
      /\ ojCases \in Seq(CaseStatuses)
  BY DEF CasesEnd, OjInv, OjTyped
<1>2. /\ e \in [status : CaseStatuses, points : Nat, max : Nat]
      /\ e.max = ojRequest.score /\ e.points <= ojRequest.score
      /\ e.status = "accepted" <=> \A i \in DOMAIN ojCases : ojCases[i] = "accepted"
      /\ e.points = ojRequest.score <=> \A i \in DOMAIN ojCases : ojCases[i] = "accepted"
  BY <1>1, AggregateFacts
<1>3. PersistEvidence(TRUE, ojCases, e)
  BY DEF CasesEnd
<1>4. e = Aggregate(ojRequest, ojCases)
  OBVIOUS
<1> HIDE DEF e
<1>5. e.status \in CaseStatuses /\ e.status # "compile_error"
  BY <1>2 DEF CaseStatuses
<1>6. ValidEvidence(ojRequest, TRUE, ojCases, e)
  BY <1>1, <1>2, <1>4, <1>5 DEF ValidEvidence
<1>7. ojStep' = "ended" /\ ojReceipt' = e
  BY <1>3, <1>6 DEF PersistEvidence
<1>8. OjTyped'
  BY <1>1, <1>2, <1>7 DEF OjInv, OjTyped
<1>9. OjScored'
  BY <1>1, <1>2, <1>5, <1>7 DEF OjScored, CaseStatuses
<1> QED BY <1>1, <1>7, <1>8, <1>9 DEF OjInv, ValidRequest

LEMMA OjStepKeeps == ASSUME OjInv, OjStep PROVE OjInv'
<1>1. ASSUME OjWorkerFails PROVE OjInv'
  BY <1>1, OjFailsKeeps DEF OjWorkerFails, OjInv, OjTyped
<1> QED BY <1>1, ReadRequestKeeps, CompileKeeps, RunCaseKeeps, CasesEndKeeps DEF OjStep

ProbeTyped ==
  /\ probeStep \in {"start", "ended", "error"}
  /\ probeReceipt.status \in {"none", "succeeded", "assertions_failed", "identity_expired", "host_unreachable",
                              "host_key_mismatch", "timeout", "output_exceeded", "facts_malformed",
                              "infrastructure_error", "evidence_invalid"}

ProbeInv == ProbeTyped /\ (probeStep = "start" => probeReceipt = NoReceipt) /\ ProbeSound

Refusals == {"identity_expired", "host_unreachable", "host_key_mismatch", "timeout", "output_exceeded",
             "facts_malformed", "infrastructure_error"}

\* Facts are evaluated only when every check has been passed.
LEMMA Executed ==
  ASSUME NEW p \in ProbeProcesses
  PROVE  \/ ExecuteProbe(p) \in Refusals
         \/ /\ ExecuteProbe(p) = "evaluated"
            /\ p.host = "pinned" /\ p.success /\ ~p.exceeded
            /\ FactsBytes(p.document.facts) <= FactsMax
<1>1. ExtractFacts(p.document) \in {"facts"} \cup Refusals
  BY DEF ExtractFacts, Refusals
<1>2. FactsBytes(p.document.facts) \in Nat /\ FactsMax \in Nat
  <2>1. IsFiniteSet(DOMAIN p.document.facts)
    BY WorkerAssumption DEF ProbeProcesses
  <2> QED BY <2>1, FS_CardinalityType, WorkerAssumption DEF FactsBytes
<1>3. p.identity \in {"valid", "expired", "unreadable"} /\ p.host \in {"pinned", "other", "unreachable"}
  BY DEF ProbeProcesses
<1>4. CASE p.identity = "valid" /\ p.host = "pinned"
  <2>1. ExecuteProbe(p) = IF p.timedOut THEN "timeout"
                          ELSE IF p.exceeded THEN "output_exceeded"
                          ELSE IF ExtractFacts(p.document) # "facts" THEN ExtractFacts(p.document)
                          ELSE IF ~p.success THEN "infrastructure_error"
                          ELSE IF FactsBytes(p.document.facts) > FactsMax THEN "facts_malformed"
                          ELSE "evaluated"
    BY <1>4 DEF ExecuteProbe
  <2>2. ~(FactsBytes(p.document.facts) > FactsMax) => FactsBytes(p.document.facts) <= FactsMax
    BY <1>2
  <2> HIDE DEF FactsBytes
  <2> QED BY <1>1, <1>4, <2>1, <2>2 DEF Refusals
<1>5. CASE ~(p.identity = "valid" /\ p.host = "pinned")
  BY <1>3, <1>5 DEF ExecuteProbe, Refusals
<1> QED BY <1>4, <1>5

LEMMA NothingPassed == DOMAIN NoFacts = {} /\ Passed(EvaluateAssertions(NoFacts)) = {} /\ FactsBytes(NoFacts) = 2
<1>1. DOMAIN NoFacts = {}
  BY DEF NoFacts
<1>2. \A f \in DOMAIN Assertions : EvaluateAssertions(NoFacts)[f] = "unknown"
  BY <1>1 DEF EvaluateAssertions
<1>3. Passed(EvaluateAssertions(NoFacts)) = {}
  BY <1>2 DEF Passed, EvaluateAssertions
<1>4. FactsBytes(NoFacts) = 2
  BY <1>1, FS_EmptySet DEF FactsBytes
<1> QED BY <1>1, <1>3, <1>4

LEMMA RunProbeKeeps == ASSUME ProbeInv, RunProbe PROVE ProbeInv'
<1> DEFINE p == probeProcess'
           x == ExecuteProbe(p)
           e == BuildEvidence(p, x)
<1>1. /\ p \in ProbeProcesses
      /\ IF ValidProbeEvidence(e.status, e.facts, e.results)
         THEN probeStep' = "ended" /\ probeReceipt' = ReceiptFor(e)
         ELSE probeStep' = "error" /\ probeReceipt' = [NoReceipt EXCEPT !.status = "evidence_invalid"]
  BY DEF RunProbe
<1>2. x \in Refusals \/ (x = "evaluated" /\ p.host = "pinned" /\ p.success /\ ~p.exceeded
                         /\ FactsBytes(p.document.facts) <= FactsMax)
  BY <1>1, Executed
<1>3. CASE x = "evaluated"
  <2> DEFINE facts == p.document.facts
             results == EvaluateAssertions(facts)
  <2>1. e.status = ForAssertions(results) /\ e.facts = facts /\ e.results = results
    BY <1>3 DEF BuildEvidence
  <2>2. ForAssertions(results) \in {"succeeded", "assertions_failed"}
    BY DEF ForAssertions
  <2>3. FactsBytes(facts) <= FactsMax
    BY <1>2, <1>3 DEF Refusals
  <2>4. p.host = "pinned" /\ p.success /\ ~p.exceeded
    BY <1>2, <1>3 DEF Refusals
  <2> HIDE DEF x, p, e
  <2>5. ValidProbeEvidence(e.status, e.facts, e.results)
    BY <2>1, <2>2, <2>3 DEF ValidProbeEvidence
  <2>6. probeStep' = "ended" /\ probeReceipt'.status = ForAssertions(results)
    BY <1>1, <2>1, <2>5 DEF ReceiptFor
  <2>7. ForAssertions(results) = "succeeded" =>
          \A f \in DOMAIN Assertions : f \in DOMAIN facts /\ facts[f] = Assertions[f]
    <3>1. SUFFICES ASSUME ForAssertions(results) = "succeeded", NEW f \in DOMAIN Assertions
                   PROVE  f \in DOMAIN facts /\ facts[f] = Assertions[f]
      OBVIOUS
    <3>2. DOMAIN results = DOMAIN Assertions
      BY DEF EvaluateAssertions
    <3>3. Passed(results) = DOMAIN results
      BY <3>1 DEF ForAssertions
    <3>4. results[f] = "passed"
      BY <3>2, <3>3 DEF Passed
    <3> QED BY <3>4 DEF EvaluateAssertions
  <2>8. ProbeSound'
    BY <2>2, <2>4, <2>6, <2>7 DEF ProbeSound, p
  <2> QED BY <2>2, <2>6, <2>8 DEF ProbeInv, ProbeTyped
<1>4. CASE x \in Refusals
  <2>1. x # "evaluated" /\ x \notin {"succeeded", "assertions_failed"}
    BY <1>4 DEF Refusals
  <2>2. e.status = x /\ e.facts = NoFacts /\ e.results = EvaluateAssertions(NoFacts)
    BY <2>1 DEF BuildEvidence
  <2> HIDE DEF x, p, e
  <2>3. FactsMax > 1 => ValidProbeEvidence(e.status, e.facts, e.results)
    BY <2>1, <2>2, NothingPassed, WorkerAssumption DEF ValidProbeEvidence
  <2>4. CASE ValidProbeEvidence(e.status, e.facts, e.results)
    <3>1. probeStep' = "ended" /\ probeReceipt' = ReceiptFor(e)
      BY <1>1, <2>4
    <3>2. probeReceipt'.status = x /\ probeReceipt'.points = Cardinality({})
      BY <2>2, <3>1, NothingPassed DEF ReceiptFor
    <3>3. ProbeSound' /\ ProbeTyped'
      BY <1>4, <3>1, <3>2, FS_EmptySet DEF ProbeSound, ProbeTyped, Refusals
    <3> QED BY <3>1, <3>3 DEF ProbeInv
  <2>5. CASE ~ValidProbeEvidence(e.status, e.facts, e.results)
    <3>1. probeStep' = "error" /\ probeReceipt'.status = "evidence_invalid" /\ probeReceipt'.points = 0
      BY <1>1, <2>5 DEF NoReceipt
    <3> QED BY <2>3, <2>5, <3>1 DEF ProbeInv, ProbeSound, ProbeTyped
  <2> QED BY <2>4, <2>5
<1> QED BY <1>2, <1>3, <1>4

LEMMA ProbeInitially == ASSUME WorkerInit PROVE ProbeInv
BY DEF WorkerInit, ProbeInv, ProbeSound, ProbeTyped, NoReceipt

LEMMA ProbeStepKeeps == ASSUME ProbeInv, ProbeStep PROVE ProbeInv'
<1>1. ASSUME ProbeFails PROVE ProbeInv'
  BY <1>1 DEF ProbeFails, ProbeInv, ProbeSound, ProbeTyped
<1> QED BY <1>1, RunProbeKeeps DEF ProbeStep

-----------------------------------------------------------------------------
(***************************************************************************)
(* Rounds: what Kahn's algorithm, the skipping of steps and their          *)
(* restoring have in common.  A set grows from round to round, and as many *)
(* rounds as there are steps are enough.                                   *)
(***************************************************************************)

IsRounds(f, F, b, n) == f[0] = b /\ \A m \in 1..n : f[m] = F[f[m - 1]]

LEMMA RoundsExist ==
  ASSUME NEW X, NEW F \in [X -> X], NEW b \in X, NEW N \in Nat
  PROVE  \E f \in [0..N -> X] : IsRounds(f, F, b, N)
<1> DEFINE Ok(n) == \E f \in [0..n -> X] : IsRounds(f, F, b, n)
           Bad == {n \in 0..N : ~Ok(n)}
<1>1. SUFFICES ASSUME Bad # {} PROVE FALSE
  OBVIOUS
<1>2. PICK n \in Bad : \A m \in Bad : n <= m
  <2>1. Bad \subseteq Nat
    OBVIOUS
  <2> HIDE DEF Bad
  <2> QED BY <1>1, <2>1, Least
<1>3. n \in 0..N /\ ~Ok(n)
  OBVIOUS
<1>4. n # 0
  <2> DEFINE f == [m \in 0..0 |-> b]
  <2>1. f \in [0..0 -> X] /\ f[0] = b /\ \A m \in 1..0 : FALSE
    OBVIOUS
  <2>2. IsRounds(f, F, b, 0)
    BY <2>1 DEF IsRounds
  <2>3. Ok(0)
    BY <2>1, <2>2
  <2> QED BY <1>3, <2>3
<1>5. n - 1 \notin Bad /\ n - 1 \in 0..N
  <2> HIDE DEF Bad
  <2> QED BY <1>2, <1>3, <1>4
<1>6. PICK f \in [0..(n - 1) -> X] : IsRounds(f, F, b, n - 1)
  BY <1>5
<1> DEFINE g == [m \in 0..n |-> IF m = n THEN F[f[n - 1]] ELSE f[m]]
<1>7. n - 1 \in 0..(n - 1) /\ \A m \in 0..n : m # n => m \in 0..(n - 1)
  BY <1>3, <1>4
<1>8. g \in [0..n -> X]
  BY <1>7
<1>9. IsRounds(g, F, b, n)
  <2>1. 0 \in 0..n /\ 0 # n /\ g[0] = b
    BY <1>3, <1>4, <1>6 DEF IsRounds
  <2>2. ASSUME NEW m \in 1..n PROVE g[m] = F[g[m - 1]]
    <3>1. m \in 0..n /\ m - 1 \in 0..n /\ m - 1 # n
      BY <1>3
    <3>2. g[m - 1] = f[m - 1]
      BY <3>1
    <3>3. CASE m = n
      BY <3>1, <3>2, <3>3
    <3>4. CASE m # n
      <4>1. m \in 1..(n - 1)
        BY <1>3, <3>4
      <4>2. f[m] = F[f[m - 1]]
        BY <1>6, <4>1 DEF IsRounds
      <4> QED BY <3>1, <3>2, <3>4, <4>2
    <3> QED BY <3>3, <3>4
  <2> HIDE DEF g
  <2> QED BY <2>1, <2>2 DEF IsRounds
<1>10. Ok(n)
  <2> HIDE DEF g
  <2> QED BY <1>8, <1>9
<1> QED BY <1>3, <1>10

\* Once nothing is added, nothing ever is; and something is added to at most as
\* many sets as there are elements.
Growing(f, F, b, N, D) ==
  /\ N \in Nat /\ IsFiniteSet(D) /\ Cardinality(D) = N
  /\ F \in [SUBSET D -> SUBSET D] /\ \A S \in SUBSET D : S \subseteq F[S]
  /\ f \in [0..N -> SUBSET D] /\ b # {} /\ IsRounds(f, F, b, N)

LEMMA RoundsClosed ==
  ASSUME NEW f, NEW F, NEW b, NEW N, NEW D, Growing(f, F, b, N, D)
  PROVE  F[f[N]] = f[N]
<1> USE DEF Growing
<1> DEFINE Stable(n) == F[f[n]] = f[n]
           Bad == {n \in 0..N : ~(Stable(n) \/ Cardinality(f[n]) >= n + 1)}
<1>1. \A n \in 0..N : f[n] \in SUBSET D /\ IsFiniteSet(f[n]) /\ Cardinality(f[n]) \in Nat /\ Cardinality(f[n]) <= N
  BY FS_Subset, FS_CardinalityType
<1>2. Bad = {}
  <2>1. SUFFICES ASSUME Bad # {} PROVE FALSE
    OBVIOUS
  <2>2. PICK n \in Bad : \A m \in Bad : n <= m
    <3>1. Bad \subseteq Nat
      OBVIOUS
    <3> HIDE DEF Bad
    <3> QED BY <2>1, <3>1, Least
  <2>3. n \in 0..N /\ ~Stable(n) /\ ~(Cardinality(f[n]) >= n + 1)
    OBVIOUS
  <2>4. n # 0
    <3>1. f[0] # {} /\ 0 \in 0..N
      BY DEF IsRounds
    <3>2. Cardinality(f[0]) # 0
      BY <1>1, <3>1, FS_EmptySet
    <3>3. Cardinality(f[0]) >= 0 + 1
      BY <1>1, <3>1, <3>2
    <3> QED BY <2>3, <3>3
  <2>5. n - 1 \in 0..N /\ n - 1 \notin Bad /\ n \in 1..N
    <3> HIDE DEF Bad
    <3> QED BY <2>2, <2>3, <2>4
  <2>6. Stable(n - 1) \/ Cardinality(f[n - 1]) >= n
    <3>1. (n - 1) + 1 = n
      BY <2>3
    <3> QED BY <2>5, <3>1
  <2>7. f[n] = F[f[n - 1]]
    BY <2>5 DEF IsRounds
  <2>8. ~Stable(n - 1)
    <3> SUFFICES ASSUME Stable(n - 1) PROVE FALSE
      OBVIOUS
    <3>1. f[n] = f[n - 1]
      BY <2>7
    <3>2. Stable(n)
      BY <2>7, <3>1
    <3> QED BY <2>3, <3>2
  <2>9. f[n - 1] \subseteq f[n] /\ f[n - 1] # f[n]
    BY <1>1, <2>5, <2>7, <2>8
  <2>10. Cardinality(f[n - 1]) <= Cardinality(f[n]) /\ Cardinality(f[n]) # Cardinality(f[n - 1])
    BY <1>1, <2>3, <2>9, FS_Subset
  <2>11. Cardinality(f[n]) >= n + 1
    <3> DEFINE x == Cardinality(f[n - 1])
               y == Cardinality(f[n])
    <3>1. x \in Nat /\ y \in Nat /\ x >= n /\ x <= y /\ y # x
      BY <1>1, <2>3, <2>5, <2>6, <2>8, <2>10
    <3> HIDE DEF x, y
    <3>2. y >= n + 1
      BY <2>3, <3>1
    <3> QED BY <3>2 DEF y
  <2> QED BY <2>3, <2>11
<1>3. N \in 0..N /\ N \notin Bad
  BY <1>2
<1>4. Stable(N) \/ Cardinality(f[N]) >= N + 1
  BY <1>3
<1> QED BY <1>1, <1>3, <1>4

\* Kahn's algorithm
IsVisited(plan, h) ==
  h = [n \in 0..Len(plan) |->
         IF n = 0 THEN {} ELSE h[n - 1] \cup {i \in 1..Len(plan) : plan[i].deps \subseteq h[n - 1]}]

LEMMA VisitedChosen ==
  ASSUME NEW plan
  PROVE  Visited(plan) = (CHOOSE h : IsVisited(plan, h))[Len(plan)]
BY DEF Visited, IsVisited

LEMMA VisitedRounds ==
  ASSUME NEW plan, Len(plan) \in Nat
  PROVE  \E v : /\ Visited(plan) = v[Len(plan)] /\ v[0] = {}
                /\ \A n \in 1..Len(plan) :
                     v[n] = v[n - 1] \cup {i \in 1..Len(plan) : plan[i].deps \subseteq v[n - 1]}
<1> DEFINE N == Len(plan)
           D == 1..N
           F == [S \in SUBSET D |-> S \cup {i \in D : plan[i].deps \subseteq S}]
           v == CHOOSE h : IsVisited(plan, h)
<1>1. F \in [SUBSET D -> SUBSET D] /\ {} \in SUBSET D
  OBVIOUS
<1>2. PICK f \in [0..N -> SUBSET D] : IsRounds(f, F, {}, N)
  <2> HIDE DEF F, D
  <2> QED BY <1>1, RoundsExist
<1>3. IsVisited(plan, f)
  <2>1. \A n \in 0..N : f[n] = IF n = 0 THEN {} ELSE f[n - 1] \cup {i \in D : plan[i].deps \subseteq f[n - 1]}
    <3> SUFFICES ASSUME NEW n \in 0..N
                 PROVE f[n] = IF n = 0 THEN {} ELSE f[n - 1] \cup {i \in D : plan[i].deps \subseteq f[n - 1]}
      OBVIOUS
    <3>1. CASE n = 0
      BY <1>2, <3>1 DEF IsRounds
    <3>2. CASE n # 0
      <4>1. n \in 1..N /\ n - 1 \in 0..N
        BY <3>2
      <4>2. f[n] = F[f[n - 1]] /\ f[n - 1] \in SUBSET D
        BY <1>2, <4>1 DEF IsRounds
      <4> QED BY <3>2, <4>2
    <3> QED BY <3>1, <3>2
  <2>2. f = [n \in 0..N |-> f[n]]
    OBVIOUS
  <2> QED BY <2>1, <2>2 DEF IsVisited
<1>4. IsVisited(plan, v)
  BY <1>3
<1>5. Visited(plan) = v[N]
  BY VisitedChosen
<1> HIDE DEF v
<1>6. v[0] = {} /\ \A n \in 1..N : v[n] = v[n - 1] \cup {i \in 1..Len(plan) : plan[i].deps \subseteq v[n - 1]}
  <2>1. \A n \in 0..N : v[n] = IF n = 0 THEN {} ELSE v[n - 1] \cup {i \in 1..Len(plan) : plan[i].deps \subseteq v[n - 1]}
    BY <1>4 DEF IsVisited
  <2>2. 0 \in 0..N /\ \A n \in 1..N : n \in 0..N /\ n # 0
    OBVIOUS
  <2> QED BY <2>1, <2>2
<1> QED BY <1>5, <1>6

\* Of the steps of a plan that is valid, any set has one that depends on none of
\* the others: no steps wait for each other.
NoCycle(plan) ==
  \A U \in SUBSET (1..Len(plan)) : U # {} => \E i \in U : plan[i].deps \cap U = {}

LEMMA ValidNoCycle ==
  ASSUME NEW plan, Len(plan) \in Nat, ValidateDependencies(plan)
  PROVE  NoCycle(plan)
<1> SUFFICES ASSUME NEW U \in SUBSET (1..Len(plan)), U # {}
             PROVE  \E i \in U : plan[i].deps \cap U = {}
  BY DEF NoCycle
<1>1. PICK v : /\ Visited(plan) = v[Len(plan)] /\ v[0] = {}
               /\ \A n \in 1..Len(plan) :
                    v[n] = v[n - 1] \cup {i \in 1..Len(plan) : plan[i].deps \subseteq v[n - 1]}
  BY VisitedRounds
<1>2. v[Len(plan)] = 1..Len(plan)
  BY <1>1 DEF ValidateDependencies
<1> DEFINE T == {n \in 0..Len(plan) : v[n] \cap U # {}}
<1>3. Len(plan) \in T /\ T \subseteq Nat
  <2>1. Len(plan) \in 0..Len(plan) /\ 0..Len(plan) \subseteq Nat
    OBVIOUS
  <2>2. v[Len(plan)] \cap U # {}
    <3> DEFINE D == 1..Len(plan)
    <3>1. v[Len(plan)] = D /\ U \subseteq D
      BY <1>2
    <3> HIDE DEF D
    <3> QED BY <3>1, Zenon
  <2> QED BY <2>1, <2>2
<1>4. PICK n \in T : \A m \in T : n <= m
  <2> HIDE DEF T
  <2> QED BY <1>3, Least
<1>5. n \in 1..Len(plan) /\ n - 1 \notin T
  <2>1. n \in 0..Len(plan) /\ n # 0
    BY <1>1
  <2>2. n - 1 \notin T
    <3> HIDE DEF T
    <3> QED BY <1>4, <2>1
  <2> QED BY <2>1, <2>2
<1>6. v[n - 1] \cap U = {} /\ v[n] \cap U # {}
  BY <1>5
<1>7. PICK i : i \in v[n] /\ i \in U
  BY <1>6
<1>8. plan[i].deps \subseteq v[n - 1]
  BY <1>1, <1>5, <1>6, <1>7
<1> QED BY <1>6, <1>7, <1>8

\* The two closures over the steps.
Skippable(s, i) ==
  s[i].state \in {"pending", "retryable"} \/ (s[i].state = "skipped" /\ s[i].diagnostic = "dependency")

IsBlocked(s, f, h) ==
  h = [n \in 0..Len(s) |->
         IF n = 0 THEN {f}
         ELSE h[n - 1] \cup {i \in DOMAIN s : Skippable(s, i) /\ Deps(i) \cap h[n - 1] # {}}]

LEMMA BlockedChosen ==
  ASSUME NEW s, NEW f
  PROVE  Blocked(s, f) = (CHOOSE h : IsBlocked(s, f, h))[Len(s)]
BY DEF Blocked, IsBlocked, Skippable

IsRestored(s, r, h) ==
  h = [n \in 0..Len(s) |->
         IF n = 0 THEN {r}
         ELSE h[n - 1] \cup {i \in DOMAIN s : /\ s[i].state = "skipped" /\ s[i].diagnostic = "dependency"
                                             /\ Deps(i) \cap h[n - 1] # {}}]

LEMMA RestoredChosen ==
  ASSUME NEW s, NEW r
  PROVE  Restored(s, r) = (CHOOSE h : IsRestored(s, r, h))[Len(s)] \ {r}
BY DEF Restored, IsRestored

\* What spreads from step f through the candidates C, along the dependencies.
IsSpread(h, C, f, N) ==
  h[0] = {f} /\ \A n \in 1..N : h[n] = h[n - 1] \cup {i \in C : Deps(i) \cap h[n - 1] # {}}

LEMMA SpreadExists ==
  ASSUME NEW N \in Nat, NEW C \in SUBSET (1..N), NEW f \in 1..N
  PROVE  \E h \in [0..N -> SUBSET (1..N)] : IsSpread(h, C, f, N)
<1> DEFINE D == 1..N
           F == [S \in SUBSET D |-> S \cup {i \in C : Deps(i) \cap S # {}}]
<1>1. F \in [SUBSET D -> SUBSET D] /\ {f} \in SUBSET D
  OBVIOUS
<1>2. PICK h \in [0..N -> SUBSET D] : IsRounds(h, F, {f}, N)
  <2> HIDE DEF F, D
  <2> QED BY <1>1, RoundsExist
<1>3. ASSUME NEW n \in 1..N PROVE h[n] = h[n - 1] \cup {i \in C : Deps(i) \cap h[n - 1] # {}}
  <2>1. n - 1 \in 0..N
    OBVIOUS
  <2>2. h[n] = F[h[n - 1]] /\ h[n - 1] \in SUBSET D
    BY <1>2, <2>1 DEF IsRounds
  <2> QED BY <2>2
<1>4. IsSpread(h, C, f, N)
  BY <1>2, <1>3 DEF IsSpread, IsRounds
<1> QED BY <1>4

LEMMA SpreadClosed ==
  ASSUME NEW N \in Nat, NEW C \in SUBSET (1..N), NEW f \in 1..N, NEW h, IsSpread(h, C, f, N)
  PROVE  /\ f \in h[N] /\ h[N] \subseteq C \cup {f}
         /\ \A i \in h[N] : i # f => Deps(i) \cap h[N] # {}
         /\ \A i \in C : Deps(i) \cap h[N] # {} => i \in h[N]
<1> DEFINE D == 1..N
           F == [S \in SUBSET D |-> S \cup {i \in C : Deps(i) \cap S # {}}]
           Ok(n) == /\ f \in h[n] /\ h[n] \subseteq C \cup {f}
                    /\ \A i \in h[n] : i # f => Deps(i) \cap h[n] # {}
           Bad == {n \in 0..N : ~Ok(n)}
<1>1. Bad = {}
  <2>1. SUFFICES ASSUME Bad # {} PROVE FALSE
    OBVIOUS
  <2>2. PICK n \in Bad : \A m \in Bad : n <= m
    <3>1. Bad \subseteq Nat
      OBVIOUS
    <3> HIDE DEF Bad
    <3> QED BY <2>1, <3>1, Least
  <2>3. n \in 0..N /\ ~Ok(n)
    OBVIOUS
  <2>4. n # 0
    <3>1. Ok(0)
      BY DEF IsSpread
    <3> QED BY <2>3, <3>1
  <2>5. n - 1 \in 0..N /\ n - 1 \notin Bad /\ n \in 1..N
    <3> HIDE DEF Bad
    <3> QED BY <2>2, <2>3, <2>4
  <2>6. Ok(n - 1)
    BY <2>5
  <2>7. h[n] = h[n - 1] \cup {i \in C : Deps(i) \cap h[n - 1] # {}}
    BY <2>5 DEF IsSpread
  <2>8. Ok(n)
    <3>1. f \in h[n] /\ h[n] \subseteq C \cup {f}
      BY <2>6, <2>7
    <3>2. ASSUME NEW i \in h[n], i # f PROVE Deps(i) \cap h[n] # {}
      <4>1. Deps(i) \cap h[n - 1] # {}
        BY <2>6, <2>7, <3>2
      <4>2. h[n - 1] \subseteq h[n]
        BY <2>7
      <4> QED BY <4>1, <4>2
    <3> QED BY <3>1, <3>2
  <2> QED BY <2>3, <2>8
<1>2. \A n \in 0..N : Ok(n)
  BY <1>1
<1>3. Ok(N)
  BY <1>2
<1> DEFINE k == [n \in 0..N |-> h[n]]
<1>4. F \in [SUBSET D -> SUBSET D] /\ \A S \in SUBSET D : S \subseteq F[S]
  OBVIOUS
<1>5. \A n \in 0..N : h[n] \in SUBSET D
  BY <1>2
<1>6. k \in [0..N -> SUBSET D]
  BY <1>5
<1>7. IsRounds(k, F, {f}, N)
  <2>1. k[0] = {f} /\ 0 \in 0..N
    BY DEF IsSpread
  <2>2. ASSUME NEW n \in 1..N PROVE k[n] = F[k[n - 1]]
    <3>1. n \in 0..N /\ n - 1 \in 0..N
      OBVIOUS
    <3>2. k[n] = h[n] /\ k[n - 1] = h[n - 1]
      BY <3>1
    <3>3. F[h[n - 1]] = h[n - 1] \cup {i \in C : Deps(i) \cap h[n - 1] # {}}
      BY <1>5, <3>1
    <3> HIDE DEF k, F
    <3> QED BY <3>2, <3>3 DEF IsSpread
  <2> HIDE DEF k, F
  <2> QED BY <2>1, <2>2 DEF IsRounds
<1>8. IsFiniteSet(D) /\ Cardinality(D) = N
  BY FS_Interval
<1>9. F[k[N]] = k[N]
  <2> DEFINE b == {f}
  <2>1. b # {} /\ IsRounds(k, F, b, N)
    BY <1>7
  <2>2. Growing(k, F, b, N, D)
    BY <1>4, <1>6, <1>8, <2>1, Zenon DEF Growing
  <2> HIDE DEF F, D, k, b, Ok, Bad
  <2> QED BY <2>2, RoundsClosed
<1>10. k[N] = h[N] /\ h[N] \in SUBSET D
  BY <1>5
<1>11. h[N] \cup {i \in C : Deps(i) \cap h[N] # {}} = h[N]
  BY <1>9, <1>10
<1> QED BY <1>3, <1>11

LEMMA BlockedFacts ==
  ASSUME NEW s, Len(s) \in Nat, DOMAIN s = 1..Len(s), NEW f \in 1..Len(s)
  PROVE  /\ \A i \in Blocked(s, f) : i \in DOMAIN s
         /\ \A i \in Blocked(s, f) : i # f => Skippable(s, i) /\ Deps(i) \cap Blocked(s, f) # {}
<1> DEFINE N == Len(s)
           C == {i \in 1..N : Skippable(s, i)}
           h == CHOOSE k : IsBlocked(s, f, k)
<1>1. C \in SUBSET (1..N)
  OBVIOUS
<1>2. PICK g \in [0..N -> SUBSET (1..N)] : IsSpread(g, C, f, N)
  <2> HIDE DEF C
  <2> QED BY <1>1, SpreadExists
<1>3. IsBlocked(s, f, g)
  <2>1. \A n \in 0..N : g[n] = IF n = 0 THEN {f}
                               ELSE g[n - 1] \cup {i \in DOMAIN s : Skippable(s, i) /\ Deps(i) \cap g[n - 1] # {}}
    <3> SUFFICES ASSUME NEW n \in 0..N
                 PROVE  g[n] = IF n = 0 THEN {f}
                               ELSE g[n - 1] \cup {i \in DOMAIN s : Skippable(s, i) /\ Deps(i) \cap g[n - 1] # {}}
      OBVIOUS
    <3>1. CASE n = 0
      BY <1>2, <3>1 DEF IsSpread
    <3>2. CASE n # 0
      <4>1. n \in 1..N
        BY <3>2
      <4>2. g[n] = g[n - 1] \cup {i \in C : Deps(i) \cap g[n - 1] # {}}
        BY <1>2, <4>1 DEF IsSpread
      <4> QED BY <3>2, <4>2
    <3> QED BY <3>1, <3>2
  <2>2. g = [n \in 0..N |-> g[n]]
    OBVIOUS
  <2> QED BY <2>1, <2>2 DEF IsBlocked
<1>4. IsBlocked(s, f, h)
  BY <1>3
<1>5. Blocked(s, f) = h[N]
  BY BlockedChosen
<1> HIDE DEF h
<1>6. IsSpread(h, C, f, N)
  <2>1. \A n \in 0..N : h[n] = IF n = 0 THEN {f}
                               ELSE h[n - 1] \cup {i \in DOMAIN s : Skippable(s, i) /\ Deps(i) \cap h[n - 1] # {}}
    BY <1>4 DEF IsBlocked
  <2>2. 0 \in 0..N /\ \A n \in 1..N : n \in 0..N /\ n # 0
    OBVIOUS
  <2>3. ASSUME NEW n \in 1..N PROVE h[n] = h[n - 1] \cup {i \in C : Deps(i) \cap h[n - 1] # {}}
    <3> DEFINE X == h[n - 1]
    <3>1. h[n] = X \cup {i \in DOMAIN s : Skippable(s, i) /\ Deps(i) \cap X # {}}
      BY <2>1, <2>2
    <3> HIDE DEF X
    <3>2. {i \in DOMAIN s : Skippable(s, i) /\ Deps(i) \cap X # {}} = {i \in C : Deps(i) \cap X # {}}
      OBVIOUS
    <3>3. h[n] = X \cup {i \in C : Deps(i) \cap X # {}}
      BY <3>1, <3>2
    <3> QED BY <3>3 DEF X
  <2> HIDE DEF C
  <2> QED BY <2>1, <2>2, <2>3 DEF IsSpread
<1>7. /\ h[N] \subseteq C \cup {f}
      /\ \A i \in h[N] : i # f => Deps(i) \cap h[N] # {}
  <2> HIDE DEF C
  <2> QED BY <1>1, <1>6, SpreadClosed
<1> QED BY <1>5, <1>7

LEMMA RestoredFacts ==
  ASSUME NEW s, Len(s) \in Nat, DOMAIN s = 1..Len(s), NEW f \in 1..Len(s)
  PROVE  /\ \A i \in Restored(s, f) :
              i \in DOMAIN s /\ i # f /\ s[i].state = "skipped" /\ s[i].diagnostic = "dependency"
         /\ \A i \in DOMAIN s :
              /\ s[i].state = "skipped" /\ s[i].diagnostic = "dependency"
              /\ Deps(i) \cap (Restored(s, f) \cup {f}) # {}
              /\ i # f
              => i \in Restored(s, f)
<1> DEFINE N == Len(s)
           Sk(i) == s[i].state = "skipped" /\ s[i].diagnostic = "dependency"
           C == {i \in 1..N : Sk(i)}
           h == CHOOSE k : IsRestored(s, f, k)
<1>1. C \in SUBSET (1..N)
  OBVIOUS
<1>2. PICK g \in [0..N -> SUBSET (1..N)] : IsSpread(g, C, f, N)
  <2> HIDE DEF C
  <2> QED BY <1>1, SpreadExists
<1>3. IsRestored(s, f, g)
  <2>1. \A n \in 0..N : g[n] = IF n = 0 THEN {f}
                               ELSE g[n - 1] \cup {i \in DOMAIN s : /\ s[i].state = "skipped" /\ s[i].diagnostic = "dependency"
                                                                   /\ Deps(i) \cap g[n - 1] # {}}
    <3> SUFFICES ASSUME NEW n \in 0..N
                 PROVE  g[n] = IF n = 0 THEN {f}
                               ELSE g[n - 1] \cup {i \in DOMAIN s : /\ s[i].state = "skipped" /\ s[i].diagnostic = "dependency"
                                                                   /\ Deps(i) \cap g[n - 1] # {}}
      OBVIOUS
    <3>1. CASE n = 0
      BY <1>2, <3>1 DEF IsSpread
    <3>2. CASE n # 0
      <4>1. n \in 1..N
        BY <3>2
      <4>2. g[n] = g[n - 1] \cup {i \in C : Deps(i) \cap g[n - 1] # {}}
        BY <1>2, <4>1 DEF IsSpread
      <4> QED BY <3>2, <4>2
    <3> QED BY <3>1, <3>2
  <2>2. g = [n \in 0..N |-> g[n]]
    OBVIOUS
  <2> QED BY <2>1, <2>2 DEF IsRestored
<1>4. IsRestored(s, f, h)
  BY <1>3
<1>5. Restored(s, f) = h[N] \ {f}
  BY RestoredChosen
<1> HIDE DEF h
<1>6. IsSpread(h, C, f, N)
  <2>1. \A n \in 0..N : h[n] = IF n = 0 THEN {f}
                               ELSE h[n - 1] \cup {i \in DOMAIN s : /\ s[i].state = "skipped" /\ s[i].diagnostic = "dependency"
                                                                   /\ Deps(i) \cap h[n - 1] # {}}
    BY <1>4 DEF IsRestored
  <2>2. 0 \in 0..N /\ \A n \in 1..N : n \in 0..N /\ n # 0
    OBVIOUS
  <2>3. ASSUME NEW n \in 1..N PROVE h[n] = h[n - 1] \cup {i \in C : Deps(i) \cap h[n - 1] # {}}
    <3> DEFINE X == h[n - 1]
    <3>1. h[n] = X \cup {i \in DOMAIN s : s[i].state = "skipped" /\ s[i].diagnostic = "dependency" /\ Deps(i) \cap X # {}}
      BY <2>1, <2>2
    <3> HIDE DEF X
    <3>2. {i \in DOMAIN s : s[i].state = "skipped" /\ s[i].diagnostic = "dependency" /\ Deps(i) \cap X # {}} = {i \in C : Deps(i) \cap X # {}}
      OBVIOUS
    <3>3. h[n] = X \cup {i \in C : Deps(i) \cap X # {}}
      BY <3>1, <3>2
    <3> QED BY <3>3 DEF X
  <2> HIDE DEF C
  <2> QED BY <2>1, <2>2, <2>3 DEF IsSpread
<1>7. /\ f \in h[N] /\ h[N] \subseteq C \cup {f}
      /\ \A i \in C : Deps(i) \cap h[N] # {} => i \in h[N]
  <2> HIDE DEF C
  <2> QED BY <1>1, <1>6, SpreadClosed
<1>8. Restored(s, f) \cup {f} = h[N]
  BY <1>5, <1>7
<1> QED BY <1>5, <1>7, <1>8

-----------------------------------------------------------------------------
(* Runs.  A run that exists belongs to a plan without cycles; the row of a   *)
(* step says what its attempts say, one that was skipped stands behind a     *)
(* failure that stops the run, and one that was attempted behind steps that  *)
(* succeeded.  The state of the run is the one that its steps imply.         *)

PlanStep == [kind : {"gate", "score_stop", "score_continue", "advisory"}, deps : SUBSET Nat, max : Nat]

StepRow == [state : Unfinished \cup {"succeeded", "failed", "cancelled", "skipped"},
            attempt : 0..MaxStepAttempts, score : Nat \cup {NoScore},
            diagnostic : {"none", "dependency", "other"}, cleanup : BOOLEAN]

AttemptRow == [state : {"running", "succeeded", "failed", "cancelled"}, live : BOOLEAN, cleanup : BOOLEAN]

RunRow == [state : {"none", "queued", "running", "cancelling"} \cup TerminalRun,
           cancelling : BOOLEAN, diagnostic : BOOLEAN,
           cleanup : BOOLEAN, completed : BOOLEAN, score : Nat]

RequestRow == [kind : {"cancel", "retry", "verify"}, step : Nat, attempt : Nat, fresh : BOOLEAN]

PlanOK(p) ==
  p \in Seq(PlanStep) /\ (\A i \in 1..Len(p) : p[i].deps \subseteq 1..Len(p)) /\ NoCycle(p)

Stopping(x) == FailurePolicy(x) = "stop"

RowValid(x, r) ==
  /\ r.score # NoScore => Scored(x) /\ r.score <= x.max
  /\ r.state = "succeeded" => r.diagnostic = "none" /\ r.cleanup /\ (Scored(x) <=> r.score # NoScore)
  /\ r.state \in {"failed", "cancelled", "skipped"} => r.diagnostic # "none" /\ r.score = NoScore

\* The row of a step and its last attempt.
Ends(r, e) ==
  /\ r.state = "running" => e.state = "running"
  /\ r.state \in {"pending", "retryable", "skipped"} => e.state = "failed" /\ e.cleanup
  /\ r.state \in {"succeeded", "failed"} => e.state = r.state
  /\ r.state = "cancelled" => e.state \in {"failed", "cancelled"}
  /\ r.state \in {"succeeded", "failed", "cancelled"} => (e.cleanup <=> r.cleanup)

RowOK(x, r, b) ==
  /\ r \in StepRow /\ b \in Seq(AttemptRow) /\ r.attempt = Len(b)
  /\ RowValid(x, r)
  /\ \A n \in 1..(Len(b) - 1) : b[n].state = "failed" /\ b[n].cleanup
  /\ IF Len(b) = 0 THEN r.state \in {"pending", "cancelled", "skipped"} ELSE Ends(r, b[Len(b)])
  /\ r.state = "skipped" => r.diagnostic = "dependency"
  /\ r.state \in {"succeeded", "retryable", "skipped"} => r.cleanup
  /\ r.state \in Unfinished => r.score = NoScore

RowsOK(p, s, a) ==
  /\ s \in [1..Len(p) -> StepRow] /\ a \in [1..Len(p) -> Seq(AttemptRow)]
  /\ \A i \in 1..Len(p) : RowOK(p[i], s[i], a[i])

Explained(p, s) ==
  \A i \in 1..Len(p) : s[i].state = "skipped" =>
    \E d \in p[i].deps : s[d].state = "skipped" \/ (Stopping(p[d]) /\ s[d].state \in {"failed", "cancelled"})

Respected(p, s, a) ==
  \A i \in 1..Len(p) : Len(a[i]) # 0 => \A d \in p[i].deps : Stopping(p[d]) => s[d].state = "succeeded"

RunOK(p, r, s) ==
  /\ r \in RunRow /\ r.state # "none" /\ ValidateRun(r)
  /\ r.state = "cancelling" => r.cancelling
  /\ r.cancelling => r.state \in {"cancelling", "cancelled", "failed"}
  /\ r.state \in TerminalRun => \A i \in 1..Len(p) : s[i].state \notin Unfinished
  /\ r.state = "succeeded" =>
       \A i \in 1..Len(p) : /\ Stopping(p[i]) => s[i].state \notin {"failed", "cancelled"}
                            /\ s[i].state # "skipped" => s[i].cleanup

AsksOK(Q, s, N) ==
  /\ Q \subseteq RequestRow
  /\ \A q \in Q : q.fresh /\ q.kind \in {"retry", "verify"} => q.step \in 1..N /\ s[q.step].attempt = q.attempt

RunsInv ==
  /\ release \in [state : {"none", "active", "withdrawn"}, plan : Seq(PlanStep)]
  /\ release.state # "none" => PlanOK(release.plan)
  /\ run.state = "none" => run = NoRun /\ steps = <<>> /\ attempts = <<>> /\ requests = {}
  /\ run.state # "none" =>
       /\ release.state # "none"
       /\ RowsOK(release.plan, steps, attempts)
       /\ Explained(release.plan, steps) /\ Respected(release.plan, steps, attempts)
       /\ RunOK(release.plan, run, steps)
       /\ AsksOK(requests, steps, Len(release.plan))

LEMMA RunsInitially == ASSUME EvaluationInit PROVE RunsInv
<1>1. <<>> \in Seq(PlanStep)
  BY EmptySeq
<1>2. release = [state |-> "none", plan |-> <<>>] /\ run = NoRun /\ run.state = "none"
  BY DEF EvaluationInit, NoRun
<1>3. release \in [state : {"none", "active", "withdrawn"}, plan : Seq(PlanStep)] /\ release.state = "none"
  BY <1>1, <1>2
<1> QED BY <1>2, <1>3 DEF RunsInv, EvaluationInit

\* A sequence is what its domain makes it.
LEMMA LengthOf ==
  ASSUME NEW S, NEW N \in Nat, NEW s \in [1..N -> S]
  PROVE  Len(s) = N /\ DOMAIN s = 1..N /\ DOMAIN s = 1..Len(s)
<1>1. s \in Seq(S)
  BY SeqDef
<1>2. Len(s) \in Nat /\ DOMAIN s = 1..Len(s)
  BY <1>1, LenProperties
<1>3. DOMAIN s = 1..N
  OBVIOUS
<1> QED BY <1>2, <1>3

LEMMA PlanFacts ==
  ASSUME NEW p, PlanOK(p)
  PROVE  /\ Len(p) \in Nat /\ DOMAIN p = 1..Len(p)
         /\ \A i \in 1..Len(p) : p[i] \in PlanStep /\ p[i].deps \subseteq 1..Len(p) /\ p[i].max \in Nat
<1>1. p \in Seq(PlanStep) /\ \A i \in 1..Len(p) : p[i].deps \subseteq 1..Len(p)
  BY DEF PlanOK
<1>2. Len(p) \in Nat /\ DOMAIN p = 1..Len(p)
  BY <1>1, LenProperties
<1>3. \A i \in 1..Len(p) : p[i] \in PlanStep
  BY <1>1, <1>2, ElementOfSeq
<1>4. \A x \in PlanStep : x.max \in Nat
  BY DEF PlanStep
<1> QED BY <1>1, <1>2, <1>3, <1>4

LEMMA PublishReleaseKeeps == ASSUME RunsInv, PublishRelease PROVE RunsInv'
<1>1. PICK spec \in Plans : ValidateSpec(spec) /\ release' = [state |-> "active", plan |-> spec.plan]
  BY DEF PublishRelease
<1>2. spec.plan \in Seq(PlanStep)
  BY EvaluationAssumption DEF PlanStep
<1>3. Len(spec.plan) \in Nat
  BY <1>2, LenProperties
<1>4. ValidateDependencies(spec.plan)
  BY <1>1 DEF ValidateSpec
<1>5. PlanOK(spec.plan)
  BY <1>2, <1>3, <1>4, ValidNoCycle DEF PlanOK, ValidateDependencies
<1>6. run.state = "none" /\ UNCHANGED <<run, steps, attempts, requests>>
  BY DEF RunsInv, PublishRelease
<1>7. /\ release' \in [state : {"none", "active", "withdrawn"}, plan : Seq(PlanStep)]
      /\ release'.state # "none" => PlanOK(release'.plan)
  BY <1>1, <1>2, <1>5
<1>8. run = NoRun /\ steps = <<>> /\ attempts = <<>> /\ requests = {}
  BY <1>6 DEF RunsInv
<1> QED BY <1>6, <1>7, <1>8 DEF RunsInv

LEMMA WithdrawReleaseKeeps == ASSUME RunsInv, WithdrawRelease PROVE RunsInv'
<1>1. release \in [state : {"none", "active", "withdrawn"}, plan : Seq(PlanStep)] /\ release.state = "active"
  BY DEF RunsInv, WithdrawRelease
<1>2. /\ release' \in [state : {"none", "active", "withdrawn"}, plan : Seq(PlanStep)]
      /\ release'.plan = release.plan /\ release'.state = "withdrawn"
  BY <1>1 DEF WithdrawRelease
<1>3. UNCHANGED <<run, steps, attempts, requests>>
  BY DEF WithdrawRelease
<1>4. PICK p, r, s, a, Q : p = release.plan /\ r = run /\ s = steps /\ a = attempts /\ Q = requests
  OBVIOUS
<1>5. PlanOK(p)
  BY <1>1, <1>4 DEF RunsInv
<1>6. r.state # "none" => RowsOK(p, s, a) /\ Explained(p, s) /\ Respected(p, s, a) /\ RunOK(p, r, s) /\ AsksOK(Q, s, Len(p))
  BY <1>4 DEF RunsInv
<1>7. r.state = "none" => r = NoRun /\ s = <<>> /\ a = <<>> /\ Q = {}
  BY <1>4 DEF RunsInv
<1>8. p = release'.plan /\ r = run' /\ s = steps' /\ a = attempts' /\ Q = requests'
  BY <1>2, <1>3, <1>4
<1> QED BY <1>2, <1>5, <1>6, <1>7, <1>8 DEF RunsInv

LEMMA RunsAssembled ==
  ASSUME RunsInv, release' = release, release.state # "none",
         NEW p, NEW r, NEW s, NEW a, NEW Q,
         p = release.plan, run' = r, steps' = s, attempts' = a, requests' = Q,
         RowsOK(p, s, a), Explained(p, s), Respected(p, s, a), RunOK(p, r, s), AsksOK(Q, s, Len(p))
  PROVE  RunsInv'
<1>1. r.state # "none"
  BY DEF RunOK
<1>2. /\ release \in [state : {"none", "active", "withdrawn"}, plan : Seq(PlanStep)]
      /\ PlanOK(p)
  BY DEF RunsInv
<1>3. /\ release' \in [state : {"none", "active", "withdrawn"}, plan : Seq(PlanStep)]
      /\ p = release'.plan /\ release'.state # "none"
  BY <1>2
<1> QED BY <1>1, <1>2, <1>3 DEF RunsInv

LEMMA RunFacts ==
  ASSUME RunsInv, run.state # "none", NEW p, p = release.plan
  PROVE  /\ release.state # "none" /\ PlanOK(p) /\ Len(p) \in Nat
         /\ RowsOK(p, steps, attempts) /\ Explained(p, steps) /\ Respected(p, steps, attempts)
         /\ RunOK(p, run, steps) /\ AsksOK(requests, steps, Len(p))
         /\ Steps = 1..Len(p) /\ DOMAIN attempts = 1..Len(p)
<1>1. /\ release.state # "none" /\ PlanOK(p)
      /\ RowsOK(p, steps, attempts) /\ Explained(p, steps) /\ Respected(p, steps, attempts)
      /\ RunOK(p, run, steps) /\ AsksOK(requests, steps, Len(p))
  BY DEF RunsInv
<1>2. Len(p) \in Nat
  BY <1>1, PlanFacts
<1>3. steps \in [1..Len(p) -> StepRow] /\ attempts \in [1..Len(p) -> Seq(AttemptRow)]
  BY <1>1 DEF RowsOK
<1> QED BY <1>1, <1>2, <1>3 DEF Steps

LEMMA FirstRow ==
  ASSUME NEW x
  PROVE  RowOK(x, PendingStep(0), <<>>)
<1>1. <<>> \in Seq(AttemptRow) /\ Len(<<>>) = 0
  BY EmptySeq
<1>2. PendingStep(0) \in StepRow
  BY EvaluationAssumption DEF PendingStep, StepRow, Unfinished, NoScore
<1>3. PendingStep(0).state = "pending" /\ PendingStep(0).attempt = 0 /\ PendingStep(0).score = NoScore
  BY DEF PendingStep
<1>4. RowValid(x, PendingStep(0))
  BY <1>3 DEF RowValid
<1> QED BY <1>1, <1>2, <1>3, <1>4 DEF RowOK, Unfinished

LEMMA CreateRunKeeps == ASSUME RunsInv, CreateRun PROVE RunsInv'
<1>1. PICK p : p = release.plan
  OBVIOUS
<1>2. PlanOK(p) /\ release.state # "none" /\ requests = {} /\ release' = release /\ requests' = {}
  BY <1>1 DEF RunsInv, CreateRun
<1> DEFINE N == Len(p)
           r == [NoRun EXCEPT !.state = "queued"]
           s == [i \in 1..N |-> PendingStep(0)]
           a == [i \in 1..N |-> <<>>]
           Q == {}
<1>3. run' = r /\ steps' = s /\ attempts' = a
  BY <1>1 DEF CreateRun
<1>4. \A i \in 1..N : s[i] = PendingStep(0) /\ s[i].state = "pending" /\ a[i] = <<>>
  BY DEF PendingStep
<1>5. RowsOK(p, s, a)
  <2>1. PendingStep(0) \in StepRow /\ <<>> \in Seq(AttemptRow)
    BY FirstRow DEF RowOK
  <2>2. s \in [1..N -> StepRow] /\ a \in [1..N -> Seq(AttemptRow)]
    BY <2>1
  <2>3. \A i \in 1..N : RowOK(p[i], s[i], a[i])
    BY <1>4, FirstRow
  <2> HIDE DEF s, a
  <2> QED BY <2>2, <2>3 DEF RowsOK
<1>6. Explained(p, s) /\ Respected(p, s, a)
  BY <1>4 DEF Explained, Respected
<1>7. RunOK(p, r, s)
  <2>1. r \in RunRow /\ r.state = "queued" /\ r.completed = FALSE /\ r.cancelling = FALSE
    BY DEF NoRun, RunRow
  <2> HIDE DEF r, s
  <2> QED BY <2>1 DEF RunOK, ValidateRun, TerminalRun
<1>8. AsksOK(Q, s, N)
  BY DEF AsksOK
<1> HIDE DEF r, s, a, Q
<1> QED BY <1>1, <1>2, <1>3, <1>5, <1>6, <1>7, <1>8, RunsAssembled DEF Q

\* A run that is left as it is, because nothing runs, is open.
Ready(p, r, s) ==
  \/ r.cancelling
  \/ r.state \in {"queued", "running"} /\ r.completed = FALSE
  \/ \A i \in 1..Len(p) : s[i].state \notin Unfinished

LEMMA TotalScoreNat ==
  ASSUME NEW p, p = release.plan, Len(p) \in Nat, Steps = 1..Len(p), NEW s \in [1..Len(p) -> StepRow]
  PROVE  TotalScore(s) \in Nat
<1> DEFINE D == 1..Len(p)
           T == {i \in Steps : Scored(release.plan[i]) /\ s[i].score # NoScore}
           g == [i \in Steps |-> s[i].score]
           k == [i \in D |-> IF s[i].score = NoScore THEN 0 ELSE s[i].score]
<1>1. \A i \in D : s[i].score \in Nat \cup {NoScore}
  BY DEF StepRow
<1>2. k \in [D -> Nat]
  BY <1>1
<1>3. T \in SUBSET D /\ IsFiniteSet(D)
  BY FS_Interval
<1>4. IsFiniteSet(T)
  BY <1>3, FS_Subset
<1>5. \A i \in T : g[i] = k[i]
  OBVIOUS
<1>6. TotalScore(s) = SumFunctionOnSet(g, T)
  BY DEF TotalScore
<1> HIDE DEF D, T, g, k
<1>7. SumFunctionOnSet(g, T) = SumFunctionOnSet(k, T)
  BY <1>4, <1>5, SumSame
<1>8. SumFunctionOnSet(k, T) \in Nat
  BY <1>2, <1>3, <1>4, SumNat
<1> QED BY <1>6, <1>7, <1>8

LEMMA RefreshSound ==
  ASSUME NEW p, p = release.plan, Len(p) \in Nat, Steps = 1..Len(p), NEW s \in [1..Len(p) -> StepRow],
         NEW r \in RunRow, r.state # "none", Ready(p, r, s)
  PROVE  RunOK(p, Refresh(r, s), s)
<1> DEFINE unfinished == \E i \in Steps : s[i].state \in Unfinished
           broken     == \E i \in Steps : BreaksRun(s, i, r.cancelling)
           clean      == \A i \in Steps : s[i].state # "skipped" => s[i].cleanup
           score      == TotalScore(s)
           c          == r.cancelling
           Saved(state, diagnostic, completed) ==
             [state |-> state, cancelling |-> c, diagnostic |-> diagnostic,
              cleanup |-> completed, completed |-> completed, score |-> score]
           R == Refresh(r, s)
<1>1. c \in BOOLEAN /\ r.diagnostic \in BOOLEAN /\ r.cleanup \in BOOLEAN /\ r.completed \in BOOLEAN
      /\ r.state \in {"queued", "running", "cancelling"} \cup TerminalRun
  BY DEF RunRow
<1>2. score \in Nat
  BY TotalScoreNat
<1>3. unfinished \in BOOLEAN /\ broken \in BOOLEAN /\ clean \in BOOLEAN
  OBVIOUS
<1>4. ~unfinished => \A i \in 1..Len(p) : s[i].state \notin Unfinished
  OBVIOUS
<1>5. clean => \A i \in 1..Len(p) : s[i].state # "skipped" => s[i].cleanup
  OBVIOUS
<1>6. ~broken /\ c = FALSE => \A i \in 1..Len(p) : Stopping(p[i]) => s[i].state \notin {"failed", "cancelled"}
  BY DEF BreaksRun, Stops, Stopping
<1>7. /\ broken /\ unfinished => R = Saved(IF c THEN "cancelling" ELSE "running", TRUE, FALSE)
      /\ broken /\ ~unfinished => R = Saved("failed", TRUE, clean)
      /\ ~broken /\ c /\ ~unfinished => R = Saved("cancelled", TRUE, clean)
      /\ ~broken /\ ~c /\ ~unfinished => R = Saved(IF clean THEN "succeeded" ELSE "running", FALSE, clean)
      /\ ~broken /\ c /\ unfinished => R = Saved("cancelling", r.diagnostic, FALSE)
      /\ ~broken /\ ~c /\ unfinished =>
           R = Saved("running", FALSE, FALSE) \/ R = [r EXCEPT !.score = score]
  BY DEF Refresh
<1>8. Ready(p, r, s) => c \/ (r.state \in {"queued", "running"} /\ r.completed = FALSE) \/ ~unfinished
  BY DEF Ready
<1>9. ASSUME NEW st \in {"queued", "running", "cancelling"} \cup TerminalRun, NEW di \in BOOLEAN, NEW co \in BOOLEAN
      PROVE  /\ Saved(st, di, co) \in RunRow /\ Saved(st, di, co).state = st /\ Saved(st, di, co).cancelling = c
             /\ Saved(st, di, co).diagnostic = di /\ Saved(st, di, co).cleanup = co /\ Saved(st, di, co).completed = co
  <2> HIDE DEF score, c
  <2> QED BY <1>1, <1>2 DEF RunRow
<1> HIDE DEF unfinished, broken, clean, score, c, R, Saved
<1> SUFFICES RunOK(p, R, s)
  BY DEF R
<1>10. CASE broken /\ unfinished
  <2>1. R = Saved(IF c THEN "cancelling" ELSE "running", TRUE, FALSE)
    BY <1>7, <1>10
  <2>2. c \in BOOLEAN
    BY <1>1
  <2>3. CASE c = TRUE
    <3>1. R = Saved("cancelling", TRUE, FALSE)
      BY <2>1, <2>3
    <3>2. R \in RunRow /\ R.state = "cancelling" /\ R.cancelling = c /\ R.diagnostic = TRUE /\ R.cleanup = FALSE /\ R.completed = FALSE
      BY <1>9, <3>1 DEF TerminalRun
    <3> QED BY <2>3, <3>2 DEF RunOK, ValidateRun, TerminalRun
  <2>4. CASE c = FALSE
    <3>1. R = Saved("running", TRUE, FALSE)
      BY <2>1, <2>4
    <3>2. R \in RunRow /\ R.state = "running" /\ R.cancelling = c /\ R.diagnostic = TRUE /\ R.cleanup = FALSE /\ R.completed = FALSE
      BY <1>9, <3>1 DEF TerminalRun
    <3> QED BY <2>4, <3>2 DEF RunOK, ValidateRun, TerminalRun
  <2> QED BY <2>2, <2>3, <2>4
<1>11. CASE broken /\ ~unfinished
  <2>1. R = Saved("failed", TRUE, clean)
    BY <1>7, <1>11
  <2>2. CASE clean = TRUE
    <3>1. R = Saved("failed", TRUE, TRUE)
      BY <2>1, <2>2
    <3>2. R \in RunRow /\ R.state = "failed" /\ R.cancelling = c /\ R.diagnostic = TRUE /\ R.cleanup = TRUE /\ R.completed = TRUE
      BY <1>9, <3>1 DEF TerminalRun
    <3> QED BY <1>4, <1>11, <3>2 DEF RunOK, ValidateRun, TerminalRun
  <2>3. CASE clean = FALSE
    <3>1. R = Saved("failed", TRUE, FALSE)
      BY <2>1, <2>3
    <3>2. R \in RunRow /\ R.state = "failed" /\ R.cancelling = c /\ R.diagnostic = TRUE /\ R.cleanup = FALSE /\ R.completed = FALSE
      BY <1>9, <3>1 DEF TerminalRun
    <3> QED BY <1>4, <1>11, <3>2 DEF RunOK, ValidateRun, TerminalRun
  <2> QED BY <1>3, <2>2, <2>3
<1>12. CASE ~broken /\ c /\ ~unfinished
  <2>1. R = Saved("cancelled", TRUE, clean)
    BY <1>7, <1>12
  <2>2. CASE clean = TRUE
    <3>1. R = Saved("cancelled", TRUE, TRUE)
      BY <2>1, <2>2
    <3>2. R \in RunRow /\ R.state = "cancelled" /\ R.cancelling = c /\ R.diagnostic = TRUE /\ R.cleanup = TRUE /\ R.completed = TRUE
      BY <1>9, <3>1 DEF TerminalRun
    <3> QED BY <1>4, <1>12, <3>2 DEF RunOK, ValidateRun, TerminalRun
  <2>3. CASE clean = FALSE
    <3>1. R = Saved("cancelled", TRUE, FALSE)
      BY <2>1, <2>3
    <3>2. R \in RunRow /\ R.state = "cancelled" /\ R.cancelling = c /\ R.diagnostic = TRUE /\ R.cleanup = FALSE /\ R.completed = FALSE
      BY <1>9, <3>1 DEF TerminalRun
    <3> QED BY <1>4, <1>12, <3>2 DEF RunOK, ValidateRun, TerminalRun
  <2> QED BY <1>3, <2>2, <2>3
<1>13. CASE ~broken /\ ~c /\ ~unfinished
  <2>1. R = Saved(IF clean THEN "succeeded" ELSE "running", FALSE, clean) /\ c = FALSE
    BY <1>1, <1>7, <1>13
  <2>2. CASE clean = TRUE
    <3>1. R = Saved("succeeded", FALSE, TRUE)
      BY <2>1, <2>2
    <3>2. /\ \A i \in 1..Len(p) : s[i].state \notin Unfinished
          /\ \A i \in 1..Len(p) : /\ Stopping(p[i]) => s[i].state \notin {"failed", "cancelled"}
                                  /\ s[i].state # "skipped" => s[i].cleanup
      BY <1>4, <1>5, <1>6, <1>13, <2>1, <2>2
    <3>3. R \in RunRow /\ R.state = "succeeded" /\ R.cancelling = c /\ R.diagnostic = FALSE /\ R.cleanup = TRUE /\ R.completed = TRUE
      BY <1>9, <3>1 DEF TerminalRun
    <3> QED BY <2>1, <3>2, <3>3 DEF RunOK, ValidateRun, TerminalRun
  <2>3. CASE clean = FALSE
    <3>1. R = Saved("running", FALSE, FALSE)
      BY <2>1, <2>3
    <3>2. R \in RunRow /\ R.state = "running" /\ R.cancelling = c /\ R.diagnostic = FALSE /\ R.cleanup = FALSE /\ R.completed = FALSE
      BY <1>9, <3>1 DEF TerminalRun
    <3> QED BY <2>1, <3>2 DEF RunOK, ValidateRun, TerminalRun
  <2> QED BY <1>3, <2>2, <2>3
<1>14. CASE ~broken /\ c /\ unfinished
  <2>1. R = Saved("cancelling", r.diagnostic, FALSE) /\ c = TRUE
    BY <1>1, <1>7, <1>14
  <2> DEFINE d == r.diagnostic
  <2>3. R = Saved("cancelling", d, FALSE) /\ d \in BOOLEAN
    BY <1>1, <2>1
  <2> HIDE DEF d
  <2>2. R \in RunRow /\ R.state = "cancelling" /\ R.cancelling = c /\ R.diagnostic = d /\ R.cleanup = FALSE /\ R.completed = FALSE
    BY <1>9, <2>3 DEF TerminalRun
  <2> QED BY <1>1, <2>1, <2>2 DEF RunOK, ValidateRun, TerminalRun
<1>15. CASE ~broken /\ ~c /\ unfinished
  <2>1. c = FALSE /\ (R = Saved("running", FALSE, FALSE) \/ R = [r EXCEPT !.score = score])
    BY <1>1, <1>7, <1>15
  <2>2. CASE R = Saved("running", FALSE, FALSE)
    <3>1. R \in RunRow /\ R.state = "running" /\ R.cancelling = c /\ R.diagnostic = FALSE /\ R.cleanup = FALSE /\ R.completed = FALSE
      BY <1>9, <2>2 DEF TerminalRun
    <3> QED BY <2>1, <3>1 DEF RunOK, ValidateRun, TerminalRun
  <2>3. CASE R = [r EXCEPT !.score = score]
    <3>1. r.state \in {"queued", "running"} /\ r.completed = FALSE
      BY <1>8, <1>15
    <3>2. R \in RunRow /\ R.state = r.state /\ R.completed = r.completed /\ R.cancelling = FALSE
      BY <1>2, <2>1, <2>3 DEF RunRow, c
    <3> QED BY <3>1, <3>2 DEF RunOK, ValidateRun, TerminalRun
  <2> QED BY <2>1, <2>2, <2>3
<1> QED BY <1>1, <1>3, <1>10, <1>11, <1>12, <1>13, <1>14, <1>15

\* What every operation on a run ends with keeps the invariant, when the rows of
\* the steps and of the attempts are in order.
LEMMA SaveKeeps ==
  ASSUME RunsInv, run.state # "none", release' = release, NEW p, p = release.plan,
         NEW r \in RunRow, r.state # "none", NEW s, NEW a, NEW Q, Q \subseteq requests,
         steps' = s, attempts' = a, run' = Refresh(r, s), Outdated(Q),
         RowsOK(p, s, a), Explained(p, s), Respected(p, s, a), Ready(p, r, s)
  PROVE  RunsInv'
<1>1. /\ release.state # "none" /\ Len(p) \in Nat /\ Steps = 1..Len(p)
      /\ AsksOK(requests, steps, Len(p))
  BY RunFacts
<1>2. s \in [1..Len(p) -> StepRow]
  BY DEF RowsOK
<1>3. RunOK(p, Refresh(r, s), s)
  BY <1>1, <1>2, RefreshSound
<1>4. PICK Q2 : Q2 = requests'
  OBVIOUS
<1>5. Q2 = {[q EXCEPT !.fresh = FALSE] : q \in Q}
  BY <1>4 DEF Outdated
<1>6. requests \subseteq RequestRow
  BY <1>1 DEF AsksOK
<1>7. ASSUME NEW q \in Q PROVE [q EXCEPT !.fresh = FALSE] \in RequestRow /\ [q EXCEPT !.fresh = FALSE].fresh = FALSE
  <2>1. q \in RequestRow
    BY <1>6
  <2> QED BY <2>1 DEF RequestRow
<1>8. \A q \in Q2 : q \in RequestRow /\ q.fresh = FALSE
  BY <1>5, <1>7
<1>9. AsksOK(Q2, s, Len(p))
  BY <1>8 DEF AsksOK
<1>10. PICK r2 : r2 = Refresh(r, s)
  OBVIOUS
<1>11. run' = r2 /\ RunOK(p, r2, s)
  BY <1>3, <1>10
<1> QED BY <1>1, <1>4, <1>9, <1>11, RunsAssembled

\* What happens to the row of a step, and to those of its attempts.
LEMMA RowFacts ==
  ASSUME NEW x, NEW r, NEW b, RowOK(x, r, b)
  PROVE  /\ r \in StepRow /\ b \in Seq(AttemptRow) /\ Len(b) \in Nat /\ DOMAIN b = 1..Len(b)
         /\ r.attempt = Len(b) /\ Len(b) <= MaxStepAttempts
         /\ \A n \in 1..Len(b) : b[n] \in AttemptRow
         /\ Len(b) # 0 => Ends(r, b[Len(b)])
         /\ r.state \in {"running", "failed", "succeeded", "retryable"} => Len(b) # 0
<1>1. r \in StepRow /\ b \in Seq(AttemptRow) /\ r.attempt = Len(b)
  BY DEF RowOK
<1>2. Len(b) \in Nat /\ DOMAIN b = 1..Len(b)
  BY <1>1, LenProperties
<1>3. \A n \in 1..Len(b) : b[n] \in AttemptRow
  BY <1>1, <1>2, ElementOfSeq
<1>4. r.attempt \in 0..MaxStepAttempts
  BY <1>1 DEF StepRow
<1>5. Len(b) <= MaxStepAttempts
  BY <1>1, <1>2, <1>4, EvaluationAssumption
<1>6. /\ Len(b) # 0 => Ends(r, b[Len(b)])
      /\ r.state \in {"running", "failed", "succeeded", "retryable"} => Len(b) # 0
  BY DEF RowOK
<1> QED BY <1>1, <1>2, <1>3, <1>5, <1>6

LEMMA RowClaimed ==
  ASSUME NEW x, NEW r, NEW b, RowOK(x, r, b), r.state \in {"pending", "retryable"}, r.attempt < MaxStepAttempts
  PROVE  RowOK(x, [PendingStep(r.attempt + 1) EXCEPT !.state = "running"],
               Append(b, [state |-> "running", live |-> TRUE, cleanup |-> FALSE]))
<1> DEFINE y == [PendingStep(r.attempt + 1) EXCEPT !.state = "running"]
           e == [state |-> "running", live |-> TRUE, cleanup |-> FALSE]
           b2 == Append(b, e)
<1>1. /\ r \in StepRow /\ b \in Seq(AttemptRow) /\ Len(b) \in Nat /\ r.attempt = Len(b)
      /\ Len(b) # 0 => Ends(r, b[Len(b)])
  BY RowFacts
<1>2. Len(b) + 1 \in 0..MaxStepAttempts
  BY <1>1, EvaluationAssumption
<1>3. /\ y \in StepRow /\ y.state = "running" /\ y.attempt = Len(b) + 1 /\ y.score = NoScore
  BY <1>1, <1>2 DEF PendingStep, StepRow, Unfinished
<1>4. e \in AttemptRow /\ e.state = "running"
  BY DEF AttemptRow
<1> HIDE DEF y, e
<1>5. /\ b2 \in Seq(AttemptRow) /\ Len(b2) = Len(b) + 1 /\ b2[Len(b) + 1] = e
      /\ \A n \in 1..Len(b) : b2[n] = b[n]
  BY <1>1, <1>4, AppendProperties
<1> HIDE DEF b2
<1>6. ASSUME NEW n \in 1..(Len(b2) - 1) PROVE b2[n].state = "failed" /\ b2[n].cleanup
  <2>1. n \in 1..Len(b) /\ b2[n] = b[n]
    BY <1>1, <1>5
  <2>2. CASE n = Len(b)
    <3>1. Ends(r, b[n])
      BY <1>1, <2>1, <2>2
    <3> QED BY <2>1, <3>1 DEF Ends
  <2>3. CASE n # Len(b)
    <3>1. n \in 1..(Len(b) - 1)
      BY <1>1, <2>1, <2>3
    <3> QED BY <2>1, <3>1 DEF RowOK
  <2> QED BY <2>2, <2>3
<1>7. Len(b2) # 0 /\ Ends(y, b2[Len(b2)])
  <2>1. Len(b2) # 0 /\ b2[Len(b2)] = e
    BY <1>1, <1>5
  <2> QED BY <1>3, <1>4, <2>1 DEF Ends
<1>8. RowValid(x, y)
  BY <1>3 DEF RowValid
<1>9. RowOK(x, y, b2)
  BY <1>3, <1>5, <1>6, <1>7, <1>8 DEF RowOK
<1> QED BY <1>9 DEF y, e, b2

LEMMA RowEnded ==
  ASSUME NEW x, NEW r, NEW b, RowOK(x, r, b), r.state \in {"running", "failed", "cancelled"}, Len(b) # 0,
         NEW y \in StepRow, y.attempt = Len(b), y.state \in {"succeeded", "failed", "cancelled"}, RowValid(x, y),
         NEW e \in AttemptRow,
         e.state = y.state \/ (y.state = "cancelled" /\ e.state = "failed"), e.cleanup <=> y.cleanup
  PROVE  RowOK(x, y, [b EXCEPT ![Len(b)] = e])
<1> DEFINE N == Len(b)
           b2 == [b EXCEPT ![N] = e]
<1>1. b \in Seq(AttemptRow) /\ N \in Nat /\ DOMAIN b = 1..N /\ N \in 1..N
  BY RowFacts
<1>2. b2 \in Seq(AttemptRow) /\ Len(b2) = N /\ b2[N] = e /\ \A n \in 1..N : n # N => b2[n] = b[n]
  <2>1. b \in [1..N -> AttemptRow]
    BY <1>1, LenProperties
  <2>2. b2 \in [1..N -> AttemptRow]
    BY <2>1
  <2>3. b2 \in Seq(AttemptRow)
    BY <1>1, <2>2, SeqDef
  <2>4. Len(b2) = N
    <3> HIDE DEF b2, N
    <3> QED BY <1>1, <2>2, LengthOf
  <2>5. b2[N] = e /\ \A n \in 1..N : n # N => b2[n] = b[n]
    BY <1>1, <2>1
  <2> QED BY <2>3, <2>4, <2>5
<1> HIDE DEF b2
<1>3. ASSUME NEW n \in 1..(Len(b2) - 1) PROVE b2[n].state = "failed" /\ b2[n].cleanup
  <2>1. n \in 1..(N - 1)
    <3>1. Len(b2) = N
      BY <1>2
    <3> HIDE DEF N
    <3> QED BY <3>1
  <2>2. n \in 1..N /\ n # N
    <3>1. N \in Nat
      BY <1>1
    <3> HIDE DEF N
    <3> QED BY <2>1, <3>1
  <2> QED BY <1>2, <2>1, <2>2 DEF RowOK
<1>4. Ends(y, b2[Len(b2)]) /\ Len(b2) # 0
  BY <1>1, <1>2 DEF Ends
<1>5. y.state = "succeeded" => y.cleanup
  BY DEF RowValid
<1>6. RowOK(x, y, b2)
  BY <1>1, <1>2, <1>3, <1>4, <1>5 DEF RowOK, Unfinished
<1> QED BY <1>6 DEF b2

\* A row whose attempts stay as they are.
LEMMA RowMoved ==
  ASSUME NEW x, NEW r, NEW b, RowOK(x, r, b),
         NEW y \in StepRow, y.attempt = r.attempt, RowValid(x, y),
         \/ r.state \in {"pending", "retryable"} /\ y.state = "skipped" /\ y.diagnostic = "dependency" /\ y.cleanup = TRUE
         \/ r.state \in {"pending", "retryable"} /\ y.state = "cancelled" /\ y.cleanup = TRUE
         \/ r.state = "failed" /\ r.cleanup /\ y.state = "retryable" /\ y.cleanup = TRUE /\ y.score = NoScore
         \/ r.state = "skipped" /\ y.state = "pending" /\ y.score = NoScore
  PROVE  RowOK(x, y, b)
<1>1. Len(b) = 0 => y.state \in {"pending", "cancelled", "skipped"}
  BY DEF RowOK
<1>2. Len(b) # 0 => Ends(y, b[Len(b)])
  BY DEF RowOK, Ends
<1>3. /\ y.state = "skipped" => y.diagnostic = "dependency"
      /\ y.state \in {"succeeded", "retryable", "skipped"} => y.cleanup
      /\ y.state \in Unfinished => y.score = NoScore
  BY DEF Unfinished
<1> QED BY <1>1, <1>2, <1>3 DEF RowOK

\* The rows of the other steps stay as they are.
Changes(p, s, a, i, y, b, s2, a2) ==
  /\ Len(p) \in Nat /\ RowsOK(p, s, a) /\ i \in 1..Len(p) /\ RowOK(p[i], y, b)
  /\ s2 = [s EXCEPT ![i] = y] /\ a2 = [a EXCEPT ![i] = b]

LEMMA RowChanged ==
  ASSUME NEW p, NEW s, NEW a, NEW i, NEW y, NEW b, NEW s2, NEW a2, Changes(p, s, a, i, y, b, s2, a2)
  PROVE  /\ RowsOK(p, s2, a2) /\ s2[i] = y /\ a2[i] = b
         /\ \A j \in 1..Len(p) : j # i => s2[j] = s[j] /\ a2[j] = a[j]
<1> USE DEF Changes
<1>1. y \in StepRow /\ b \in Seq(AttemptRow)
  BY DEF RowOK
<1>2. s \in [1..Len(p) -> StepRow] /\ a \in [1..Len(p) -> Seq(AttemptRow)]
  BY DEF RowsOK
<1>3. s2 \in [1..Len(p) -> StepRow] /\ a2 \in [1..Len(p) -> Seq(AttemptRow)]
  BY <1>1, <1>2
<1>4. s2[i] = y /\ a2[i] = b /\ \A j \in 1..Len(p) : j # i => s2[j] = s[j] /\ a2[j] = a[j]
  BY <1>2
<1>5. ASSUME NEW j \in 1..Len(p) PROVE RowOK(p[j], s2[j], a2[j])
  <2>1. CASE j = i
    BY <1>4, <2>1
  <2>2. CASE j # i
    BY <1>4, <2>2 DEF RowsOK
  <2> QED BY <2>1, <2>2
<1>6. RowsOK(p, s2, a2)
  BY <1>3, <1>5 DEF RowsOK
<1> QED BY <1>4, <1>6

\* Skipped steps stay behind the same failures, while these last.
LEMMA ExplainedKept ==
  ASSUME NEW p, NEW s, NEW t, PlanOK(p), Explained(p, s),
         \A j \in 1..Len(p) : t[j].state = "skipped" => s[j].state = "skipped",
         \A j \in 1..Len(p) : s[j].state = "skipped" => t[j].state = "skipped",
         \A j \in 1..Len(p) : s[j].state \in {"failed", "cancelled"} => t[j].state \in {"failed", "cancelled"}
  PROVE  Explained(p, t)
<1>1. ASSUME NEW i \in 1..Len(p), t[i].state = "skipped"
      PROVE \E d \in p[i].deps : t[d].state = "skipped" \/ (Stopping(p[d]) /\ t[d].state \in {"failed", "cancelled"})
  <2>1. PICK d \in p[i].deps : s[d].state = "skipped" \/ (Stopping(p[d]) /\ s[d].state \in {"failed", "cancelled"})
    BY <1>1 DEF Explained
  <2>2. d \in 1..Len(p)
    BY PlanFacts
  <2> QED BY <2>1, <2>2
<1> QED BY <1>1 DEF Explained

Follows(p, s, a, t, b) ==
  /\ PlanOK(p) /\ Respected(p, s, a)
  /\ \A j \in 1..Len(p) : s[j].state = "succeeded" => t[j].state = "succeeded"
  /\ \A j \in 1..Len(p) : Len(b[j]) # 0 => \/ Len(a[j]) # 0
                                           \/ \A d \in p[j].deps : Stopping(p[d]) => s[d].state = "succeeded"

LEMMA RespectedKept ==
  ASSUME NEW p, NEW s, NEW a, NEW t, NEW b, Follows(p, s, a, t, b)
  PROVE  Respected(p, t, b)
<1> USE DEF Follows
<1>1. ASSUME NEW i \in 1..Len(p), Len(b[i]) # 0, NEW d \in p[i].deps, Stopping(p[d]) PROVE t[d].state = "succeeded"
  <2>1. d \in 1..Len(p)
    BY PlanFacts
  <2>2. s[d].state = "succeeded"
    BY <1>1 DEF Respected
  <2> QED BY <2>1, <2>2
<1> QED BY <1>1 DEF Respected

LEMMA SkipRow ==
  ASSUME NEW x, NEW r, NEW b, RowOK(x, r, b), r.state \in {"pending", "retryable"}
  PROVE  /\ RowOK(x, [r EXCEPT !.state = "skipped", !.score = NoScore, !.diagnostic = "dependency", !.cleanup = TRUE], b)
         /\ [r EXCEPT !.state = "skipped", !.score = NoScore, !.diagnostic = "dependency", !.cleanup = TRUE].state = "skipped"
<1> DEFINE y == [r EXCEPT !.state = "skipped", !.score = NoScore, !.diagnostic = "dependency", !.cleanup = TRUE]
<1>1. r \in StepRow
  BY DEF RowOK
<1>2. /\ y \in StepRow /\ y.state = "skipped" /\ y.score = NoScore /\ y.diagnostic = "dependency"
      /\ y.cleanup = TRUE /\ y.attempt = r.attempt
  BY <1>1 DEF StepRow
<1> HIDE DEF y
<1>3. RowValid(x, y)
  BY <1>2 DEF RowValid
<1>4. RowOK(x, y, b)
  BY <1>2, <1>3, RowMoved
<1> QED BY <1>2, <1>4 DEF y

LEMMA SkipAfterSound ==
  ASSUME NEW p, p = release.plan, PlanOK(p), NEW s, NEW a, NEW f \in 1..Len(p),
         RowsOK(p, s, a), Explained(p, s), Respected(p, s, a)
  PROVE  RowsOK(p, SkipAfter(s, f), a) /\ Explained(p, SkipAfter(s, f)) /\ Respected(p, SkipAfter(s, f), a)
<1>1. CASE ~(s[f].state \in {"failed", "cancelled"} /\ Stops(f))
  <2>1. SkipAfter(s, f) = s
    BY <1>1 DEF SkipAfter
  <2> QED BY <2>1
<1>2. CASE s[f].state \in {"failed", "cancelled"} /\ Stops(f)
  <2> DEFINE N == Len(p)
             t == SkipAfter(s, f)
             B == Blocked(s, f)
             Sk(r) == [r EXCEPT !.state = "skipped", !.score = NoScore, !.diagnostic = "dependency", !.cleanup = TRUE]
  <2>1. /\ N \in Nat /\ \A i \in 1..N : p[i].deps \subseteq 1..N
    BY PlanFacts
  <2>2. s \in [1..N -> StepRow] /\ \A i \in 1..N : RowOK(p[i], s[i], a[i])
    BY DEF RowsOK
  <2>3. Len(s) = N /\ DOMAIN s = 1..N
    BY <2>1, <2>2, LengthOf
  <2>4. /\ \A i \in B : i \in 1..N
        /\ \A i \in B : i # f => Skippable(s, i) /\ Deps(i) \cap B # {}
    BY <2>1, <2>3, BlockedFacts
  <2>5. t = [i \in 1..N |-> IF i \in B \ {f} /\ s[i].state # "skipped" THEN Sk(s[i]) ELSE s[i]]
    BY <1>2, <2>3 DEF SkipAfter, SkipDependencySuccessors
  <2> HIDE DEF t, B, Sk, N
  <2>6. ASSUME NEW i \in 1..N
        PROVE  /\ RowOK(p[i], t[i], a[i])
               /\ t[i].state = "skipped" => i \in B \ {f} \/ s[i].state = "skipped"
               /\ i \in B \ {f} => t[i].state = "skipped"
               /\ i \notin B \ {f} \/ s[i].state \notin {"pending", "retryable"} => t[i] = s[i]
    <3>1. RowOK(p[i], s[i], a[i])
      BY <2>2
    <3>2. CASE i \in B \ {f} /\ s[i].state # "skipped"
      <4>1. t[i] = Sk(s[i])
        BY <2>5, <3>2
      <4>2. s[i].state \in {"pending", "retryable"}
        BY <2>4, <3>2 DEF Skippable
      <4>3. RowOK(p[i], Sk(s[i]), a[i]) /\ Sk(s[i]).state = "skipped"
        BY <3>1, <4>2, SkipRow DEF Sk
      <4> QED BY <3>2, <4>1, <4>2, <4>3
    <3>3. CASE ~(i \in B \ {f} /\ s[i].state # "skipped")
      <4>1. t[i] = s[i]
        BY <2>5, <3>3
      <4> QED BY <3>1, <3>3, <4>1
    <3> QED BY <3>2, <3>3
  <2>7. RowsOK(p, t, a)
    <3>1. \A i \in 1..N : t[i] \in StepRow
      BY <2>6 DEF RowOK
    <3>2. t \in [1..N -> StepRow]
      BY <2>5, <3>1
    <3> QED BY <2>6, <3>2 DEF RowsOK, N
  <2>8. ASSUME NEW i \in 1..N, t[i].state = "skipped"
        PROVE  \E d \in p[i].deps : t[d].state = "skipped" \/ (Stopping(p[d]) /\ t[d].state \in {"failed", "cancelled"})
    <3>1. CASE i \in B \ {f}
      <4>1. PICK d \in Deps(i) : d \in B
        BY <2>4, <3>1
      <4>2. d \in p[i].deps /\ d \in 1..N
        BY <2>4, <4>1 DEF Deps
      <4>3. CASE d = f
        <5>1. Stopping(p[d]) /\ s[d].state \in {"failed", "cancelled"}
          BY <1>2, <4>3 DEF Stops, Stopping
        <5>2. t[d] = s[d]
          BY <2>6, <4>2, <4>3
        <5> QED BY <4>2, <5>1, <5>2
      <4>4. CASE d # f
        <5>1. t[d].state = "skipped"
          BY <2>6, <4>1, <4>2, <4>4
        <5> QED BY <4>2, <5>1
      <4> QED BY <4>3, <4>4
    <3>2. CASE i \notin B \ {f}
      <4>1. s[i].state = "skipped"
        BY <2>6, <2>8, <3>2
      <4>2. PICK d \in p[i].deps : s[d].state = "skipped" \/ (Stopping(p[d]) /\ s[d].state \in {"failed", "cancelled"})
        BY <4>1 DEF Explained, N
      <4>3. d \in 1..N
        BY <2>1, <4>2
      <4>4. t[d] = s[d]
        BY <2>6, <4>2, <4>3
      <4> QED BY <4>2, <4>4
    <3> QED BY <3>1, <3>2
  <2>9. Explained(p, t)
    BY <2>8 DEF Explained, N
  <2>10. Respected(p, t, a)
    <3>1. \A j \in 1..Len(p) : s[j].state = "succeeded" => t[j].state = "succeeded"
      BY <2>6 DEF N
    <3>2. Follows(p, s, a, t, a)
      BY <3>1 DEF Follows
    <3> QED BY <3>2, RespectedKept
  <2> QED BY <2>7, <2>9, <2>10 DEF t
<1> QED BY <1>1, <1>2

LEMMA ClaimNextStepKeeps ==
  ASSUME RunsInv, NEW i \in Steps, ClaimNextStep(i) PROVE RunsInv'
<1>1. PICK p : p = release.plan
  OBVIOUS
<1>2. run.state \in {"queued", "running"} /\ ~run.cancelling
  BY DEF ClaimNextStep, Claimable
<1>3. /\ PlanOK(p) /\ Len(p) \in Nat /\ RowsOK(p, steps, attempts) /\ Explained(p, steps)
      /\ Respected(p, steps, attempts) /\ RunOK(p, run, steps) /\ i \in 1..Len(p)
  BY <1>1, <1>2, RunFacts
<1> DEFINE y == [PendingStep(steps[i].attempt + 1) EXCEPT !.state = "running"]
           b == Append(attempts[i], [state |-> "running", live |-> TRUE, cleanup |-> FALSE])
           s == [steps EXCEPT ![i] = y]
           a == [attempts EXCEPT ![i] = b]
           r == [run EXCEPT !.state = IF @ = "queued" THEN "running" ELSE @]
<1>4. RowOK(p[i], steps[i], attempts[i]) /\ steps[i].state \in {"pending", "retryable"} /\ steps[i].attempt < MaxStepAttempts
  BY <1>3 DEF RowsOK, ClaimNextStep, Claimable
<1>5. RowOK(p[i], y, b)
  BY <1>4, RowClaimed
<1>6. y.state = "running"
  BY DEF PendingStep
<1>7. attempts' = a /\ steps' = s /\ run' = Refresh(r, s) /\ Outdated(requests) /\ release' = release
  <2>1. steps' = [steps EXCEPT ![i] = [PendingStep(@.attempt + 1) EXCEPT !.state = "running"]]
    BY DEF ClaimNextStep, Save
  <2>2. steps' = s
    BY <1>3, <2>1 DEF RowsOK
  <2>3. attempts' = a
    BY <1>3 DEF ClaimNextStep, RowsOK
  <2>4. run' = Refresh(r, steps')
    BY <2>1 DEF ClaimNextStep, Save
  <2> HIDE DEF s, r, a
  <2> QED BY <2>2, <2>3, <2>4 DEF ClaimNextStep
<1>8. r \in RunRow /\ r.state = "running" /\ r.completed = FALSE
  <2>1. run \in RunRow /\ run.completed = FALSE
    BY <1>2, <1>3 DEF RunOK, ValidateRun, RunRow
  <2> QED BY <1>2, <2>1 DEF RunRow
<1> HIDE DEF y, b, r
<1>9. /\ RowsOK(p, s, a) /\ s[i] = y /\ a[i] = b
      /\ \A j \in 1..Len(p) : j # i => s[j] = steps[j] /\ a[j] = attempts[j]
  <2>1. PICK s0, a0, y0, b0 : s0 = s /\ a0 = a /\ y0 = y /\ b0 = b
    OBVIOUS
  <2>2. s0 = [steps EXCEPT ![i] = y0] /\ a0 = [attempts EXCEPT ![i] = b0]
    BY <2>1
  <2> HIDE DEF s, a
  <2>3. RowOK(p[i], y0, b0)
    BY <1>5, <2>1
  <2>4. /\ RowsOK(p, s0, a0) /\ s0[i] = y0 /\ a0[i] = b0
        /\ \A j \in 1..Len(p) : j # i => s0[j] = steps[j] /\ a0[j] = attempts[j]
    <3>1. Changes(p, steps, attempts, i, y0, b0, s0, a0)
      BY <1>3, <2>2, <2>3 DEF Changes
    <3> QED BY <3>1, RowChanged
  <2> QED BY <2>1, <2>4
<1> HIDE DEF s, a
<1>10. Explained(p, s)
  <2>1. \A j \in 1..Len(p) : s[j].state = "skipped" => steps[j].state = "skipped"
    BY <1>6, <1>9
  <2>2. /\ \A j \in 1..Len(p) : steps[j].state = "skipped" => s[j].state = "skipped"
        /\ \A j \in 1..Len(p) : steps[j].state \in {"failed", "cancelled"} => s[j].state \in {"failed", "cancelled"}
    BY <1>4, <1>9
  <2> QED BY <1>3, <2>1, <2>2, ExplainedKept
<1>11. Respected(p, s, a)
  <2>1. \A d \in p[i].deps : Stopping(p[d]) => steps[d].state = "succeeded"
    BY <1>1 DEF ClaimNextStep, Claimable, Satisfied, Deps, Stops, Stopping
  <2>2. \A j \in 1..Len(p) : steps[j].state = "succeeded" => s[j].state = "succeeded"
    BY <1>4, <1>9
  <2>3. \A j \in 1..Len(p) : Len(a[j]) # 0 => \/ Len(attempts[j]) # 0
                                              \/ \A d \in p[j].deps : Stopping(p[d]) => steps[d].state = "succeeded"
    BY <1>9, <2>1
  <2>4. Follows(p, steps, attempts, s, a)
    BY <1>3, <2>2, <2>3 DEF Follows
  <2> QED BY <2>4, RespectedKept
<1>12. Ready(p, r, s)
  BY <1>8 DEF Ready
<1>13. run.state # "none" /\ r.state # "none"
  BY <1>2, <1>8
<1> QED BY <1>1, <1>7, <1>8, <1>9, <1>10, <1>11, <1>12, <1>13, SaveKeeps

\* Of the attempts of a step, only the last one can be running.
LEMMA RunningAttempt ==
  ASSUME NEW x, NEW r, NEW b, RowOK(x, r, b), NEW n \in DOMAIN b, b[n].state = "running"
  PROVE  n = Len(b) /\ Len(b) # 0 /\ r.state = "running"
<1>1. Len(b) \in Nat /\ n \in 1..Len(b) /\ r \in StepRow /\ Len(b) # 0 /\ Ends(r, b[Len(b)])
  <2>1. Len(b) \in Nat /\ n \in 1..Len(b) /\ r \in StepRow
    BY RowFacts
  <2>2. Len(b) # 0
    BY <2>1
  <2> QED BY <2>1, <2>2, RowFacts
<1>2. n = Len(b)
  <2> SUFFICES ASSUME n # Len(b) PROVE FALSE
    OBVIOUS
  <2>1. n \in 1..(Len(b) - 1)
    BY <1>1
  <2> QED BY <2>1 DEF RowOK
<1>3. r.state = "running"
  BY <1>1, <1>2 DEF Ends, StepRow, Unfinished
<1> QED BY <1>1, <1>2, <1>3

\* The end of the attempt that is running.
Ending(p, i, y, e, s, a) ==
  /\ p = release.plan /\ i \in 1..Len(p) /\ steps[i].state = "running"
  /\ y \in StepRow /\ y.attempt = Len(attempts[i]) /\ y.state \in {"succeeded", "failed", "cancelled"} /\ RowValid(p[i], y)
  /\ e \in AttemptRow /\ e.state = y.state /\ (e.cleanup <=> y.cleanup)
  /\ s = SkipAfter([steps EXCEPT ![i] = y], i)
  /\ a = [attempts EXCEPT ![i] = [attempts[i] EXCEPT ![Len(attempts[i])] = e]]

LEMMA EndSound ==
  ASSUME RunsInv, run.state # "none", NEW p, NEW i, NEW y, NEW e, NEW s, NEW a, Ending(p, i, y, e, s, a)
  PROVE  RowsOK(p, s, a) /\ Explained(p, s) /\ Respected(p, s, a) /\ Ready(p, run, s) /\ run \in RunRow
<1> USE DEF Ending
<1>1. /\ PlanOK(p) /\ Len(p) \in Nat /\ RowsOK(p, steps, attempts) /\ Explained(p, steps)
      /\ Respected(p, steps, attempts) /\ RunOK(p, run, steps)
  BY RunFacts
<1>2. RowOK(p[i], steps[i], attempts[i])
  BY <1>1 DEF RowsOK
<1>3. Len(attempts[i]) # 0
  BY <1>2, RowFacts
<1> DEFINE b == [attempts[i] EXCEPT ![Len(attempts[i])] = e]
           t == [steps EXCEPT ![i] = y]
<1>4. RowOK(p[i], y, b)
  <2>1. PICK r0, b0 : r0 = steps[i] /\ b0 = attempts[i]
    OBVIOUS
  <2>2. RowOK(p[i], y, [b0 EXCEPT ![Len(b0)] = e])
    BY <1>2, <1>3, <2>1, RowEnded
  <2> QED BY <2>1, <2>2
<1> HIDE DEF b
<1>5. /\ RowsOK(p, t, a) /\ t[i] = y /\ a[i] = b
      /\ \A j \in 1..Len(p) : j # i => t[j] = steps[j] /\ a[j] = attempts[j]
  <2>1. PICK t0, b0 : t0 = t /\ b0 = b
    OBVIOUS
  <2>2. t0 = [steps EXCEPT ![i] = y] /\ a = [attempts EXCEPT ![i] = b0]
    BY <2>1 DEF b
  <2> HIDE DEF t
  <2>3. RowOK(p[i], y, b0)
    BY <1>4, <2>1
  <2>4. /\ RowsOK(p, t0, a) /\ t0[i] = y /\ a[i] = b0
        /\ \A j \in 1..Len(p) : j # i => t0[j] = steps[j] /\ a[j] = attempts[j]
    <3>1. Changes(p, steps, attempts, i, y, b0, t0, a)
      BY <1>1, <2>2, <2>3 DEF Changes
    <3> QED BY ONLY <3>1, RowChanged
  <2> QED BY <2>1, <2>4
<1> HIDE DEF t
<1>6. Explained(p, t)
  <2>1. \A j \in 1..Len(p) : t[j].state = "skipped" => steps[j].state = "skipped"
    BY <1>5
  <2>2. /\ \A j \in 1..Len(p) : steps[j].state = "skipped" => t[j].state = "skipped"
        /\ \A j \in 1..Len(p) : steps[j].state \in {"failed", "cancelled"} => t[j].state \in {"failed", "cancelled"}
    BY <1>5
  <2> QED BY <1>1, <2>1, <2>2, ExplainedKept
<1>7. Respected(p, t, a)
  <2>1. \A j \in 1..Len(p) : steps[j].state = "succeeded" => t[j].state = "succeeded"
    BY <1>5
  <2>2. \A j \in 1..Len(p) : Len(a[j]) # 0 => \/ Len(attempts[j]) # 0
                                              \/ \A d \in p[j].deps : Stopping(p[d]) => steps[d].state = "succeeded"
    BY <1>3, <1>5
  <2>3. Follows(p, steps, attempts, t, a)
    BY <1>1, <2>1, <2>2 DEF Follows
  <2> QED BY <2>3, RespectedKept
<1>8. RowsOK(p, s, a) /\ Explained(p, s) /\ Respected(p, s, a)
  <2>1. s = SkipAfter(t, i)
    BY DEF t
  <2> QED BY <1>1, <1>5, <1>6, <1>7, <2>1, SkipAfterSound
<1>9. run \in RunRow /\ (run.cancelling \/ (run.state \in {"queued", "running"} /\ run.completed = FALSE))
  <2>1. run \in RunRow /\ run.state \notin TerminalRun
    BY <1>1 DEF RunOK, Unfinished
  <2> QED BY <1>1, <2>1 DEF RunOK, ValidateRun, RunRow
<1> QED BY <1>8, <1>9 DEF Ready

\* There are steps, and requests, only of a run that exists.
LEMMA RunExists ==
  ASSUME RunsInv, (\E i \in Steps : TRUE) \/ requests # {}
  PROVE  run.state # "none"
<1> SUFFICES ASSUME run.state = "none" PROVE FALSE
  OBVIOUS
<1>1. steps = <<>> /\ requests = {}
  BY DEF RunsInv
<1>2. DOMAIN steps = {}
  BY <1>1
<1> QED BY <1>1, <1>2 DEF Steps

LEMMA CompletionFacts ==
  ASSUME NEW p, p = release.plan, NEW i, NEW x, x = p[i], x.max \in Nat, NEW c \in Completions(i), NEW n \in 0..MaxStepAttempts,
         NEW y, y = [state |-> c.state, attempt |-> n, score |-> c.score, diagnostic |-> c.diagnostic, cleanup |-> c.cleanup],
         NEW e, e = [state |-> c.state, live |-> FALSE, cleanup |-> c.cleanup]
  PROVE  /\ y \in StepRow /\ y.attempt = n /\ y.state \in {"succeeded", "failed", "cancelled"} /\ RowValid(x, y)
         /\ e \in AttemptRow /\ e.state = y.state /\ e.cleanup = y.cleanup
<1>1. \/ /\ c.state = "succeeded" /\ c.cleanup = TRUE /\ c.diagnostic = "none"
         /\ IF Scored(x) THEN c.score \in Nat /\ c.score <= x.max ELSE c.score = NoScore
      \/ c.state \in {"failed", "cancelled"} /\ c.cleanup \in BOOLEAN /\ c.diagnostic = "other" /\ c.score = NoScore
  <2> DEFINE L == IF Scored(x) THEN 0..x.max ELSE {NoScore}
  <2>1. c \in [state : {"succeeded"}, cleanup : {TRUE}, diagnostic : {"none"}, score : L]
            \cup [state : {"failed", "cancelled"}, cleanup : BOOLEAN, diagnostic : {"other"}, score : {NoScore}]
    BY DEF Completions
  <2>2. \A k \in L : IF Scored(x) THEN k \in Nat /\ k <= x.max ELSE k = NoScore
    OBVIOUS
  <2> HIDE DEF L
  <2> QED BY <2>1, <2>2
<1> DEFINE cs == c.state
           cc == c.cleanup
           cd == c.diagnostic
           sc == c.score
<1>2. /\ cs \in {"succeeded", "failed", "cancelled"} /\ cc \in BOOLEAN /\ cd \in {"none", "other"}
      /\ sc \in Nat \cup {NoScore}
  BY <1>1
<1>3. /\ y = [state |-> cs, attempt |-> n, score |-> sc, diagnostic |-> cd, cleanup |-> cc]
      /\ e = [state |-> cs, live |-> FALSE, cleanup |-> cc]
  OBVIOUS
<1> HIDE DEF cs, cc, cd, sc
<1>4. /\ y \in StepRow /\ y.attempt = n /\ y.state = cs /\ y.score = sc /\ y.diagnostic = cd /\ y.cleanup = cc
      /\ e \in AttemptRow /\ e.state = cs /\ e.cleanup = cc
  BY <1>2, <1>3 DEF StepRow, AttemptRow, Unfinished
<1>5. RowValid(x, y)
  <2>1. CASE c.state = "succeeded"
    <3>1. /\ cs = "succeeded" /\ cc = TRUE /\ cd = "none"
          /\ IF Scored(x) THEN sc \in Nat /\ sc <= x.max ELSE sc = NoScore
      BY <1>1, <2>1 DEF cs, cc, cd, sc
    <3>2. Scored(x) => sc # NoScore
      BY <3>1 DEF NoScore
    <3> QED BY <1>4, <3>1, <3>2 DEF RowValid
  <2>2. CASE c.state # "succeeded"
    <3>1. cs \in {"failed", "cancelled"} /\ cd = "other" /\ sc = NoScore
      BY <1>1, <2>2 DEF cs, cd, sc
    <3> QED BY <1>4, <3>1 DEF RowValid
  <2> QED BY <2>1, <2>2
<1> QED BY <1>2, <1>4, <1>5

\* What a completion of the attempt that is running makes of the rows.
LEMMA CompletionSound ==
  ASSUME RunsInv, NEW p, p = release.plan, NEW i \in Steps, NEW n \in DOMAIN attempts[i], attempts[i][n].state = "running",
         NEW c \in Completions(i), NEW s, NEW a,
         s = SkipAfter([steps EXCEPT ![i] = [state |-> c.state, attempt |-> n, score |-> c.score,
                                             diagnostic |-> c.diagnostic, cleanup |-> c.cleanup]], i),
         a = [attempts EXCEPT ![i] = [attempts[i] EXCEPT ![n] = [state |-> c.state, live |-> FALSE, cleanup |-> c.cleanup]]]
  PROVE  /\ RowsOK(p, s, a) /\ Explained(p, s) /\ Respected(p, s, a) /\ Ready(p, run, s) /\ run \in RunRow
         /\ run.state # "none"
<1>1. run.state # "none"
  BY RunExists
<1>2. PlanOK(p) /\ Len(p) \in Nat /\ RowsOK(p, steps, attempts) /\ i \in 1..Len(p)
  BY <1>1, RunFacts
<1>3. RowOK(p[i], steps[i], attempts[i])
  BY <1>2 DEF RowsOK
<1>4. n = Len(attempts[i]) /\ steps[i].state = "running"
  BY <1>3, RunningAttempt
<1>5. n \in 0..MaxStepAttempts
  BY <1>3, <1>4, RowFacts, EvaluationAssumption
<1>6. PICK y, e : /\ y = [state |-> c.state, attempt |-> n, score |-> c.score, diagnostic |-> c.diagnostic, cleanup |-> c.cleanup]
                  /\ e = [state |-> c.state, live |-> FALSE, cleanup |-> c.cleanup]
  OBVIOUS
<1>7. p[i].max \in Nat
  BY <1>2, PlanFacts
<1>8. PICK x : x = p[i]
  OBVIOUS
<1>9. /\ y \in StepRow /\ y.attempt = n /\ y.state \in {"succeeded", "failed", "cancelled"} /\ RowValid(p[i], y)
      /\ e \in AttemptRow /\ e.state = y.state /\ (e.cleanup <=> y.cleanup)
  <2>1. x.max \in Nat
    BY <1>7, <1>8
  <2>2. /\ y \in StepRow /\ y.attempt = n /\ y.state \in {"succeeded", "failed", "cancelled"} /\ RowValid(x, y)
        /\ e \in AttemptRow /\ e.state = y.state /\ e.cleanup = y.cleanup
    BY <1>5, <1>6, <1>8, <2>1, CompletionFacts
  <2> QED BY <1>8, <2>2
<1>10. s = SkipAfter([steps EXCEPT ![i] = y], i) /\ a = [attempts EXCEPT ![i] = [attempts[i] EXCEPT ![Len(attempts[i])] = e]]
  BY <1>4, <1>6
<1>11. Ending(p, i, y, e, s, a)
  BY <1>2, <1>4, <1>9, <1>10 DEF Ending
<1> QED BY ONLY RunsInv, <1>1, <1>11, EndSound

LEMMA CompleteStepKeeps ==
  ASSUME RunsInv, NEW i \in Steps, NEW n \in DOMAIN attempts[i], CompleteStep(i, n) PROVE RunsInv'
<1>1. PICK p : p = release.plan
  OBVIOUS
<1>2. PICK c \in Completions(i) :
        /\ attempts' = [attempts EXCEPT ![i][n] = [state |-> c.state, live |-> FALSE, cleanup |-> c.cleanup]]
        /\ Save(run, SkipAfter([steps EXCEPT ![i] = [state |-> c.state, attempt |-> n, score |-> c.score,
                                                    diagnostic |-> c.diagnostic, cleanup |-> c.cleanup]], i))
  BY DEF CompleteStep
<1>3. PICK s, a, r :
        /\ s = SkipAfter([steps EXCEPT ![i] = [state |-> c.state, attempt |-> n, score |-> c.score,
                                               diagnostic |-> c.diagnostic, cleanup |-> c.cleanup]], i)
        /\ a = [attempts EXCEPT ![i] = [attempts[i] EXCEPT ![n] = [state |-> c.state, live |-> FALSE, cleanup |-> c.cleanup]]]
        /\ r = run
  OBVIOUS
<1>4. attempts[i][n].state = "running" /\ Outdated(requests) /\ release' = release
  BY DEF CompleteStep
<1>5. /\ RowsOK(p, s, a) /\ Explained(p, s) /\ Respected(p, s, a) /\ Ready(p, run, s) /\ run \in RunRow
      /\ run.state # "none"
  BY <1>1, <1>3, <1>4, CompletionSound
<1>6. steps' = s /\ run' = Refresh(run, s)
  BY <1>2, <1>3 DEF Save
<1>7. attempts' = a
  <2>1. i \in DOMAIN attempts
    BY <1>1, <1>5, RunFacts
  <2> QED BY <1>2, <1>3, <2>1
<1> QED BY ONLY RunsInv, <1>1, <1>4, <1>5, <1>6, <1>7, SaveKeeps

LEMMA RecoverKeeps == ASSUME RunsInv, RecoverExpiredStepAttempts PROVE RunsInv'
<1>1. PICK p : p = release.plan
  OBVIOUS
<1>2. PICK i \in Steps : \E n \in DOMAIN attempts[i] :
       /\ attempts[i][n].state = "running" /\ ~attempts[i][n].live
       /\ attempts' = [attempts EXCEPT ![i][n] = [state |-> "failed", live |-> FALSE, cleanup |-> FALSE]]
       /\ Save(run, SkipAfter([steps EXCEPT ![i] = [@ EXCEPT !.state = "failed", !.diagnostic = "other",
                                                             !.cleanup = FALSE]], i))
  BY DEF RecoverExpiredStepAttempts
<1>3. PICK n \in DOMAIN attempts[i] :
       /\ attempts[i][n].state = "running"
       /\ attempts' = [attempts EXCEPT ![i][n] = [state |-> "failed", live |-> FALSE, cleanup |-> FALSE]]
       /\ Save(run, SkipAfter([steps EXCEPT ![i] = [@ EXCEPT !.state = "failed", !.diagnostic = "other",
                                                             !.cleanup = FALSE]], i))
  BY <1>2
<1>4. run.state # "none" /\ Outdated(requests) /\ release' = release
  BY RunExists DEF RecoverExpiredStepAttempts
<1>5. /\ RowsOK(p, steps, attempts) /\ i \in 1..Len(p) /\ i \in DOMAIN attempts /\ i \in DOMAIN steps
  BY <1>1, <1>4, RunFacts DEF Steps
<1>6. RowOK(p[i], steps[i], attempts[i])
  BY <1>5 DEF RowsOK
<1>7. n = Len(attempts[i]) /\ steps[i].state = "running"
  BY <1>3, <1>6, RunningAttempt
<1>8. PICK y, e : /\ y = [steps[i] EXCEPT !.state = "failed", !.diagnostic = "other", !.cleanup = FALSE]
                  /\ e = [state |-> "failed", live |-> FALSE, cleanup |-> FALSE]
  OBVIOUS
<1>9. PICK s, a : /\ s = SkipAfter([steps EXCEPT ![i] = y], i)
                  /\ a = [attempts EXCEPT ![i] = [attempts[i] EXCEPT ![Len(attempts[i])] = e]]
  OBVIOUS
<1>10. Ending(p, i, y, e, s, a)
  <2>1. steps[i] \in StepRow /\ steps[i].attempt = Len(attempts[i]) /\ steps[i].score = NoScore
    BY <1>6, <1>7 DEF RowOK, Unfinished
  <2>2. /\ y \in StepRow /\ y.attempt = Len(attempts[i]) /\ y.state = "failed" /\ y.score = NoScore
        /\ y.diagnostic = "other" /\ y.cleanup = FALSE
    BY <1>8, <2>1 DEF StepRow
  <2>3. RowValid(p[i], y)
    BY <2>2 DEF RowValid
  <2>4. e \in AttemptRow /\ e.state = "failed" /\ e.cleanup = FALSE
    BY <1>8 DEF AttemptRow
  <2> QED BY <1>1, <1>5, <1>7, <1>9, <2>2, <2>3, <2>4 DEF Ending
<1>11. RowsOK(p, s, a) /\ Explained(p, s) /\ Respected(p, s, a) /\ Ready(p, run, s) /\ run \in RunRow
  BY ONLY RunsInv, <1>4, <1>10, EndSound
<1>12. steps' = s /\ run' = Refresh(run, s)
  <2>1. [steps EXCEPT ![i] = [@ EXCEPT !.state = "failed", !.diagnostic = "other", !.cleanup = FALSE]]
        = [steps EXCEPT ![i] = y]
    BY <1>5, <1>8
  <2> QED BY <1>3, <1>9, <2>1 DEF Save
<1>13. attempts' = a
  BY <1>3, <1>5, <1>7, <1>8, <1>9
<1> QED BY ONLY RunsInv, <1>1, <1>4, <1>11, <1>12, <1>13, SaveKeeps

\* The lease of an attempt is no part of what the rows agree on.
Lapses(b, n, b2) == n \in DOMAIN b /\ b2 = [b EXCEPT ![n] = [b[n] EXCEPT !.live = FALSE]]

LEMMA LeaseLapsed ==
  ASSUME NEW x, NEW r, NEW b, NEW n, NEW b2, RowOK(x, r, b), Lapses(b, n, b2)
  PROVE  RowOK(x, r, b2) /\ Len(b2) = Len(b)
<1> USE DEF Lapses
<1>1. b \in Seq(AttemptRow) /\ Len(b) \in Nat /\ DOMAIN b = 1..Len(b) /\ \A m \in 1..Len(b) : b[m] \in AttemptRow
  BY RowFacts
<1> DEFINE e == [b[n] EXCEPT !.live = FALSE]
<1>2. e \in AttemptRow /\ e.state = b[n].state /\ e.cleanup = b[n].cleanup
  BY <1>1 DEF AttemptRow
<1>3. b2 = [b EXCEPT ![n] = e]
  OBVIOUS
<1> HIDE DEF e
<1>4. b \in [1..Len(b) -> AttemptRow]
  BY <1>1, LenProperties
<1>5. b2 \in [1..Len(b) -> AttemptRow]
  BY <1>2, <1>3, <1>4
<1>6. b2 \in Seq(AttemptRow) /\ Len(b2) = Len(b)
  <2>1. b2 \in Seq(AttemptRow)
    BY <1>1, <1>5, SeqDef
  <2>2. Len(b2) = Len(b)
    <3>1. PICK N : N = Len(b)
      OBVIOUS
    <3> QED BY ONLY <1>1, <1>5, <3>1, LengthOf
  <2> QED BY <2>1, <2>2
<1>7. \A m \in 1..Len(b) : b2[m].state = b[m].state /\ b2[m].cleanup = b[m].cleanup
  BY <1>1, <1>2, <1>3, <1>4
<1>8. \A m \in 1..(Len(b2) - 1) : b2[m].state = "failed" /\ b2[m].cleanup
  <2>1. \A m \in 1..(Len(b2) - 1) : m \in 1..(Len(b) - 1) /\ m \in 1..Len(b)
    BY <1>1, <1>6
  <2> QED BY <1>7, <2>1 DEF RowOK
<1>9. IF Len(b2) = 0 THEN r.state \in {"pending", "cancelled", "skipped"} ELSE Ends(r, b2[Len(b2)])
  <2>1. CASE Len(b) = 0
    BY <1>6, <2>1 DEF RowOK
  <2>2. CASE Len(b) # 0
    <3>1. Len(b) \in 1..Len(b)
      BY <1>1, <2>2
    <3>2. Ends(r, b[Len(b)])
      BY <2>2 DEF RowOK
    <3> QED BY <1>6, <1>7, <2>2, <3>1, <3>2 DEF Ends
  <2> QED BY <2>1, <2>2
<1> QED BY <1>6, <1>8, <1>9 DEF RowOK

LEMMA StepLeaseLapsesKeeps ==
  ASSUME RunsInv, NEW i \in Steps, StepLeaseLapses(i) PROVE RunsInv'
<1>1. PICK p, r, s, Q : p = release.plan /\ r = run /\ s = steps /\ Q = requests
  OBVIOUS
<1>2. PICK n \in DOMAIN attempts[i] : attempts' = [attempts EXCEPT ![i][n].live = FALSE]
  BY DEF StepLeaseLapses
<1>3. run.state # "none"
  BY RunExists
<1>4. /\ release.state # "none" /\ PlanOK(p) /\ Len(p) \in Nat
      /\ RowsOK(p, steps, attempts) /\ Explained(p, steps) /\ Respected(p, steps, attempts)
      /\ RunOK(p, run, steps) /\ AsksOK(requests, steps, Len(p)) /\ i \in 1..Len(p) /\ i \in DOMAIN attempts
  BY <1>1, <1>3, RunFacts
<1>5. PICK b : b = [attempts[i] EXCEPT ![n] = [attempts[i][n] EXCEPT !.live = FALSE]]
  OBVIOUS
<1>6. PICK a : a = [attempts EXCEPT ![i] = b]
  OBVIOUS
<1>7. attempts' = a
  BY <1>2, <1>4, <1>5, <1>6
<1>8. RowOK(p[i], steps[i], b) /\ Len(b) = Len(attempts[i])
  <2>1. RowOK(p[i], steps[i], attempts[i])
    BY <1>4 DEF RowsOK
  <2>2. PICK b0, x0, r0 : b0 = attempts[i] /\ x0 = p[i] /\ r0 = steps[i]
    OBVIOUS
  <2>3. RowOK(x0, r0, b0) /\ Lapses(b0, n, b)
    BY <1>5, <2>1, <2>2 DEF Lapses
  <2>4. RowOK(x0, r0, b) /\ Len(b) = Len(b0)
    BY ONLY <2>3, LeaseLapsed
  <2> QED BY <2>2, <2>4
<1>9. attempts \in [1..Len(p) -> Seq(AttemptRow)] /\ b \in Seq(AttemptRow) /\ steps \in [1..Len(p) -> StepRow]
  BY <1>4, <1>8 DEF RowsOK, RowOK
<1>10. /\ a \in [1..Len(p) -> Seq(AttemptRow)] /\ a[i] = b
       /\ \A j \in 1..Len(p) : j # i => a[j] = attempts[j]
  BY <1>4, <1>6, <1>9
<1>11. \A j \in 1..Len(p) : RowOK(p[j], steps[j], a[j]) /\ (Len(a[j]) # 0 => Len(attempts[j]) # 0)
  BY <1>4, <1>8, <1>10 DEF RowsOK
<1>12. RowsOK(p, s, a)
  BY <1>1, <1>9, <1>10, <1>11 DEF RowsOK
<1>13. Respected(p, s, a)
  BY <1>1, <1>4, <1>11 DEF Respected
<1>14. release' = release /\ run' = r /\ steps' = s /\ requests' = Q
  BY <1>1 DEF StepLeaseLapses
<1>15. Explained(p, s) /\ RunOK(p, r, s) /\ AsksOK(Q, s, Len(p)) /\ p = release.plan /\ release.state # "none"
  BY <1>1, <1>4
<1> QED BY ONLY RunsInv, <1>7, <1>12, <1>13, <1>14, <1>15, RunsAssembled

\* Requests come and go.
LEMMA AskKeeps == ASSUME RunsInv, Ask \/ \E q \in requests : Refused(q) PROVE RunsInv'
<1>1. PICK p, r, s, a, Q : p = release.plan /\ r = run /\ s = steps /\ a = attempts /\ Q = requests'
  OBVIOUS
<1>2. run.state # "none"
  <2>1. CASE Ask
    BY <2>1 DEF Ask
  <2>2. CASE \E q \in requests : Refused(q)
    BY <2>2, RunExists
  <2> QED BY <2>1, <2>2
<1>3. /\ release.state # "none" /\ PlanOK(p) /\ Len(p) \in Nat
      /\ RowsOK(p, steps, attempts) /\ Explained(p, steps) /\ Respected(p, steps, attempts)
      /\ RunOK(p, run, steps) /\ AsksOK(requests, steps, Len(p)) /\ Steps = 1..Len(p)
  BY <1>1, <1>2, RunFacts
<1>4. AsksOK(Q, s, Len(p))
  <2>1. CASE Q \subseteq requests
    BY <1>1, <1>3, <2>1 DEF AsksOK
  <2>2. ASSUME NEW q, Q = requests \cup {q}, q \in RequestRow,
               q.kind \in {"retry", "verify"} => q.step \in 1..Len(p) /\ s[q.step].attempt = q.attempt
        PROVE  AsksOK(Q, s, Len(p))
    BY <1>1, <1>3, <2>2 DEF AsksOK
  <2>3. CASE Ask
    <3>1. CASE requests' = requests \cup {[kind |-> "cancel", step |-> 0, attempt |-> 0, fresh |-> TRUE]}
      <4> DEFINE q == [kind |-> "cancel", step |-> 0, attempt |-> 0, fresh |-> TRUE]
      <4>1. Q = requests \cup {q} /\ q \in RequestRow /\ q.kind = "cancel"
        BY <1>1, <3>1 DEF RequestRow
      <4> HIDE DEF q
      <4> QED BY <2>2, <4>1
    <3>2. CASE \E i \in Steps, kind \in {"retry", "verify"} :
                 /\ steps[i].state \in {"failed", "cancelled"}
                 /\ requests' = requests \cup {[kind |-> kind, step |-> i, attempt |-> steps[i].attempt, fresh |-> TRUE]}
      <4>1. PICK i \in Steps, kind \in {"retry", "verify"} :
                 requests' = requests \cup {[kind |-> kind, step |-> i, attempt |-> steps[i].attempt, fresh |-> TRUE]}
        BY <3>2
      <4> DEFINE m == steps[i].attempt
                 q == [kind |-> kind, step |-> i, attempt |-> m, fresh |-> TRUE]
      <4>2. i \in 1..Len(p) /\ m \in Nat
        <5>1. i \in 1..Len(p) /\ steps[i] \in StepRow
          BY <1>3 DEF RowsOK
        <5>2. m \in 0..MaxStepAttempts
          BY <5>1 DEF StepRow
        <5> QED BY <5>1, <5>2, EvaluationAssumption
      <4>3. Q = requests \cup {q} /\ s[i].attempt = m
        BY <1>1, <4>1
      <4> HIDE DEF m
      <4>4. q \in RequestRow /\ q.step = i /\ q.attempt = m
        BY <4>2 DEF RequestRow
      <4> HIDE DEF q
      <4> QED BY <2>2, <4>2, <4>3, <4>4
    <3> QED BY <2>3, <3>1, <3>2 DEF Ask
  <2>4. CASE \E q \in requests : Refused(q)
    <3>1. Q \subseteq requests
      BY <1>1, <2>4 DEF Refused
    <3> QED BY <2>1, <3>1
  <2> QED BY <2>3, <2>4
<1>5. release' = release /\ run' = r /\ steps' = s /\ attempts' = a /\ requests' = Q
  BY <1>1 DEF Ask, Refused
<1>6. /\ RowsOK(p, s, a) /\ Explained(p, s) /\ Respected(p, s, a) /\ RunOK(p, r, s)
      /\ p = release.plan /\ release.state # "none"
  BY <1>1, <1>3
<1> QED BY ONLY RunsInv, <1>4, <1>5, <1>6, RunsAssembled

LEMMA CancelRow ==
  ASSUME NEW x, NEW r, NEW b, RowOK(x, r, b), r.state \in {"pending", "retryable"},
         NEW y, y = [r EXCEPT !.state = "cancelled", !.diagnostic = "other", !.cleanup = TRUE]
  PROVE  RowOK(x, y, b) /\ y.state = "cancelled"
<1>1. r \in StepRow /\ r.score = NoScore
  BY DEF RowOK, Unfinished
<1>2. /\ y \in StepRow /\ y.state = "cancelled" /\ y.score = NoScore /\ y.diagnostic = "other"
      /\ y.cleanup = TRUE /\ y.attempt = r.attempt
  BY <1>1 DEF StepRow
<1>3. RowValid(x, y)
  BY <1>2 DEF RowValid
<1> QED BY <1>2, <1>3, RowMoved

LEMMA RequestCancellationKeeps ==
  ASSUME RunsInv, NEW q \in requests, RequestCancellation(q) PROVE RunsInv'
<1>1. PICK p, t : p = release.plan /\ t = steps
  OBVIOUS
<1>2. run.state # "none"
  BY RunExists
<1>3. /\ PlanOK(p) /\ Len(p) \in Nat /\ RowsOK(p, t, attempts) /\ Explained(p, t)
      /\ Respected(p, t, attempts) /\ RunOK(p, run, t) /\ Steps = 1..Len(p)
  BY <1>1, <1>2, RunFacts
<1>4. PICK s, a : s = CancelUnstartedSteps(t) /\ a = attempts
  OBVIOUS
<1> DEFINE c == \E i \in Steps : steps[i].state = "running"
           st == IF c THEN "cancelling" ELSE "cancelled"
<1>5. PICK r : r = [run EXCEPT !.cancelling = TRUE, !.state = st]
  OBVIOUS
<1>6. steps' = s /\ run' = Refresh(r, s)
  BY <1>1, <1>4, <1>5 DEF RequestCancellation, Save
<1>7. Outdated(requests \ {q}) /\ release' = release /\ attempts' = a
  BY <1>4 DEF RequestCancellation
<1>8. r \in RunRow /\ r.cancelling = TRUE /\ r.state # "none"
  <2>1. run \in RunRow /\ st \in {"cancelling", "cancelled"}
    BY <1>3 DEF RunOK
  <2> HIDE DEF st
  <2> QED BY <1>5, <2>1 DEF RunRow, TerminalRun
<1>9. t \in [1..Len(p) -> StepRow] /\ \A i \in 1..Len(p) : RowOK(p[i], t[i], a[i])
  BY <1>3, <1>4 DEF RowsOK
<1> DEFINE C(x) == [x EXCEPT !.state = "cancelled", !.diagnostic = "other", !.cleanup = TRUE]
<1>10. s = [i \in 1..Len(p) |-> IF t[i].state \in {"pending", "retryable"} THEN C(t[i]) ELSE t[i]]
  <2>1. DOMAIN t = 1..Len(p)
    BY <1>9
  <2> QED BY <1>4, <2>1 DEF CancelUnstartedSteps
<1> HIDE DEF C
<1>11. ASSUME NEW i \in 1..Len(p)
       PROVE  /\ RowOK(p[i], s[i], a[i])
              /\ t[i].state \in {"pending", "retryable"} => s[i].state = "cancelled"
              /\ t[i].state \notin {"pending", "retryable"} => s[i] = t[i]
  <2>1. CASE t[i].state \in {"pending", "retryable"}
    <3>1. s[i] = C(t[i])
      BY <1>10, <2>1
    <3>2. RowOK(p[i], C(t[i]), a[i]) /\ C(t[i]).state = "cancelled"
      BY <1>9, <2>1, CancelRow DEF C
    <3> QED BY <2>1, <3>1, <3>2
  <2>2. CASE t[i].state \notin {"pending", "retryable"}
    BY <1>9, <1>10, <2>2
  <2> QED BY <2>1, <2>2
<1>12. RowsOK(p, s, a)
  <2>1. \A i \in 1..Len(p) : s[i] \in StepRow
    BY <1>11 DEF RowOK
  <2>2. s \in [1..Len(p) -> StepRow]
    BY <1>10, <2>1
  <2>3. a \in [1..Len(p) -> Seq(AttemptRow)]
    BY <1>3, <1>4 DEF RowsOK
  <2> QED BY <1>11, <2>2, <2>3 DEF RowsOK
<1>13. Explained(p, s)
  <2>1. \A j \in 1..Len(p) : s[j].state = "skipped" => t[j].state = "skipped"
    BY <1>11
  <2>2. /\ \A j \in 1..Len(p) : t[j].state = "skipped" => s[j].state = "skipped"
        /\ \A j \in 1..Len(p) : t[j].state \in {"failed", "cancelled"} => s[j].state \in {"failed", "cancelled"}
    BY <1>11
  <2> QED BY ONLY <1>3, <2>1, <2>2, ExplainedKept
<1>14. Respected(p, s, a)
  <2>1. \A j \in 1..Len(p) : t[j].state = "succeeded" => s[j].state = "succeeded"
    BY <1>11
  <2>2. Follows(p, t, a, s, a)
    BY <1>3, <1>4, <2>1 DEF Follows
  <2> QED BY ONLY <2>2, RespectedKept
<1>15. Ready(p, r, s)
  BY <1>8 DEF Ready
<1>16. PICK Q : Q = requests \ {q}
  OBVIOUS
<1>17. Q \subseteq requests /\ Outdated(Q)
  BY <1>7, <1>16
<1> HIDE DEF c, st
<1>18. p = release.plan
  BY <1>1
<1> QED BY ONLY RunsInv, <1>2, <1>6, <1>7, <1>8, <1>12, <1>13, <1>14, <1>15, <1>17, <1>18, SaveKeeps

\* A request that is current names a step, and the attempt that it has.
LEMMA RequestCurrent ==
  ASSUME RunsInv, NEW q \in requests, q.kind \in {"retry", "verify"}, Current(q)
  PROVE  q.step \in Steps /\ steps[q.step].attempt = q.attempt
<1>1. PICK p : p = release.plan
  OBVIOUS
<1>2. run.state # "none"
  BY RunExists
<1>3. AsksOK(requests, steps, Len(p)) /\ Steps = 1..Len(p)
  BY <1>1, <1>2, RunFacts
<1> QED BY <1>3 DEF AsksOK, Current

LEMMA RetryRow ==
  ASSUME NEW x, NEW r, NEW b, RowOK(x, r, b), r.state = "failed", r.cleanup,
         NEW y, y = [r EXCEPT !.state = "retryable", !.score = NoScore, !.diagnostic = "none"]
  PROVE  RowOK(x, y, b) /\ y.state = "retryable"
<1>1. r \in StepRow /\ r.cleanup = TRUE
  <2>1. r \in StepRow
    BY DEF RowOK
  <2> QED BY <2>1 DEF StepRow
<1>2. y \in StepRow /\ y.state = "retryable" /\ y.score = NoScore /\ y.cleanup = TRUE /\ y.attempt = r.attempt
  BY <1>1 DEF StepRow, Unfinished
<1>3. RowValid(x, y)
  BY <1>2 DEF RowValid
<1> QED BY <1>2, <1>3, RowMoved

LEMMA RestoreRow ==
  ASSUME NEW x, NEW r, NEW b, RowOK(x, r, b), r.state = "skipped"
  PROVE  RowOK(x, PendingStep(r.attempt), b) /\ PendingStep(r.attempt).state = "pending"
<1> DEFINE y == PendingStep(r.attempt)
<1>1. r \in StepRow
  BY DEF RowOK
<1>2. y \in StepRow /\ y.state = "pending" /\ y.score = NoScore /\ y.attempt = r.attempt
  BY <1>1 DEF StepRow, PendingStep, Unfinished
<1> HIDE DEF y
<1>3. RowValid(x, y)
  BY <1>2 DEF RowValid
<1>4. RowOK(x, y, b)
  BY <1>2, <1>3, RowMoved
<1> QED BY <1>2, <1>4 DEF y

LEMMA RetryStepKeeps ==
  ASSUME RunsInv, NEW q \in requests, RetryStep(q) PROVE RunsInv'
<1>1. PICK p, t, a, i : p = release.plan /\ t = steps /\ a = attempts /\ i = q.step
  OBVIOUS
<1>2. run.state # "none" /\ i \in Steps
  BY <1>1, RunExists, RequestCurrent DEF RetryStep
<1>3. /\ PlanOK(p) /\ Len(p) \in Nat /\ RowsOK(p, t, a) /\ Explained(p, t)
      /\ Respected(p, t, a) /\ RunOK(p, run, t) /\ Steps = 1..Len(p) /\ i \in 1..Len(p)
  BY <1>1, <1>2, RunFacts
<1>4. t[i].state = "failed" /\ t[i].cleanup
  BY <1>1 DEF RetryStep
<1>5. PICK y, r : /\ y = [t[i] EXCEPT !.state = "retryable", !.score = NoScore, !.diagnostic = "none"]
                  /\ r = [run EXCEPT !.state = "running", !.diagnostic = FALSE, !.completed = FALSE, !.cleanup = FALSE]
  OBVIOUS
<1>6. PICK u : u = [t EXCEPT ![i] = y]
  OBVIOUS
<1>7. PICK s : s = RestoreDependencySkippedSuccessors(u, i)
  OBVIOUS
<1>8. t \in [1..Len(p) -> StepRow] /\ \A j \in 1..Len(p) : RowOK(p[j], t[j], a[j])
  BY <1>3 DEF RowsOK
<1>9. steps' = s /\ run' = Refresh(r, s)
  <2>1. [steps EXCEPT ![i] = [@ EXCEPT !.state = "retryable", !.score = NoScore, !.diagnostic = "none"]] = u
    BY <1>1, <1>3, <1>5, <1>6, <1>8
  <2>2. Save(r, RestoreDependencySkippedSuccessors(
                  [steps EXCEPT ![i] = [@ EXCEPT !.state = "retryable", !.score = NoScore, !.diagnostic = "none"]], i))
    BY <1>1, <1>5 DEF RetryStep
  <2> QED BY <1>7, <2>1, <2>2 DEF Save
<1>10. Outdated(requests \ {q}) /\ release' = release /\ attempts' = a
  BY <1>1 DEF RetryStep
<1>11. r \in RunRow /\ r.state = "running" /\ r.completed = FALSE
  <2>1. run \in RunRow
    BY <1>3 DEF RunOK
  <2> QED BY <1>5, <2>1 DEF RunRow
<1>12. RowOK(p[i], y, a[i]) /\ y.state = "retryable"
  <2>1. PICK x0, r0, b0 : x0 = p[i] /\ r0 = t[i] /\ b0 = a[i]
    OBVIOUS
  <2>2. RowOK(x0, r0, b0) /\ r0.state = "failed" /\ r0.cleanup
    BY <1>3, <1>4, <1>8, <2>1
  <2>3. y = [r0 EXCEPT !.state = "retryable", !.score = NoScore, !.diagnostic = "none"]
    BY <1>5, <2>1
  <2>4. RowOK(x0, y, b0) /\ y.state = "retryable"
    BY ONLY <2>2, <2>3, RetryRow
  <2> QED BY <2>1, <2>4
<1>13. /\ u \in [1..Len(p) -> StepRow] /\ u[i] = y /\ \A j \in 1..Len(p) : j # i => u[j] = t[j]
  BY <1>3, <1>6, <1>8, <1>12 DEF RowOK
<1>14. Len(u) = Len(p) /\ DOMAIN u = 1..Len(p)
  <2>1. PICK N : N = Len(p)
    OBVIOUS
  <2>2. u \in [1..N -> StepRow] /\ N \in Nat
    BY <1>3, <1>13, <2>1
  <2>3. Len(u) = N /\ DOMAIN u = 1..N
    BY ONLY <2>2, LengthOf
  <2> QED BY <2>1, <2>3
<1>15. PICK R : R = Restored(u, i)
  OBVIOUS
<1>16. /\ \A j \in R : j \in 1..Len(p) /\ j # i /\ u[j].state = "skipped"
       /\ \A j \in 1..Len(p) : /\ u[j].state = "skipped" /\ u[j].diagnostic = "dependency"
                               /\ Deps(j) \cap (R \cup {i}) # {} /\ j # i
                               => j \in R
  <2>1. Len(u) \in Nat /\ DOMAIN u = 1..Len(u) /\ i \in 1..Len(u)
    BY <1>3, <1>14
  <2>2. /\ \A j \in Restored(u, i) :
              j \in DOMAIN u /\ j # i /\ u[j].state = "skipped" /\ u[j].diagnostic = "dependency"
        /\ \A j \in DOMAIN u :
              /\ u[j].state = "skipped" /\ u[j].diagnostic = "dependency"
              /\ Deps(j) \cap (Restored(u, i) \cup {i}) # {}
              /\ j # i
              => j \in Restored(u, i)
    BY ONLY <2>1, RestoredFacts
  <2> QED BY <1>14, <1>15, <2>2
<1>17. s = [j \in 1..Len(p) |-> IF j \in R THEN PendingStep(u[j].attempt) ELSE u[j]]
  BY <1>7, <1>14, <1>15 DEF RestoreDependencySkippedSuccessors
<1>18. ASSUME NEW j \in 1..Len(p)
       PROVE  /\ RowOK(p[j], s[j], a[j])
              /\ j \in R => s[j].state = "pending" /\ t[j].state = "skipped"
              /\ j \notin R /\ j # i => s[j] = t[j]
              /\ j = i => s[j].state = "retryable"
  <2>1. CASE j \in R
    <3>1. s[j] = PendingStep(u[j].attempt) /\ j # i /\ u[j].state = "skipped" /\ u[j] = t[j]
      BY <1>13, <1>16, <1>17, <2>1
    <3>2. RowOK(p[j], t[j], a[j]) /\ t[j].state = "skipped"
      BY <1>8, <3>1
    <3>3. RowOK(p[j], PendingStep(t[j].attempt), a[j]) /\ PendingStep(t[j].attempt).state = "pending"
      BY <3>2, RestoreRow
    <3>4. s[j] = PendingStep(t[j].attempt)
      BY <3>1
    <3> QED BY <2>1, <3>1, <3>2, <3>3, <3>4
  <2>2. CASE j \notin R
    <3>1. s[j] = u[j]
      BY <1>17, <2>2
    <3> QED BY <1>8, <1>12, <1>13, <2>2, <3>1
  <2> QED BY <2>1, <2>2
<1>19. RowsOK(p, s, a)
  <2>1. \A j \in 1..Len(p) : s[j] \in StepRow
    BY <1>18 DEF RowOK
  <2>2. s \in [1..Len(p) -> StepRow]
    BY <1>17, <2>1
  <2> QED BY <1>3, <1>18, <2>2 DEF RowsOK
<1>20. Explained(p, s)
  <2>1. ASSUME NEW j \in 1..Len(p), s[j].state = "skipped"
        PROVE \E d \in p[j].deps : s[d].state = "skipped" \/ (Stopping(p[d]) /\ s[d].state \in {"failed", "cancelled"})
    <3>1. j \notin R /\ j # i /\ t[j] = s[j] /\ u[j] = t[j]
      BY <1>13, <1>18, <2>1
    <3>2. PICK d \in p[j].deps : t[d].state = "skipped" \/ (Stopping(p[d]) /\ t[d].state \in {"failed", "cancelled"})
      BY <1>3, <2>1, <3>1 DEF Explained
    <3>3. d \in 1..Len(p)
      BY <1>3, PlanFacts
    <3>4. u[j].state = "skipped" /\ u[j].diagnostic = "dependency"
      BY <1>8, <2>1, <3>1 DEF RowOK
    <3>5. Deps(j) \cap (R \cup {i}) = {}
      BY <1>16, <3>1, <3>4
    <3>6. d \notin R /\ d # i
      BY <1>1, <3>5 DEF Deps
    <3>7. s[d] = t[d]
      BY <1>18, <3>3, <3>6
    <3> QED BY <3>2, <3>7
  <2> QED BY <2>1 DEF Explained
<1>21. Respected(p, s, a)
  <2>1. \A j \in 1..Len(p) : t[j].state = "succeeded" => s[j].state = "succeeded"
    BY <1>4, <1>18
  <2>2. Follows(p, t, a, s, a)
    BY <1>3, <2>1 DEF Follows
  <2> QED BY ONLY <2>2, RespectedKept
<1>22. Ready(p, r, s)
  BY <1>11 DEF Ready
<1>23. PICK Q : Q = requests \ {q}
  OBVIOUS
<1>24. Q \subseteq requests /\ Outdated(Q) /\ p = release.plan /\ r.state # "none" /\ run.state # "none"
  BY <1>1, <1>2, <1>10, <1>11, <1>23
<1> QED BY ONLY RunsInv, <1>9, <1>10, <1>11, <1>19, <1>20, <1>21, <1>22, <1>24, SaveKeeps

Verifies(r, b, y, b2) ==
  /\ r.state \in {"failed", "cancelled"} /\ Len(b) # 0
  /\ y = [r EXCEPT !.cleanup = TRUE]
  /\ b2 = [b EXCEPT ![Len(b)] = [b[Len(b)] EXCEPT !.cleanup = TRUE]]

LEMMA VerifyRow ==
  ASSUME NEW x, NEW r, NEW b, NEW y, NEW b2, RowOK(x, r, b), Verifies(r, b, y, b2)
  PROVE  RowOK(x, y, b2) /\ y.state = r.state
<1> USE DEF Verifies
<1>1. PICK e : e = [b[Len(b)] EXCEPT !.cleanup = TRUE]
  OBVIOUS
<1>2. r \in StepRow /\ r.attempt = Len(b) /\ RowValid(x, r) /\ Ends(r, b[Len(b)])
  BY DEF RowOK
<1>3. b[Len(b)] \in AttemptRow
  <2>1. Len(b) \in Nat /\ \A n \in 1..Len(b) : b[n] \in AttemptRow
    BY RowFacts
  <2>2. Len(b) \in 1..Len(b)
    BY <2>1
  <2> QED BY <2>1, <2>2
<1>4. /\ y \in StepRow /\ y.state = r.state /\ y.attempt = r.attempt /\ y.score = r.score
      /\ y.diagnostic = r.diagnostic /\ y.cleanup = TRUE
  BY <1>2 DEF StepRow
<1>5. e \in AttemptRow /\ e.state = b[Len(b)].state /\ e.cleanup = TRUE
  BY <1>1, <1>3 DEF AttemptRow
<1>6. RowValid(x, y)
  BY <1>2, <1>4 DEF RowValid
<1>7. e.state = y.state \/ (y.state = "cancelled" /\ e.state = "failed")
  BY <1>2, <1>4, <1>5 DEF Ends
<1>8. RowOK(x, y, [b EXCEPT ![Len(b)] = e])
  <2>1. /\ y.attempt = Len(b) /\ y.state \in {"succeeded", "failed", "cancelled"} /\ (e.cleanup <=> y.cleanup)
        /\ r.state \in {"running", "failed", "cancelled"} /\ RowOK(x, r, b) /\ Len(b) # 0
    BY <1>2, <1>4, <1>5
  <2>2. y \in StepRow /\ e \in AttemptRow
    BY <1>4, <1>5
  <2> QED BY ONLY <1>6, <1>7, <2>1, <2>2, RowEnded
<1> QED BY <1>1, <1>4, <1>8

LEMMA VerifyStepCleanupKeeps ==
  ASSUME RunsInv, NEW q \in requests, VerifyStepCleanup(q) PROVE RunsInv'
<1>1. PICK p, t, b, i : p = release.plan /\ t = steps /\ b = attempts /\ i = q.step
  OBVIOUS
<1>2. run.state # "none" /\ i \in Steps
  BY <1>1, RunExists, RequestCurrent DEF VerifyStepCleanup
<1>3. /\ PlanOK(p) /\ Len(p) \in Nat /\ RowsOK(p, t, b) /\ Explained(p, t)
      /\ Respected(p, t, b) /\ RunOK(p, run, t) /\ Steps = 1..Len(p) /\ i \in 1..Len(p)
  BY <1>1, <1>2, RunFacts
<1>4. t[i].state \in {"failed", "cancelled"} /\ t[i].attempt \in DOMAIN b[i]
  BY <1>1 DEF VerifyStepCleanup
<1>5. /\ t \in [1..Len(p) -> StepRow] /\ b \in [1..Len(p) -> Seq(AttemptRow)]
      /\ RowOK(p[i], t[i], b[i])
  BY <1>3 DEF RowsOK
<1>6. t[i].attempt = Len(b[i]) /\ Len(b[i]) # 0
  <2>1. Len(b[i]) \in Nat /\ DOMAIN b[i] = 1..Len(b[i]) /\ t[i].attempt = Len(b[i])
    BY <1>5, RowFacts
  <2> QED BY <1>4, <2>1
<1>7. PICK y, c : y = [t[i] EXCEPT !.cleanup = TRUE] /\ c = [b[i] EXCEPT ![Len(b[i])] = [b[i][Len(b[i])] EXCEPT !.cleanup = TRUE]]
  OBVIOUS
<1>8. PICK s, a : s = [t EXCEPT ![i] = y] /\ a = [b EXCEPT ![i] = c]
  OBVIOUS
<1>9. RowOK(p[i], y, c) /\ y.state = t[i].state
  <2>1. PICK x0, r0, b0 : x0 = p[i] /\ r0 = t[i] /\ b0 = b[i]
    OBVIOUS
  <2>2. RowOK(x0, r0, b0) /\ Verifies(r0, b0, y, c)
    BY <1>4, <1>5, <1>6, <1>7, <2>1 DEF Verifies
  <2>3. RowOK(x0, y, c) /\ y.state = r0.state
    BY ONLY <2>2, VerifyRow
  <2> QED BY <2>1, <2>3
<1>10. /\ RowsOK(p, s, a) /\ s[i] = y /\ a[i] = c
       /\ \A j \in 1..Len(p) : j # i => s[j] = t[j] /\ a[j] = b[j]
  <2>1. Changes(p, t, b, i, y, c, s, a)
    BY <1>3, <1>8, <1>9 DEF Changes
  <2> QED BY ONLY <2>1, RowChanged
<1>11. \A j \in 1..Len(p) : s[j].state = t[j].state /\ (Len(a[j]) # 0 => Len(b[j]) # 0)
  BY <1>6, <1>9, <1>10
<1>12. Explained(p, s)
  <2>1. /\ \A j \in 1..Len(p) : s[j].state = "skipped" => t[j].state = "skipped"
        /\ \A j \in 1..Len(p) : t[j].state = "skipped" => s[j].state = "skipped"
        /\ \A j \in 1..Len(p) : t[j].state \in {"failed", "cancelled"} => s[j].state \in {"failed", "cancelled"}
    BY <1>11
  <2> QED BY ONLY <1>3, <2>1, ExplainedKept
<1>13. Respected(p, s, a)
  <2>1. Follows(p, t, b, s, a)
    BY <1>3, <1>11 DEF Follows
  <2> QED BY ONLY <2>1, RespectedKept
<1>14. run \in RunRow /\ Ready(p, run, s)
  <2>1. run \in RunRow /\ (run.state \in TerminalRun => \A j \in 1..Len(p) : s[j].state \notin Unfinished)
    BY <1>3, <1>11 DEF RunOK
  <2>2. run.cancelling \/ (run.state \in {"queued", "running"} /\ run.completed = FALSE) \/ run.state \in TerminalRun
    BY <1>3, <2>1 DEF RunOK, ValidateRun, RunRow
  <2> QED BY <2>1, <2>2 DEF Ready
<1>15. steps' = s /\ run' = Refresh(run, s)
  <2>1. [steps EXCEPT ![i].cleanup = TRUE] = s
    BY <1>1, <1>3, <1>5, <1>7, <1>8
  <2>2. Save(run, [steps EXCEPT ![i].cleanup = TRUE])
    BY <1>1 DEF VerifyStepCleanup
  <2> QED BY <2>1, <2>2 DEF Save
<1>16. attempts' = a
  <2>1. attempts' = [attempts EXCEPT ![i][steps[i].attempt].cleanup = TRUE]
    BY <1>1 DEF VerifyStepCleanup
  <2>2. attempts' = [b EXCEPT ![i][Len(b[i])].cleanup = TRUE]
    BY <1>1, <1>6, <2>1
  <2> QED BY <1>3, <1>4, <1>5, <1>6, <1>7, <1>8, <2>2
<1>17. PICK Q : Q = requests \ {q}
  OBVIOUS
<1>18. Q \subseteq requests /\ Outdated(Q) /\ p = release.plan /\ run.state # "none" /\ release' = release
  BY <1>1, <1>2, <1>17 DEF VerifyStepCleanup
<1> QED BY ONLY RunsInv, <1>10, <1>12, <1>13, <1>14, <1>15, <1>16, <1>18, SaveKeeps

LEMMA EvaluationStepKeeps == ASSUME RunsInv, EvaluationStep PROVE RunsInv'
<1>1. CASE PublishRelease \/ WithdrawRelease \/ CreateRun
  BY <1>1, PublishReleaseKeeps, WithdrawReleaseKeeps, CreateRunKeeps
<1>2. CASE \E i \in Steps : ClaimNextStep(i) \/ StepLeaseLapses(i)
  BY <1>2, ClaimNextStepKeeps, StepLeaseLapsesKeeps
<1>3. CASE \E i \in Steps : \E n \in DOMAIN attempts[i] : CompleteStep(i, n)
  BY <1>3, CompleteStepKeeps
<1>4. CASE RecoverExpiredStepAttempts
  BY <1>4, RecoverKeeps
<1>5. CASE Ask \/ \E q \in requests : Refused(q)
  BY <1>5, AskKeeps
<1>6. CASE \E q \in requests : RequestCancellation(q) \/ RetryStep(q) \/ VerifyStepCleanup(q)
  BY <1>6, RequestCancellationKeeps, RetryStepKeeps, VerifyStepCleanupKeeps
<1> QED BY <1>1, <1>2, <1>3, <1>4, <1>5, <1>6 DEF EvaluationStep

\* A step that is skipped has, at the end of the chain it stands in, a failure
\* that stops the run: a plan has no cycle that the chain could be.
LEMMA SkippedBehindFailure ==
  ASSUME NEW p, NEW s, PlanOK(p), Explained(p, s), NEW i \in 1..Len(p), s[i].state = "skipped"
  PROVE  \E d \in 1..Len(p) : Stopping(p[d]) /\ s[d].state \in {"failed", "cancelled"}
<1> DEFINE U == {j \in 1..Len(p) : s[j].state = "skipped"}
<1>1. U \in SUBSET (1..Len(p)) /\ U # {}
  OBVIOUS
<1>2. PICK j \in U : p[j].deps \cap U = {}
  <2> HIDE DEF U
  <2> QED BY <1>1 DEF PlanOK, NoCycle
<1>3. PICK d \in p[j].deps : s[d].state = "skipped" \/ (Stopping(p[d]) /\ s[d].state \in {"failed", "cancelled"})
  BY DEF Explained
<1>4. d \in 1..Len(p) /\ d \notin U
  BY <1>2, PlanFacts
<1> QED BY <1>3, <1>4

LEMMA NothingYet ==
  ASSUME RunsInv, run.state = "none"
  PROVE  /\ DOMAIN steps = {} /\ DOMAIN attempts = {} /\ Steps = {} /\ requests = {} /\ run \in RunRow
<1>1. steps = <<>> /\ attempts = <<>> /\ requests = {} /\ run = NoRun
  BY DEF RunsInv
<1>2. NoRun \in RunRow
  BY DEF NoRun, RunRow
<1>3. DOMAIN steps = {} /\ DOMAIN attempts = {}
  BY <1>1
<1> QED BY <1>1, <1>2, <1>3 DEF Steps

LEMMA RunsTyped == ASSUME RunsInv PROVE EvaluationTypeOK
<1>1. release.state \in {"none", "active", "withdrawn"}
  BY DEF RunsInv
<1>2. CASE run.state = "none"
  BY <1>1, <1>2, NothingYet DEF EvaluationTypeOK, RunRow
<1>3. CASE run.state # "none"
  <2>1. PICK p : p = release.plan
    OBVIOUS
  <2>2. /\ RowsOK(p, steps, attempts) /\ RunOK(p, run, steps) /\ AsksOK(requests, steps, Len(p))
        /\ Steps = 1..Len(p) /\ DOMAIN attempts = 1..Len(p)
    BY <1>3, <2>1, RunFacts
  <2>3. run \in RunRow /\ requests \subseteq RequestRow
    BY <2>2 DEF RunOK, AsksOK
  <2>4. \A i \in DOMAIN steps : steps[i] \in StepRow
    BY <2>2 DEF RowsOK, Steps
  <2>5. \A i \in DOMAIN attempts : \A n \in DOMAIN attempts[i] : attempts[i][n] \in AttemptRow
    <3> SUFFICES ASSUME NEW i \in DOMAIN attempts, NEW n \in DOMAIN attempts[i] PROVE attempts[i][n] \in AttemptRow
      OBVIOUS
    <3>1. RowOK(p[i], steps[i], attempts[i])
      BY <2>2 DEF RowsOK
    <3> QED BY <3>1, RowFacts
  <2> QED BY <1>1, <2>3, <2>4, <2>5 DEF EvaluationTypeOK, RunRow, StepRow, AttemptRow, RequestRow
<1> QED BY <1>2, <1>3

LEMMA SucceededSound == ASSUME RunsInv PROVE SucceededRunSound
<1> SUFFICES ASSUME run.state = "succeeded"
             PROVE  /\ \A i \in Steps : Stops(i) => steps[i].state = "succeeded"
                    /\ \A i \in Steps : \A n \in DOMAIN attempts[i] : attempts[i][n].state # "running" /\ attempts[i][n].cleanup
  BY DEF SucceededRunSound
<1>1. PICK p : p = release.plan
  OBVIOUS
<1>2. /\ PlanOK(p) /\ RowsOK(p, steps, attempts) /\ Explained(p, steps) /\ RunOK(p, run, steps)
      /\ Steps = 1..Len(p) /\ Len(p) \in Nat
  BY <1>1, RunFacts
<1>3. \A i \in 1..Len(p) : /\ Stopping(p[i]) => steps[i].state \notin {"failed", "cancelled"}
                           /\ steps[i].state # "skipped" => steps[i].cleanup
                           /\ steps[i].state \notin Unfinished
  BY <1>2 DEF RunOK, TerminalRun
<1>4. \A i \in 1..Len(p) : steps[i].state # "skipped"
  BY <1>2, <1>3, SkippedBehindFailure
<1>5. \A i \in 1..Len(p) : RowOK(p[i], steps[i], attempts[i]) /\ steps[i] \in StepRow
  BY <1>2 DEF RowsOK
<1>6. \A i \in 1..Len(p) : Stops(i) => steps[i].state = "succeeded"
  BY <1>1, <1>3, <1>4, <1>5 DEF StepRow, Stops, Stopping
<1>7. ASSUME NEW i \in 1..Len(p), NEW n \in DOMAIN attempts[i]
      PROVE  attempts[i][n].state # "running" /\ attempts[i][n].cleanup
  <2>1. RowOK(p[i], steps[i], attempts[i]) /\ steps[i].state \in {"succeeded", "failed", "cancelled"} /\ steps[i].cleanup
    BY <1>3, <1>4, <1>5 DEF StepRow
  <2>2. PICK r, b : r = steps[i] /\ b = attempts[i]
    OBVIOUS
  <2>3. RowOK(p[i], r, b) /\ r.state \in {"succeeded", "failed", "cancelled"} /\ r.cleanup /\ n \in DOMAIN b
    BY <2>1, <2>2
  <2>4. Len(b) \in Nat /\ DOMAIN b = 1..Len(b) /\ (Len(b) # 0 => Ends(r, b[Len(b)]))
    BY <2>3, RowFacts
  <2>5. CASE n = Len(b)
    <3>1. Ends(r, b[n])
      BY <2>3, <2>4, <2>5
    <3> QED BY <2>2, <2>3, <3>1 DEF Ends
  <2>6. CASE n # Len(b)
    <3>1. n \in 1..(Len(b) - 1)
      BY <2>3, <2>4, <2>6
    <3> QED BY <2>2, <2>3, <3>1 DEF RowOK
  <2> QED BY <2>5, <2>6
<1> QED BY <1>2, <1>6, <1>7

LEMMA RowsFaithful == ASSUME RunsInv PROVE CleanupBeforeRerun /\ DependenciesRespected /\ StepFaithful
<1>1. CASE run.state = "none"
  BY <1>1, NothingYet DEF CleanupBeforeRerun, DependenciesRespected, StepFaithful
<1>2. CASE run.state # "none"
  <2>1. PICK p : p = release.plan
    OBVIOUS
  <2>2. /\ PlanOK(p) /\ RowsOK(p, steps, attempts) /\ Respected(p, steps, attempts)
        /\ DOMAIN attempts = 1..Len(p) /\ Len(p) \in Nat
    BY <1>2, <2>1, RunFacts
  <2>3. \A i \in 1..Len(p) : RowOK(p[i], steps[i], attempts[i])
    BY <2>2 DEF RowsOK
  <2>4. CleanupBeforeRerun
    BY <2>2, <2>3 DEF CleanupBeforeRerun, RowOK
  <2>5. \A i \in 1..Len(p) : Len(attempts[i]) \in Nat /\ (attempts[i] # <<>> => Len(attempts[i]) # 0)
    <3> SUFFICES ASSUME NEW i \in 1..Len(p) PROVE Len(attempts[i]) \in Nat /\ (attempts[i] # <<>> => Len(attempts[i]) # 0)
      OBVIOUS
    <3>1. attempts[i] \in Seq(AttemptRow)
      BY <2>3, RowFacts
    <3> QED BY <3>1, EmptySeq, LenProperties
  <2>6. DependenciesRespected
    BY <2>1, <2>2, <2>5 DEF DependenciesRespected, Respected, Deps, Stops, Stopping
  <2>7. ASSUME NEW i \in 1..Len(p)
        PROVE  /\ steps[i].attempt = Len(attempts[i])
               /\ steps[i].state = "running" <=> attempts[i] # <<>> /\ attempts[i][Len(attempts[i])].state = "running"
    <3>1. PICK r, b : r = steps[i] /\ b = attempts[i]
      OBVIOUS
    <3>2. RowOK(p[i], r, b)
      BY <2>3, <3>1
    <3>3. /\ r \in StepRow /\ Len(b) \in Nat /\ r.attempt = Len(b) /\ DOMAIN b = 1..Len(b)
          /\ r.state = "running" => Len(b) # 0
          /\ Len(b) # 0 => Ends(r, b[Len(b)])
      BY <3>2, RowFacts
    <3>4. b # <<>> <=> Len(b) # 0
      BY <2>5, <3>1
    <3>5. Len(b) # 0 => (r.state = "running" <=> b[Len(b)].state = "running")
      BY <3>3 DEF Ends, StepRow, Unfinished
    <3> QED BY <3>1, <3>3, <3>4, <3>5
  <2>8. StepFaithful
    BY <2>2, <2>7 DEF StepFaithful
  <2> QED BY <2>4, <2>6, <2>8
<1> QED BY <1>1, <1>2

LEMMA NeverWedged == ASSUME RunsInv PROVE RunNeverWedged
<1> SUFFICES ASSUME run.state \in {"queued", "running"},
                    \E i \in Steps : steps[i].state \in Unfinished,
                    \A i \in Steps : steps[i].state # "running"
             PROVE  \E i \in Steps : Claimable(i) \/ (Stops(i) /\ steps[i].state \in {"failed", "cancelled"})
  BY DEF RunNeverWedged
<1>1. PICK p : p = release.plan
  OBVIOUS
<1>2. /\ PlanOK(p) /\ RowsOK(p, steps, attempts) /\ Explained(p, steps) /\ RunOK(p, run, steps)
      /\ Steps = 1..Len(p) /\ Len(p) \in Nat
  BY <1>1, RunFacts
<1> DEFINE U == {i \in 1..Len(p) : steps[i].state \in {"pending", "retryable"}}
<1>3. U \in SUBSET (1..Len(p)) /\ U # {}
  BY <1>2 DEF Unfinished
<1>4. PICK i \in U : p[i].deps \cap U = {}
  <2> HIDE DEF U
  <2> QED BY <1>2, <1>3 DEF PlanOK, NoCycle
<1>5. i \in Steps /\ i \in 1..Len(p) /\ steps[i].state \in {"pending", "retryable"}
  BY <1>2
<1>6. steps[i].state = "retryable" => steps[i].cleanup
  BY <1>2, <1>5 DEF RowsOK, RowOK
<1>7. ~run.cancelling
  BY <1>2 DEF RunOK
<1>8. CASE \A d \in Deps(i) : Satisfied(d)
  BY <1>5, <1>6, <1>7, <1>8 DEF Claimable
<1>9. CASE \E d \in Deps(i) : ~Satisfied(d)
  <2>1. PICK d \in Deps(i) : ~Satisfied(d)
    BY <1>9
  <2>2. d \in 1..Len(p) /\ d \notin U
    BY <1>1, <1>2, <1>4, <1>5, <2>1, PlanFacts DEF Deps
  <2>3. steps[d] \in StepRow /\ steps[d].state # "running"
    BY <1>2, <2>2 DEF RowsOK
  <2>4. CASE steps[d].state = "skipped"
    <3>1. PICK k \in 1..Len(p) : Stopping(p[k]) /\ steps[k].state \in {"failed", "cancelled"}
      BY <1>2, <2>2, <2>4, SkippedBehindFailure
    <3> QED BY <1>1, <1>2, <3>1 DEF Stops, Stopping
  <2>5. CASE steps[d].state # "skipped"
    <3>1. Stops(d) /\ steps[d].state \in {"failed", "cancelled"}
      BY <2>1, <2>2, <2>3, <2>5 DEF Satisfied, StepRow, Unfinished
    <3> QED BY <1>2, <2>2, <3>1
  <2> QED BY <2>4, <2>5
<1> QED BY <1>8, <1>9

LEMMA CompletionsAccepted == ASSUME RunsInv PROVE CompletionAccepted
<1> SUFFICES ASSUME NEW i \in DOMAIN attempts, NEW n \in DOMAIN attempts[i],
                    attempts[i][n].state = "running", NEW c \in Completions(i), NEW s,
                    s = SkipAfter([steps EXCEPT ![i] = [state |-> c.state, attempt |-> n, score |-> c.score,
                                                        diagnostic |-> c.diagnostic, cleanup |-> c.cleanup]], i)
             PROVE  ValidateRun(Refresh(run, s)) /\ \A j \in Steps : ValidateStep(j, s[j])
  BY DEF CompletionAccepted
<1>1. PICK p : p = release.plan
  OBVIOUS
<1>2. run.state # "none"
  BY NothingYet
<1>3. Steps = 1..Len(p) /\ DOMAIN attempts = 1..Len(p) /\ Len(p) \in Nat
  BY <1>1, <1>2, RunFacts
<1>4. PICK a : a = [attempts EXCEPT ![i] = [attempts[i] EXCEPT ![n] = [state |-> c.state, live |-> FALSE, cleanup |-> c.cleanup]]]
  OBVIOUS
<1>5. RowsOK(p, s, a) /\ Ready(p, run, s) /\ run \in RunRow
  <2>1. i \in Steps
    BY <1>3
  <2> QED BY <1>1, <1>4, <2>1, CompletionSound
<1>6. s \in [1..Len(p) -> StepRow]
  BY <1>5 DEF RowsOK
<1>7. RunOK(p, Refresh(run, s), s)
  BY ONLY <1>1, <1>2, <1>3, <1>5, <1>6, RefreshSound
<1>8. ValidateRun(Refresh(run, s))
  <2>1. PICK r : r = Refresh(run, s)
    OBVIOUS
  <2>2. RunOK(p, r, s)
    BY <1>7, <2>1
  <2>3. ValidateRun(r)
    BY ONLY <2>2 DEF RunOK
  <2> QED BY ONLY <2>1, <2>3
<1>9. ASSUME NEW j \in Steps PROVE ValidateStep(j, s[j])
  <2>1. RowValid(p[j], s[j])
    BY ONLY <1>3, <1>5, <1>9 DEF RowsOK, RowOK
  <2> QED BY ONLY <1>1, <2>1 DEF ValidateStep, RowValid
<1> QED BY ONLY <1>8, <1>9

-----------------------------------------------------------------------------
(* The service: a step is of one part, and leaves the others as they are. *)

LEMMA FreezeAlone == ASSUME FreezeInv, UNCHANGED freezeVars PROVE FreezeInv'
<1>1. FreezeTyped'
  BY DEF FreezeInv, FreezeTyped, FreezeTypeOK, freezeVars
<1>2. ClusterClean'
  BY DEF FreezeInv, ClusterClean, SettledClean, freezeVars
<1>3. RowsWhole'
  BY DEF FreezeInv, RowsWhole, PodWhole, FrozenWhole, freezeVars
<1> QED BY <1>1, <1>2, <1>3 DEF FreezeInv

LEMMA SnapshotAlone == ASSUME SnapshotInv, UNCHANGED snapshotVars PROVE SnapshotInv'
<1>1. SnapshotTypeOK'
  BY DEF SnapshotInv, SnapshotTypeOK, snapshotVars
<1>2. CollectedSound'
  BY DEF SnapshotInv, CollectedSound, ReadSound, VisitSound, Selecting, TreeCovered, Allowed, Excluded,
         Bytes, Fits, snapshotVars
<1>3. (pass # "none" => manifest \in Manifests)'
  BY DEF SnapshotInv, snapshotVars
<1>4. (pass = "archived" => Selected /\ selected = {} /\ SameFiles(read, report))'
  BY DEF SnapshotInv, Selected, Required, SameFiles, snapshotVars
<1> QED BY <1>1, <1>2, <1>3, <1>4 DEF SnapshotInv

LEMMA RunsAlone == ASSUME RunsInv, UNCHANGED evaluationVars PROVE RunsInv'
BY DEF RunsInv, evaluationVars

LEMMA RunnerAlone == ASSUME RunnerInv, UNCHANGED runnerVars PROVE RunnerInv'
<1>1. RunnerTypeOK'
  BY DEF RunnerInv, RunnerTypeOK, runnerVars
<1>2. CallSound(call)'
  BY DEF RunnerInv, runnerVars
<1>3. CleanupSound'
  BY DEF RunnerInv, CleanupSound, CleanedAbsent, Gone, NextKind, runnerVars
<1> QED BY <1>1, <1>2, <1>3 DEF RunnerInv

LEMMA OjAlone == ASSUME OjInv, UNCHANGED ojVars PROVE OjInv'
BY DEF OjInv, OjTyped, OjScored, ojVars

LEMMA ProbeAlone == ASSUME ProbeInv, UNCHANGED probeVars PROVE ProbeInv'
BY DEF ProbeInv, ProbeTyped, ProbeSound, probeVars

ServiceInv == FreezeInv /\ SnapshotInv /\ RunsInv /\ RunnerInv /\ OjInv /\ ProbeInv

LEMMA ServiceInitially == ASSUME Init PROVE ServiceInv
BY FreezeInitially, SnapshotInitially, RunsInitially, RunnerInitially, OjInitially, ProbeInitially DEF Init, ServiceInv

LEMMA ServiceStepKeeps == ASSUME ServiceInv, [Next]_vars PROVE ServiceInv'
<1>1. FreezeInv'
  <2>1. FreezeStep \/ UNCHANGED freezeVars
    BY DEF Next, OfFreeze, OfSnapshot, OfRuns, OfRunner, OfJudge, OfProbe, vars
  <2> QED BY <2>1, FreezeStepKeeps, FreezeAlone DEF ServiceInv
<1>2. SnapshotInv'
  <2>1. SnapshotStep \/ UNCHANGED snapshotVars
    BY DEF Next, OfFreeze, OfSnapshot, OfRuns, OfRunner, OfJudge, OfProbe, vars
  <2> QED BY <2>1, SnapshotStepKeeps, SnapshotAlone DEF ServiceInv
<1>3. RunsInv'
  <2>1. EvaluationStep \/ UNCHANGED evaluationVars
    BY DEF Next, OfFreeze, OfSnapshot, OfRuns, OfRunner, OfJudge, OfProbe, vars
  <2> QED BY <2>1, EvaluationStepKeeps, RunsAlone DEF ServiceInv
<1>4. RunnerInv'
  <2>1. RunnerStep \/ UNCHANGED runnerVars
    BY DEF Next, OfFreeze, OfSnapshot, OfRuns, OfRunner, OfJudge, OfProbe, vars
  <2> QED BY <2>1, RunnerStepKeeps, RunnerAlone DEF ServiceInv
<1>5. OjInv'
  <2>1. OjStep \/ UNCHANGED ojVars
    BY DEF Next, OfFreeze, OfSnapshot, OfRuns, OfRunner, OfJudge, OfProbe, vars
  <2> QED BY <2>1, OjStepKeeps, OjAlone DEF ServiceInv
<1>6. ProbeInv'
  <2>1. ProbeStep \/ UNCHANGED probeVars
    BY DEF Next, OfFreeze, OfSnapshot, OfRuns, OfRunner, OfJudge, OfProbe, vars
  <2> QED BY <2>1, ProbeStepKeeps, ProbeAlone DEF ServiceInv
<1> QED BY <1>1, <1>2, <1>3, <1>4, <1>5, <1>6 DEF ServiceInv

(* The invariant of the service, from which the others follow: the cluster   *)
(* and the rows of a freeze, what a collection has read, the rows of a run,  *)
(* where a call of the executor is, and what the workers have concluded.     *)
THEOREM ServiceAlwaysConsistent == Spec => []ServiceInv
<1>1. Init => ServiceInv
  BY ServiceInitially
<1>2. ServiceInv /\ [Next]_vars => ServiceInv'
  BY ServiceStepKeeps
<1> QED BY <1>1, <1>2, PTL DEF Spec

(* A submission is frozen whole, with its attempt, its archive and its event, *)
(* whichever of two workers writes, the one of the Job or one whose node was  *)
(* lost.  Every file of the archive is one that the manifest allows, of the   *)
(* size reported, whatever the student changes between two requests to the    *)
(* source; from a mounted volume no byte is from outside it, and over SFTP    *)
(* nothing is claimed of where the bytes are from.  A command that is over    *)
(* leaves nothing in the cluster (coordinator.rs, freeze_store.rs,            *)
(* collector.rs).                                                             *)
THEOREM SubmissionsAlwaysSound == Spec => []SubmissionSound
<1>1. ServiceInv => TypeOK
  <2>1. ASSUME ServiceInv PROVE TypeOK
    <3>1. FreezeTypeOK /\ SnapshotTypeOK /\ RunnerTypeOK
      BY <2>1 DEF ServiceInv, FreezeInv, FreezeTyped, SnapshotInv, RunnerInv
    <3>2. EvaluationTypeOK
      BY <2>1, RunsTyped DEF ServiceInv
    <3>3. WorkerTypeOK
      BY <2>1 DEF ServiceInv, OjInv, OjTyped, ProbeInv, ProbeTyped, WorkerTypeOK
    <3> QED BY <3>1, <3>2, <3>3 DEF TypeOK
  <2> QED BY <2>1
<1>2. ServiceInv => FrozenWhole /\ SettledClean
  BY DEF ServiceInv, FreezeInv, RowsWhole, ClusterClean
<1>3. ServiceInv => ArchiveSound
  BY ArchivesSound DEF ServiceInv
<1>4. ServiceInv => SubmissionSound
  BY <1>1, <1>2, <1>3 DEF SubmissionSound
<1> QED BY <1>4, ServiceAlwaysConsistent, PTL

(* A run follows its plan, whatever the plan, the completions, the leases     *)
(* that lapse and the mutations that operators ask for: it succeeds only      *)
(* with every step that stops it, reruns only what was cleaned up, respects   *)
(* dependencies, agrees with its attempts, never waits for itself, and turns  *)
(* no valid completion down (control_plane.rs).                               *)
THEOREM RunsAlwaysSound == Spec => []RunsSound
<1>1. RunsInv => RunsSound
  BY SucceededSound, RowsFaithful, NeverWedged, CompletionsAccepted DEF RunsSound
<1>2. ServiceInv => RunsSound
  BY <1>1 DEF ServiceInv
<1> QED BY <1>2, ServiceAlwaysConsistent, PTL

(* A Job that was cleaned up has left nothing of its own, except what an      *)
(* apply without an answer brought later, and receipts say what the judge     *)
(* and the probe saw (oj_executor.rs, oj_worker.rs, ansible_probe_worker.rs). *)
THEOREM RunnersAlwaysSound == Spec => []RunnersSound
<1>1. ServiceInv => RunnersSound
  BY DEF ServiceInv, RunnerInv, CleanupSound, OjInv, ProbeInv, RunnersSound
<1> QED BY <1>1, ServiceAlwaysConsistent, PTL

(* A mutation of a run applies to the attempt that the operator saw, because  *)
(* the revision moved on otherwise; a cleanup deletes no object of another    *)
(* request; a Job is complete only with the receipt of its own pod            *)
(* (control_plane.rs, oj_executor.rs, ansible_probe_executor.rs).             *)
THEOREM RequestsAlwaysFenced == Spec => RequestsFenced
<1>1. ASSUME ServiceInv
      PROVE  \A q \in requests : VerifyStepCleanup(q) \/ RetryStep(q) => steps[q.step].attempt = q.attempt
  BY <1>1, RequestCurrent DEF ServiceInv, VerifyStepCleanup, RetryStep
<1>2. ASSUME ServiceInv, [Next]_vars, NEW k \in Kinds, resources[k] = "drifted", k = "jobs" => jobState = "active"
      PROVE  resources'[k] \notin {"absent", "going"}
  <2>1. RunnerStep \/ UNCHANGED runnerVars
    BY <1>2 DEF Next, OfFreeze, OfSnapshot, OfRuns, OfRunner, OfJudge, OfProbe, vars
  <2>2. CASE RunnerStep
    BY <1>2, <2>2, OthersKeptByStep DEF ServiceInv
  <2>3. CASE UNCHANGED runnerVars
    BY <1>2, <2>3 DEF runnerVars
  <2> QED BY <2>1, <2>2, <2>3
<1>3. ASSUME ServiceInv, [Next]_vars, answer' = "completed", answer # "completed" PROVE runner.owner = "own"
  <2>1. RunnerStep
    BY <1>3 DEF Next, OfFreeze, OfSnapshot, OfRuns, OfRunner, OfJudge, OfProbe, vars, runnerVars
  <2> QED BY <1>3, <2>1, CompletionOwnedByStep DEF ServiceInv
<1>4. ServiceInv /\ [Next]_vars =>
        [\A q \in requests : VerifyStepCleanup(q) \/ RetryStep(q) => steps[q.step].attempt = q.attempt]_vars
  BY <1>1
<1>5. ServiceInv /\ [Next]_vars =>
        [\A k \in Kinds : resources[k] = "drifted" /\ (k = "jobs" => jobState = "active") =>
           resources'[k] \notin {"absent", "going"}]_vars
  BY <1>2
<1>6. ServiceInv /\ [Next]_vars => [answer' = "completed" /\ answer # "completed" => runner.owner = "own"]_vars
  BY <1>3
<1>7. Spec => MutationCurrent
  BY <1>4, ServiceAlwaysConsistent, PTL DEF Spec, MutationCurrent
<1>8. Spec => OthersKept
  BY <1>5, ServiceAlwaysConsistent, PTL DEF Spec, OthersKept
<1>9. Spec => CompletionOwned
  BY <1>6, ServiceAlwaysConsistent, PTL DEF Spec, CompletionOwned
<1> QED BY <1>7, <1>8, <1>9 DEF RequestsFenced
=============================================================================
