---------------------------- MODULE AlertsProofs ----------------------------
(***************************************************************************)
(* For any number of tunnels, certificates and evaluations: the alerts     *)
(* stay well typed, and an alert is open or about to be inserted at most   *)
(* once per evaluation at work.                                            *)
(***************************************************************************)
EXTENDS Alerts, TLAPS, FiniteSetTheorems

\* What an evaluation has to raise are alerts of the table.
LEMMA ConditionsType ==
  ASSUME TypeOK, NEW S \in {Tunnels, Certs}
  PROVE  Conditions(S) \subseteq Alert
<1> SUFFICES ASSUME NEW s \in S, health[s] # "fine" PROVE <<s, health[s]>> \in Alert
  BY DEF Conditions
<1>1. s \in Tunnels \cup Certs /\ health[s] \in Possible(s)
  BY DEF TypeOK
<1>2. CASE S = Tunnels
  BY <1>1, <1>2 DEF Possible, Alert
<1>3. CASE S = Certs
  <2>1. s \notin Tunnels
    BY <1>3, ConstantsAssumption
  <2> QED
    BY <1>1, <1>3, <2>1 DEF Possible, Alert
<1> QED
  BY <1>2, <1>3

LEMMA TypeInit == Init => TypeOK
BY ConstantsAssumption DEF Init, TypeOK, Raised, Health, Possible

LEMMA TypeStep == TypeOK /\ [Next]_vars => TypeOK'
<1> SUFFICES ASSUME TypeOK, [Next]_vars PROVE TypeOK'
  OBVIOUS
<1> USE DEF TypeOK, Raised
<1>1. CASE Tick
  <2>1. ticks' \in 0..(Every - 1)
    BY <1>1, ConstantsAssumption DEF Tick
  <2>2. CASE ticks' = 0
    <3>1. PICK e \in Evals : stage[e] = "idle" /\ stage' = [stage EXCEPT ![e] = "start"]
      BY <1>1, <2>2 DEF Tick
    <3> QED
      BY <1>1, <2>1, <3>1 DEF Tick
  <2>3. CASE ticks' # 0
    BY <1>1, <2>1, <2>3 DEF Tick
  <2> QED
    BY <2>2, <2>3
<1>2. CASE Wipe
  BY <1>2 DEF Wipe
<1>3. ASSUME NEW e \in Evals, ReadTunnels(e) PROVE TypeOK'
  BY <1>3, ConditionsType DEF ReadTunnels
<1>4. ASSUME NEW e \in Evals, NEW a \in Alert, Count(e, a) PROVE TypeOK'
  BY <1>4 DEF Count
<1>5. ASSUME NEW e \in Evals, Insert(e) PROVE TypeOK'
  <2>1. pending[e] \in Alert
    BY <1>5 DEF Insert
  <2>2. open' \in [Alert -> Nat]
    BY <1>5, <2>1 DEF Insert
  <2> QED
    BY <1>5, <2>2 DEF Insert
<1>6. ASSUME NEW e \in Evals, QueryCerts(e) PROVE TypeOK'
  BY <1>6, ConditionsType DEF QueryCerts
<1>7. ASSUME NEW e \in Evals, Finish(e) PROVE TypeOK'
  BY <1>7 DEF Finish
<1>8. ASSUME NEW s \in Tunnels \cup Certs, NEW h \in Health, Change(s, h) PROVE TypeOK'
  BY <1>8 DEF Change
<1>9. ASSUME NEW a \in Alert, Resolve(a) PROVE TypeOK'
  BY <1>9 DEF Resolve
<1>10. CASE UNCHANGED vars
  BY <1>10 DEF vars
<1> QED
  BY <1>1, <1>2, <1>3, <1>4, <1>5, <1>6, <1>7, <1>8, <1>9, <1>10 DEF Next, Evaluate

\* Every variable keeps its type.
THEOREM AlertsTyped == Spec => []TypeOK
<1> QED
  BY TypeInit, TypeStep, PTL DEF Spec

-----------------------------------------------------------------------------
\* The evaluations about to insert an alert are finitely many.
LEMMA AboutFinite ==
  ASSUME NEW a
  PROVE  /\ IsFiniteSet(About(a))
         /\ Cardinality(About(a)) \in Nat
         /\ Cardinality(About(a)) <= Cardinality(Evals)
         /\ Cardinality(Evals) \in Nat
<1>1. About(a) \in SUBSET Evals /\ IsFiniteSet(Evals)
  BY ConstantsAssumption DEF About
<1> QED
  BY <1>1, FS_Subset, FS_CardinalityType

\* A count finds an open alert, and changes nothing, or finds none: then only
\* evaluations that are about to insert one are to be reckoned with.
LEMMA BoundCount ==
  ASSUME TypeOK, OnePerEvaluation, NEW e \in Evals, NEW b \in Alert, Count(e, b)
  PROVE  OnePerEvaluation'
<1> SUFFICES ASSUME NEW a \in Alert
             PROVE  open'[a] + Cardinality(About(a)') <= Cardinality(Evals)
  BY DEF OnePerEvaluation
<1>1. open' = open /\ open[a] \in Nat
  BY DEF Count, TypeOK
<1>2. CASE open[b] > 0 \/ a # b
  <2>1. About(a)' = About(a)
    BY <1>2, ConstantsAssumption DEF Count, About, TypeOK
  <2> QED
    BY <1>1, <2>1 DEF OnePerEvaluation
<1>3. CASE open[b] = 0 /\ a = b
  <2>1. About(a)' \in SUBSET Evals /\ IsFiniteSet(Evals)
    BY ConstantsAssumption DEF About
  <2>2. Cardinality(About(a)') <= Cardinality(Evals) /\ Cardinality(About(a)') \in Nat
    BY <2>1, FS_Subset, FS_CardinalityType
  <2> QED
    BY <1>1, <1>3, <2>2
<1> QED
  BY <1>1, <1>2, <1>3 DEF TypeOK

\* An insertion turns one evaluation that is about to insert into an alert.
LEMMA BoundInsert ==
  ASSUME TypeOK, OnePerEvaluation, NEW e \in Evals, Insert(e)
  PROVE  OnePerEvaluation'
<1> SUFFICES ASSUME NEW a \in Alert
             PROVE  open'[a] + Cardinality(About(a)') <= Cardinality(Evals)
  BY DEF OnePerEvaluation
<1>1. pending[e] \in Alert /\ pending' = [pending EXCEPT ![e] = None] /\ open[a] \in Nat
  BY DEF Insert, TypeOK
<1>2. CASE a = pending[e]
  <2>1. About(a)' = About(a) \ {e} /\ e \in About(a)
    BY <1>1, <1>2, ConstantsAssumption DEF About, TypeOK
  <2>2. Cardinality(About(a)') = Cardinality(About(a)) - 1
    BY <2>1, AboutFinite, FS_RemoveElement
  <2>3. open'[a] = open[a] + 1
    BY <1>1, <1>2 DEF Insert, TypeOK
  <2>4. open[a] + Cardinality(About(a)) <= Cardinality(Evals)
    BY DEF OnePerEvaluation
  <2> QED
    BY <1>1, <2>2, <2>3, <2>4, AboutFinite
<1>3. CASE a # pending[e]
  <2>1. About(a)' = About(a)
    BY <1>1, <1>3, ConstantsAssumption DEF About, TypeOK
  <2>2. open'[a] = open[a]
    BY <1>1, <1>3 DEF Insert, TypeOK
  <2> QED
    BY <2>1, <2>2 DEF OnePerEvaluation
<1> QED
  BY <1>2, <1>3

\* Fewer open alerts and the same pending ones keep the bound.
LEMMA BoundLess ==
  ASSUME TypeOK, TypeOK', OnePerEvaluation, pending' = pending,
         \A a \in Alert : open'[a] <= open[a]
  PROVE  OnePerEvaluation'
<1> SUFFICES ASSUME NEW a \in Alert
             PROVE  open'[a] + Cardinality(About(a)') <= Cardinality(Evals)
  BY DEF OnePerEvaluation
<1>1. About(a)' = About(a)
  BY DEF About
<1>2. open[a] + Cardinality(About(a)) <= Cardinality(Evals) /\ open'[a] <= open[a]
  BY DEF OnePerEvaluation
<1>3. open[a] \in Nat /\ open'[a] \in Nat
  BY DEF TypeOK
<1> QED
  BY <1>1, <1>2, <1>3, AboutFinite

LEMMA BoundInit == Init => OnePerEvaluation
<1> SUFFICES ASSUME Init, NEW a \in Alert
             PROVE  open[a] + Cardinality(About(a)) <= Cardinality(Evals)
  BY DEF OnePerEvaluation
<1> QED
  BY AboutFinite DEF Init

LEMMA BoundStep == TypeOK /\ TypeOK' /\ OnePerEvaluation /\ [Next]_vars => OnePerEvaluation'
<1> SUFFICES ASSUME TypeOK, TypeOK', OnePerEvaluation, [Next]_vars
             PROVE  OnePerEvaluation'
  OBVIOUS
<1>1. ASSUME NEW e \in Evals, NEW a \in Alert, Count(e, a) PROVE OnePerEvaluation'
  BY <1>1, BoundCount
<1>2. ASSUME NEW e \in Evals, Insert(e) PROVE OnePerEvaluation'
  BY <1>2, BoundInsert
<1>3. CASE Wipe \/ \E a \in Alert : Resolve(a)
  <2>1. pending' = pending /\ \A a \in Alert : open'[a] <= open[a]
    BY <1>3 DEF Wipe, Resolve, TypeOK
  <2> QED
    BY <2>1, BoundLess
<1>4. CASE pending' = pending /\ open' = open
  <2>1. \A a \in Alert : open'[a] <= open[a]
    BY <1>4 DEF TypeOK
  <2> QED
    BY <1>4, <2>1, BoundLess
<1>5. CASE UNCHANGED vars
  BY <1>4, <1>5 DEF vars
<1>6. ASSUME NEW e \in Evals, ReadTunnels(e) \/ QueryCerts(e) \/ Finish(e)
      PROVE  pending' = pending /\ open' = open
  BY <1>6 DEF ReadTunnels, QueryCerts, Finish
<1>7. ASSUME Tick \/ \E s \in Tunnels \cup Certs, h \in Health : Change(s, h)
      PROVE  pending' = pending /\ open' = open
  BY <1>7 DEF Tick, Change
<1> QED
  BY <1>1, <1>2, <1>3, <1>4, <1>5, <1>6, <1>7 DEF Next, Evaluate

\* raiseAlert counts and inserts in two statements: its duplicates are at most
\* as many as the evaluations at work.
THEOREM BoundedDuplicates == Spec => []OnePerEvaluation
<1> QED
  BY TypeInit, TypeStep, BoundInit, BoundStep, PTL DEF Spec
=============================================================================
