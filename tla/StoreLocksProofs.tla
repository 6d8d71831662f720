-------------------------- MODULE StoreLocksProofs --------------------------
(***************************************************************************)
(* No deadlock between the connection and the engine's mutex, for any      *)
(* number of goroutines, rows and statements, but between a listing and a  *)
(* reload: the two programs that take the connection and the mutex in      *)
(* opposite orders are the only dangerous pair.                            *)
(***************************************************************************)
EXTENDS StoreLocks, TLAPS

LEMMA ListingShape ==
  /\ Len(Listing) = 2 * Rows + 2
  /\ \A i \in 1..Len(Listing) :
       /\ Listing[i] \in {"open", "close", "rlock", "runlock"}
       /\ Listing[i] = "open" <=> i = 1
       /\ Listing[i] = "close" <=> i = Len(Listing)
       /\ Listing[i] = "rlock" => i + 1 < Len(Listing) /\ Listing[i + 1] = "runlock"
BY SizeAssumption DEF Listing

LEMMA EvaluationShape ==
  /\ Len(Evaluation) = 2 * Statements + 2
  /\ \A i \in 1..Len(Evaluation) :
       /\ Evaluation[i] \in {"open", "close", "rlock", "runlock"}
       /\ Evaluation[i] = "rlock" => i < Len(Evaluation) /\ Evaluation[i + 1] = "runlock"
       /\ Evaluation[i] = "open" => i < Len(Evaluation) /\ Evaluation[i + 1] = "close"
BY SizeAssumption DEF Evaluation

LEMMA ProgramLength ==
  ASSUME NEW k \in AllKinds
  PROVE  Len(Program(k)) \in Nat \ {0}
<1>1. CASE k = "list"
  <2>1. Program(k) = Listing
    BY <1>1 DEF Program
  <2> QED BY <2>1, ListingShape, SizeAssumption
<1>2. CASE k = "evaluate"
  <2>1. Program(k) = Evaluation
    BY <1>2 DEF Program
  <2> QED BY <2>1, EvaluationShape, SizeAssumption
<1>3. CASE k = "tick"
  <2>1. Program(k) = Tick
    BY <1>3 DEF Program
  <2> QED BY <2>1 DEF Tick
<1>4. CASE k = "mutate"
  <2>1. Program(k) = Mutation
    BY <1>4 DEF Program
  <2> QED BY <2>1 DEF Mutation
<1>5. CASE k = "overview"
  <2>1. Program(k) = Overview
    BY <1>5 DEF Program
  <2> QED BY <2>1 DEF Overview
<1>6. CASE k = "reload"
  <2>1. Program(k) = Reloading
    BY <1>6 DEF Program
  <2> QED BY <2>1 DEF Reloading
<1> QED BY <1>1, <1>2, <1>3, <1>4, <1>5, <1>6 DEF AllKinds

\* What an operation of a program is followed by, and where it stands.
Shape(k, i) ==
  /\ Program(k)[i] \in {"open", "close", "rlock", "runlock", "lock", "unlock"}
  /\ Program(k)[i] = "rlock" => i < Len(Program(k)) /\ Program(k)[i + 1] = "runlock"
  /\ Program(k)[i] = "lock" => /\ i < Len(Program(k))
                               /\ k # "reload" => Program(k)[i + 1] = "unlock"
  /\ Program(k)[i] = "open" => /\ i < Len(Program(k))
                               /\ k # "list" => Program(k)[i + 1] = "close"
  /\ k = "list" => /\ Program(k)[i] \in {"open", "close", "rlock", "runlock"}
                   /\ Program(k)[i] = "open" <=> i = 1
                   /\ Program(k)[i] = "close" <=> i = Len(Program(k))
  /\ k = "reload" => /\ Program(k)[i] \notin {"rlock", "runlock"}
                     /\ Program(k)[i] = "lock" <=> i = 3
                     /\ Program(k)[i] = "unlock" <=> i = 8
                     /\ Len(Program(k)) = 8

LEMMA ProgramShape ==
  ASSUME NEW k \in AllKinds, NEW i \in 1..Len(Program(k))
  PROVE  Shape(k, i)
<1> USE DEF Shape
<1>1. CASE k = "list"
  <2>1. Program(k) = Listing
    BY <1>1 DEF Program
  <2> QED BY <1>1, <2>1, ListingShape, SizeAssumption
<1>2. CASE k = "evaluate"
  <2>1. Program(k) = Evaluation
    BY <1>2 DEF Program
  <2> QED BY <1>2, <2>1, EvaluationShape, SizeAssumption
<1>3. CASE k = "tick"
  <2>1. Program(k) = Tick
    BY <1>3 DEF Program
  <2>2. Len(Tick) = 2 /\ i \in {1, 2}
    BY <2>1 DEF Tick
  <2>3. /\ Tick[1] = "lock" /\ Tick[2] = "unlock"
    BY DEF Tick
  <2> QED BY <1>3, <2>1, <2>2, <2>3
<1>4. CASE k = "mutate"
  <2>1. Program(k) = Mutation
    BY <1>4 DEF Program
  <2>2. Len(Mutation) = 6 /\ i \in 1..6
    BY <2>1 DEF Mutation
  <2>3. /\ Mutation[1] = "open" /\ Mutation[2] = "close"
        /\ Mutation[3] = "lock" /\ Mutation[4] = "unlock"
        /\ Mutation[5] = "open" /\ Mutation[6] = "close"
    BY DEF Mutation
  <2>4. CASE i = 1
    BY <1>4, <2>1, <2>2, <2>3, <2>4
  <2>5. CASE i = 2
    BY <1>4, <2>1, <2>2, <2>3, <2>5
  <2>6. CASE i = 3
    BY <1>4, <2>1, <2>2, <2>3, <2>6
  <2>7. CASE i = 4
    BY <1>4, <2>1, <2>2, <2>3, <2>7
  <2>8. CASE i = 5
    BY <1>4, <2>1, <2>2, <2>3, <2>8
  <2>9. CASE i = 6
    BY <1>4, <2>1, <2>2, <2>3, <2>9
  <2> QED BY <2>2, <2>4, <2>5, <2>6, <2>7, <2>8, <2>9
<1>5. CASE k = "overview"
  <2>1. Program(k) = Overview
    BY <1>5 DEF Program
  <2>2. Len(Overview) = 6 /\ i \in 1..6
    BY <2>1 DEF Overview
  <2>3. /\ Overview[1] = "open" /\ Overview[2] = "close"
        /\ Overview[3] = "rlock" /\ Overview[4] = "runlock"
        /\ Overview[5] = "open" /\ Overview[6] = "close"
    BY DEF Overview
  <2>4. CASE i = 1
    BY <1>5, <2>1, <2>2, <2>3, <2>4
  <2>5. CASE i = 2
    BY <1>5, <2>1, <2>2, <2>3, <2>5
  <2>6. CASE i = 3
    BY <1>5, <2>1, <2>2, <2>3, <2>6
  <2>7. CASE i = 4
    BY <1>5, <2>1, <2>2, <2>3, <2>7
  <2>8. CASE i = 5
    BY <1>5, <2>1, <2>2, <2>3, <2>8
  <2>9. CASE i = 6
    BY <1>5, <2>1, <2>2, <2>3, <2>9
  <2> QED BY <2>2, <2>4, <2>5, <2>6, <2>7, <2>8, <2>9
<1>6. CASE k = "reload"
  <2>1. Program(k) = Reloading
    BY <1>6 DEF Program
  <2>2. Len(Reloading) = 8 /\ i \in 1..8
    BY <2>1 DEF Reloading
  <2>3. /\ Reloading[1] = "open" /\ Reloading[2] = "close"
        /\ Reloading[3] = "lock" /\ Reloading[4] = "open"
        /\ Reloading[5] = "close" /\ Reloading[6] = "open"
        /\ Reloading[7] = "close" /\ Reloading[8] = "unlock"
    BY DEF Reloading
  <2>4. CASE i = 1
    BY <1>6, <2>1, <2>2, <2>3, <2>4
  <2>5. CASE i = 2
    BY <1>6, <2>1, <2>2, <2>3, <2>5
  <2>6. CASE i = 3
    BY <1>6, <2>1, <2>2, <2>3, <2>6
  <2>7. CASE i = 4
    BY <1>6, <2>1, <2>2, <2>3, <2>7
  <2>8. CASE i = 5
    BY <1>6, <2>1, <2>2, <2>3, <2>8
  <2>9. CASE i = 6
    BY <1>6, <2>1, <2>2, <2>3, <2>9
  <2>10. CASE i = 7
    BY <1>6, <2>1, <2>2, <2>3, <2>10
  <2>11. CASE i = 8
    BY <1>6, <2>1, <2>2, <2>3, <2>11
  <2> QED BY <2>2, <2>4, <2>5, <2>6, <2>7, <2>8, <2>9, <2>10, <2>11
<1> QED BY <1>1, <1>2, <1>3, <1>4, <1>5, <1>6 DEF AllKinds

-----------------------------------------------------------------------------
\* A goroutine that exists is at an operation of its program.
LEMMA BusyShape ==
  ASSUME TypeOK, NEW p \in Procs, Busy(p)
  PROVE  /\ kind[p] \in AllKinds /\ kind[p] \in Kinds
         /\ at[p] \in 1..Len(Program(kind[p]))
         /\ NextOp(p) = Program(kind[p])[at[p]]
         /\ Len(Program(kind[p])) \in Nat \ {0}
         /\ Shape(kind[p], at[p])
<1>1. kind[p] \in Kinds /\ kind[p] \in AllKinds
  BY KindsAssumption DEF TypeOK, Busy
<1>2. Len(Program(kind[p])) \in Nat \ {0}
  BY <1>1, ProgramLength
<1>3. at[p] \in Nat \ {0} /\ at[p] <= Len(Program(kind[p]))
  BY DEF TypeOK
<1>4. at[p] \in 1..Len(Program(kind[p]))
  BY <1>2, <1>3
<1>5. Shape(kind[p], at[p])
  BY <1>1, <1>4, ProgramShape
<1> QED BY <1>1, <1>2, <1>4, <1>5 DEF NextOp

\* What completing an operation does to the goroutines.
LEMMA Completed ==
  ASSUME TypeOK, NEW S \in SUBSET Procs, \A p \in S : Busy(p), Complete(S)
  PROVE  /\ kind' \in [Procs -> Kinds \cup {"idle"}]
         /\ at' \in [Procs -> Nat \ {0}]
         /\ \A p \in Procs : Busy(p)' => at'[p] <= Len(Program(kind'[p]))
         /\ \A p \in Procs \ S : kind'[p] = kind[p] /\ at'[p] = at[p]
         /\ \A p \in S : IF Last(p) THEN kind'[p] = "idle" /\ at'[p] = 1 ELSE kind'[p] = kind[p] /\ at'[p] = at[p] + 1
<1>1. kind' \in [Procs -> Kinds \cup {"idle"}]
  BY DEF Complete, TypeOK
<1>2. at' \in [Procs -> Nat \ {0}]
  BY DEF Complete, TypeOK
<1>3. \A p \in Procs \ S : kind'[p] = kind[p] /\ at'[p] = at[p]
  BY DEF Complete
<1>4. \A p \in S : IF Last(p) THEN kind'[p] = "idle" /\ at'[p] = 1 ELSE kind'[p] = kind[p] /\ at'[p] = at[p] + 1
  BY DEF Complete
<1>5. ASSUME NEW p \in Procs, Busy(p)'
      PROVE  at'[p] <= Len(Program(kind'[p]))
  <2>1. CASE p \notin S
    <3>1. kind'[p] = kind[p] /\ at'[p] = at[p] /\ Busy(p)
      BY <1>3, <1>5, <2>1 DEF Busy
    <3> QED BY <3>1, BusyShape
  <2>2. CASE p \in S
    <3>1. ~Last(p) /\ kind'[p] = kind[p] /\ at'[p] = at[p] + 1 /\ Busy(p)
      BY <1>4, <1>5, <2>2 DEF Busy
    <3>2. at[p] \in 1..Len(Program(kind[p])) /\ at[p] # Len(Program(kind[p]))
      BY <3>1, BusyShape DEF Last
    <3>3. Len(Program(kind[p])) \in Nat
      BY <3>1, BusyShape
    <3> QED BY <3>1, <3>2, <3>3
  <2> QED BY <2>1, <2>2
<1> QED BY <1>1, <1>2, <1>3, <1>4, <1>5

\* Where an operation leaves the goroutine that completes it.
LEMMA Continues ==
  ASSUME TypeOK, NEW S \in SUBSET Procs, \A q \in S : Busy(q), Complete(S), NEW p \in S,
         \/ NextOp(p) \in {"rlock", "lock", "open"}
         \/ kind[p] = "list" /\ NextOp(p) # "close"
         \/ kind[p] = "reload" /\ at[p] < 8
  PROVE  /\ kind'[p] = kind[p] /\ at'[p] = at[p] + 1 /\ Busy(p)'
         /\ NextOp(p)' = Program(kind[p])[at[p] + 1]
<1>1. /\ kind[p] \in AllKinds /\ at[p] \in 1..Len(Program(kind[p]))
      /\ NextOp(p) = Program(kind[p])[at[p]] /\ Shape(kind[p], at[p])
  BY BusyShape
<1>2. ~Last(p)
  <2>1. CASE NextOp(p) \in {"rlock", "lock", "open"}
    BY <1>1, <2>1 DEF Last, Shape
  <2>2. CASE kind[p] = "list" /\ NextOp(p) # "close"
    BY <1>1, <2>2 DEF Last, Shape
  <2>3. CASE kind[p] = "reload" /\ at[p] < 8
    <3>1. Len(Program(kind[p])) = 8
      BY <1>1, <2>3 DEF Shape
    <3>2. at[p] \in Nat /\ at[p] # 8
      BY <1>1, <2>3, <3>1
    <3> QED BY <3>1, <3>2 DEF Last
  <2> QED BY <2>1, <2>2, <2>3
<1>3. kind'[p] = kind[p] /\ at'[p] = at[p] + 1
  BY <1>2, Completed
<1>4. Busy(p) /\ Busy(p)'
  BY <1>3 DEF Busy
<1> QED BY <1>3, <1>4 DEF NextOp

-----------------------------------------------------------------------------
\* What holding the connection or a side of the mutex says about what a
\* goroutine does next.  Only a listing keeps the connection while it does
\* anything else, and only a reload is inside the write lock doing anything
\* but leaving it.
Reading == \A p \in readers : NextOp(p) = "runlock"
Queued == \A p \in rwait : NextOp(p) = "rlock"
Writing ==
  writer # None => \/ NextOp(writer) \in {"lock", "unlock"}
                   \/ kind[writer] = "reload" /\ at[writer] \in 3..8
Lending ==
  conn # None => \/ NextOp(conn) = "close"
                 \/ /\ kind[conn] = "list" /\ at[conn] > 1
                    /\ NextOp(conn) \in {"rlock", "runlock"}
Resting == \A p \in Procs : ~Busy(p) => at[p] = 1
Holding == TypeOK /\ Resting /\ Reading /\ Queued /\ Writing /\ Lending

LEMMA InitHolding == Init => Holding
BY SizeAssumption DEF Init, Holding, TypeOK, Resting, Reading, Queued, Writing, Lending, Busy

\* A goroutine that nothing happens to stays where it is.
LEMMA Stays ==
  ASSUME NEW p, kind'[p] = kind[p], at'[p] = at[p]
  PROVE  NextOp(p)' = NextOp(p) /\ Busy(p)' = Busy(p)
BY DEF NextOp, Busy

LEMMA Engaged ==
  ASSUME NEW p \in Procs, NextOp(p) # "none"
  PROVE  Busy(p)
BY DEF NextOp

\* The parts of the invariant that speak of goroutines alone.
LEMMA CompletedTyped ==
  ASSUME TypeOK, Resting, NEW S \in SUBSET Procs, \A p \in S : Busy(p), Complete(S),
         conn' \in Procs \cup {None}, readers' \subseteq Procs,
         rwait' \subseteq Procs, writer' \in Procs \cup {None}
  PROVE  /\ TypeOK' /\ Resting'
         /\ \A q \in Procs \ S : /\ kind'[q] = kind[q] /\ at'[q] = at[q]
                                 /\ NextOp(q)' = NextOp(q)
<1>1. TypeOK'
  BY Completed DEF TypeOK
<1>2. \A q \in Procs \ S : kind'[q] = kind[q] /\ at'[q] = at[q] /\ NextOp(q)' = NextOp(q) /\ Busy(q)' = Busy(q)
  BY Completed, Stays
<1>3. \A q \in S : ~Busy(q)' => at'[q] = 1
  BY Completed DEF Busy
<1> QED BY <1>1, <1>2, <1>3 DEF Resting

LEMMA SpawnHolding ==
  ASSUME Holding, NEW p \in Procs, NEW k \in Kinds, Spawn(p, k)
  PROVE  Holding'
<1> USE DEF Holding
<1>1. k \in AllKinds /\ k # "idle" /\ ~Busy(p) /\ NextOp(p) = "none" /\ at[p] = 1
  BY KindsAssumption DEF AllKinds, Spawn, NextOp, Resting
<1>2. kind'[p] = k /\ at' = at /\ UNCHANGED <<conn, readers, rwait, writer>>
  BY DEF Spawn, TypeOK
<1>3. \A q \in Procs \ {p} : kind'[q] = kind[q] /\ NextOp(q)' = NextOp(q) /\ Busy(q)' = Busy(q)
  BY <1>2, Stays DEF Spawn, TypeOK
<1>4. p \notin readers /\ p \notin rwait /\ conn # p /\ writer # p
  <2>1. p \notin readers /\ p \notin rwait
    BY <1>1 DEF Reading, Queued
  <2>2. kind[p] = "idle" /\ p # None
    BY <1>1, SizeAssumption DEF Busy
  <2>3. conn # p
    BY <1>1, <2>2 DEF Lending
  <2>4. writer # p
    BY <1>1, <2>2 DEF Writing
  <2> QED BY <2>1, <2>3, <2>4
<1>5. TypeOK'
  <2>1. \A q \in Procs : Busy(q)' => at'[q] <= Len(Program(kind'[q]))
    <3>1. 1 <= Len(Program(k))
      BY <1>1, ProgramLength
    <3>2. \A q \in Procs \ {p} : Busy(q)' => at'[q] <= Len(Program(kind'[q]))
      BY <1>2, <1>3 DEF TypeOK
    <3> QED BY <1>1, <1>2, <3>1, <3>2
  <2> QED BY <1>2, <2>1 DEF Spawn, TypeOK
<1>6. Resting'
  BY <1>1, <1>2, <1>3 DEF Resting
<1>7. Reading' /\ Queued'
  BY <1>2, <1>3, <1>4 DEF Reading, Queued, TypeOK
<1>8. Writing'
  BY <1>2, <1>3, <1>4 DEF Writing, TypeOK
<1>9. Lending'
  BY <1>2, <1>3, <1>4 DEF Lending, TypeOK
<1> QED BY <1>5, <1>6, <1>7, <1>8, <1>9

LEMMA StepHolding ==
  ASSUME Holding, NEW p \in Procs, Step(p)
  PROVE  Holding'
<1> USE DEF Holding
<1>0. NextOp(p) \in {"open", "close", "rlock", "runlock", "lock", "unlock"}
  BY DEF Step, Open, Close, RLock, RUnlock, Announce, Lock, Unlock
<1>a. Busy(p) /\ p # None
  BY <1>0, Engaged, SizeAssumption
<1>b. /\ kind[p] \in AllKinds /\ at[p] \in 1..Len(Program(kind[p]))
      /\ NextOp(p) = Program(kind[p])[at[p]] /\ Shape(kind[p], at[p])
      /\ Len(Program(kind[p])) \in Nat
  BY <1>a, BusyShape
<1>1. CASE Open(p)
  <2>1. NextOp(p) = "open" /\ conn' = p /\ Complete({p}) /\ UNCHANGED <<readers, rwait, writer>>
    BY <1>1 DEF Open
  <2>2. /\ TypeOK' /\ Resting'
        /\ \A q \in Procs \ {p} : kind'[q] = kind[q] /\ at'[q] = at[q] /\ NextOp(q)' = NextOp(q)
    BY <1>a, <2>1, CompletedTyped DEF TypeOK
  <2>3. p \notin readers /\ p \notin rwait
    BY <2>1 DEF Reading, Queued
  <2>4. Reading' /\ Queued'
    BY <2>1, <2>2, <2>3 DEF Reading, Queued, TypeOK
  <2>5. /\ kind'[p] = kind[p] /\ at'[p] = at[p] + 1
        /\ NextOp(p)' = Program(kind[p])[at[p] + 1]
    BY <1>a, <2>1, Continues
  <2>6. Lending'
    <3>1. CASE kind[p] # "list"
      <4>1. NextOp(p)' = "close"
        BY <1>b, <2>1, <2>5, <3>1 DEF Shape
      <4> QED BY <2>1, <4>1 DEF Lending
    <3>2. CASE kind[p] = "list"
      <4>1. at[p] = 1
        BY <1>b, <2>1, <3>2 DEF Shape
      <4>2. 2 \in 1..Len(Program(kind[p]))
        BY <1>b, <2>1, <4>1 DEF Shape
      <4>3. Program(kind[p])[2] \in {"close", "rlock", "runlock"}
        <5>1. Shape(kind[p], 2)
          BY <1>b, <4>2, ProgramShape
        <5> QED BY <1>b, <3>2, <4>2, <5>1 DEF Shape
      <4> QED BY <2>1, <2>5, <3>2, <4>1, <4>3 DEF Lending
    <3> QED BY <3>1, <3>2
  <2>7. Writing'
    <3>1. CASE writer = p
      <4>1. kind[p] = "reload" /\ at[p] \in 3..8
        BY <1>a, <2>1, <3>1 DEF Writing
      <4>2. at[p] # 8
        BY <1>b, <2>1, <4>1 DEF Shape
      <4> QED BY <2>1, <2>5, <3>1, <4>1, <4>2 DEF Writing
    <3>2. CASE writer # p
      BY <2>1, <2>2, <3>2 DEF Writing, TypeOK
    <3> QED BY <3>1, <3>2
  <2> QED BY <2>2, <2>4, <2>6, <2>7
<1>2. CASE Close(p)
  <2>1. NextOp(p) = "close" /\ conn' = None /\ Complete({p}) /\ UNCHANGED <<readers, rwait, writer>>
    BY <1>2 DEF Close
  <2>2. /\ TypeOK' /\ Resting'
        /\ \A q \in Procs \ {p} : kind'[q] = kind[q] /\ at'[q] = at[q] /\ NextOp(q)' = NextOp(q)
    BY <1>a, <2>1, CompletedTyped DEF TypeOK
  <2>3. p \notin readers /\ p \notin rwait
    BY <2>1 DEF Reading, Queued
  <2>4. Reading' /\ Queued'
    BY <2>1, <2>2, <2>3 DEF Reading, Queued, TypeOK
  <2>5. Lending'
    BY <2>1 DEF Lending
  <2>6. Writing'
    <3>1. CASE writer = p
      <4>1. kind[p] = "reload" /\ at[p] \in 3..8
        BY <1>a, <2>1, <3>1 DEF Writing
      <4>2. at[p] # 8
        BY <1>b, <2>1, <4>1 DEF Shape
      <4>3. kind'[p] = kind[p] /\ at'[p] = at[p] + 1
        BY <1>a, <2>1, <4>1, <4>2, Continues
      <4> QED BY <2>1, <3>1, <4>1, <4>2, <4>3 DEF Writing
    <3>2. CASE writer # p
      BY <2>1, <2>2, <3>2 DEF Writing, TypeOK
    <3> QED BY <3>1, <3>2
  <2> QED BY <2>2, <2>4, <2>5, <2>6
<1>3. CASE RLock(p)
  <2>1. NextOp(p) = "rlock" /\ UNCHANGED <<conn, writer>>
    BY <1>3 DEF RLock
  <2>2. CASE /\ writer = None
             /\ readers' = readers \cup {p} /\ rwait' = rwait
             /\ Complete({p})
    <3>1. /\ TypeOK' /\ Resting'
          /\ \A q \in Procs \ {p} : kind'[q] = kind[q] /\ at'[q] = at[q] /\ NextOp(q)' = NextOp(q)
      BY <1>a, <2>1, <2>2, CompletedTyped DEF TypeOK
    <3>2. /\ kind'[p] = kind[p] /\ at'[p] = at[p] + 1
          /\ NextOp(p)' = Program(kind[p])[at[p] + 1]
      BY <1>a, <2>1, <2>2, Continues
    <3>3. NextOp(p)' = "runlock"
      BY <1>b, <2>1, <3>2 DEF Shape
    <3>4. p \notin rwait
      BY <1>3 DEF RLock
    <3>5. Reading' /\ Queued'
      BY <2>2, <3>1, <3>3, <3>4 DEF Reading, Queued, TypeOK
    <3>6. Writing'
      BY <2>1, <2>2 DEF Writing
    <3>7. Lending'
      <4>1. CASE conn = p
        <5>1. kind[p] = "list" /\ at[p] > 1
          BY <1>a, <2>1, <4>1 DEF Lending
        <5> QED BY <1>b, <2>1, <3>2, <3>3, <4>1, <5>1 DEF Lending
      <4>2. CASE conn # p
        BY <2>1, <3>1, <4>2 DEF Lending, TypeOK
      <4> QED BY <4>1, <4>2
    <3> QED BY <3>1, <3>5, <3>6, <3>7
  <2>3. CASE /\ writer # None
             /\ rwait' = rwait \cup {p}
             /\ UNCHANGED <<kind, at, readers>>
    <3>1. \A q : NextOp(q)' = NextOp(q) /\ Busy(q)' = Busy(q)
      BY <2>3 DEF NextOp, Busy
    <3>2. TypeOK' /\ Resting'
      BY <2>1, <2>3, <3>1 DEF TypeOK, Resting
    <3>3. Reading' /\ Queued' /\ Writing' /\ Lending'
      BY <2>1, <2>3, <3>1 DEF Reading, Queued, Writing, Lending
    <3> QED BY <3>2, <3>3
  <2> QED BY <1>3, <2>2, <2>3 DEF RLock
<1>4. CASE RUnlock(p)
  <2>1. /\ NextOp(p) = "runlock" /\ readers' = readers \ {p} /\ Complete({p})
        /\ UNCHANGED <<conn, rwait, writer>>
    BY <1>4 DEF RUnlock
  <2>2. /\ TypeOK' /\ Resting'
        /\ \A q \in Procs \ {p} : kind'[q] = kind[q] /\ at'[q] = at[q] /\ NextOp(q)' = NextOp(q)
    BY <1>a, <2>1, CompletedTyped DEF TypeOK
  <2>3. p \notin rwait
    BY <2>1 DEF Queued
  <2>4. Reading' /\ Queued'
    BY <2>1, <2>2, <2>3 DEF Reading, Queued, TypeOK
  <2>5. writer # p
    BY <1>a, <1>b, <2>1 DEF Writing, Shape
  <2>6. Writing'
    BY <2>1, <2>2, <2>5 DEF Writing, TypeOK
  <2>7. Lending'
    <3>1. CASE conn = p
      <4>1. kind[p] = "list" /\ at[p] > 1
        BY <1>a, <2>1, <3>1 DEF Lending
      <4>2. /\ kind'[p] = kind[p] /\ at'[p] = at[p] + 1
            /\ NextOp(p)' = Program(kind[p])[at[p] + 1]
        BY <1>a, <2>1, <4>1, Continues
      <4>3. at[p] + 1 \in 2..Len(Program(kind[p]))
        BY <1>b, <2>1, <4>1 DEF Shape
      <4>4. Shape(kind[p], at[p] + 1)
        BY <1>b, <4>3, ProgramShape
      <4>5. NextOp(p)' \in {"close", "rlock", "runlock"}
        BY <4>1, <4>2, <4>3, <4>4 DEF Shape
      <4> QED BY <1>b, <2>1, <3>1, <4>1, <4>2, <4>5 DEF Lending
    <3>2. CASE conn # p
      BY <2>1, <2>2, <3>2 DEF Lending, TypeOK
    <3> QED BY <3>1, <3>2
  <2> QED BY <2>2, <2>4, <2>6, <2>7
<1>5. CASE Announce(p)
  <2>1. NextOp(p) = "lock" /\ writer' = p /\ UNCHANGED <<kind, at, conn, readers, rwait>>
    BY <1>5 DEF Announce
  <2>2. \A q : NextOp(q)' = NextOp(q) /\ Busy(q)' = Busy(q)
    BY <2>1 DEF NextOp, Busy
  <2>3. TypeOK' /\ Resting'
    BY <2>1, <2>2 DEF TypeOK, Resting
  <2>4. Reading' /\ Queued' /\ Writing' /\ Lending'
    BY <2>1, <2>2 DEF Reading, Queued, Writing, Lending
  <2> QED BY <2>3, <2>4
<1>6. CASE Lock(p)
  <2>1. /\ NextOp(p) = "lock" /\ writer = p /\ readers = {} /\ Complete({p})
        /\ UNCHANGED <<conn, readers, rwait, writer>>
    BY <1>6 DEF Lock
  <2>2. /\ TypeOK' /\ Resting'
        /\ \A q \in Procs \ {p} : kind'[q] = kind[q] /\ at'[q] = at[q] /\ NextOp(q)' = NextOp(q)
    BY <1>a, <2>1, CompletedTyped DEF TypeOK
  <2>3. p \notin rwait
    BY <2>1 DEF Queued
  <2>4. Reading' /\ Queued'
    BY <2>1, <2>2, <2>3 DEF Reading, Queued, TypeOK
  <2>5. /\ kind'[p] = kind[p] /\ at'[p] = at[p] + 1
        /\ NextOp(p)' = Program(kind[p])[at[p] + 1]
    BY <1>a, <2>1, Continues
  <2>6. Writing'
    <3>1. CASE kind[p] = "reload"
      <4>1. at[p] = 3
        BY <1>b, <2>1, <3>1 DEF Shape
      <4> QED BY <2>1, <2>5, <3>1, <4>1 DEF Writing
    <3>2. CASE kind[p] # "reload"
      <4>1. NextOp(p)' = "unlock"
        BY <1>b, <2>1, <2>5, <3>2 DEF Shape
      <4> QED BY <2>1, <4>1 DEF Writing
    <3> QED BY <3>1, <3>2
  <2>7. conn # p
    BY <1>a, <2>1 DEF Lending
  <2>8. Lending'
    BY <2>1, <2>2, <2>7 DEF Lending, TypeOK
  <2> QED BY <2>2, <2>4, <2>6, <2>8
<1>7. CASE Unlock(p)
  <2>1. /\ NextOp(p) = "unlock" /\ writer' = None /\ readers' = rwait /\ rwait' = {}
        /\ Complete({p} \cup rwait) /\ conn' = conn
    BY <1>7 DEF Unlock
  <2>2. {p} \cup rwait \in SUBSET Procs /\ \A q \in {p} \cup rwait : Busy(q)
    BY <1>a, Engaged DEF Queued, TypeOK
  <2>3. /\ TypeOK' /\ Resting'
        /\ \A q \in Procs \ ({p} \cup rwait) : kind'[q] = kind[q] /\ at'[q] = at[q] /\ NextOp(q)' = NextOp(q)
    BY <2>1, <2>2, CompletedTyped DEF TypeOK
  <2>4. ASSUME NEW q \in rwait
        PROVE  kind'[q] = kind[q] /\ at'[q] = at[q] + 1 /\ NextOp(q)' = "runlock"
    <3>1. q \in Procs /\ Busy(q) /\ NextOp(q) = "rlock"
      BY <2>2, <2>4 DEF Queued
    <3>2. Shape(kind[q], at[q]) /\ NextOp(q) = Program(kind[q])[at[q]]
      BY <3>1, BusyShape
    <3>3. kind'[q] = kind[q] /\ at'[q] = at[q] + 1 /\ NextOp(q)' = Program(kind[q])[at[q] + 1]
      BY <2>1, <2>2, <2>4, <3>1, Continues
    <3> QED BY <3>1, <3>2, <3>3 DEF Shape
  <2>5. Reading' /\ Queued'
    BY <2>1, <2>4 DEF Reading, Queued
  <2>6. Writing'
    BY <2>1 DEF Writing
  <2>7. conn # p
    BY <1>a, <2>1 DEF Lending
  <2>8. Lending'
    <3>1. ASSUME NEW q \in rwait, conn = q
          PROVE  Lending'
      <4>1. q # None /\ NextOp(q) = "rlock" /\ at[q] \in Nat
        BY <2>2, <3>1, SizeAssumption DEF Queued, TypeOK
      <4>2. kind[q] = "list" /\ at[q] > 1
        BY <3>1, <4>1 DEF Lending
      <4>3. kind'[q] = kind[q] /\ at'[q] = at[q] + 1 /\ NextOp(q)' = "runlock"
        BY <2>4, <3>1
      <4> QED BY <2>1, <3>1, <4>1, <4>2, <4>3 DEF Lending
    <3>2. CASE conn \notin rwait
      BY <2>1, <2>3, <2>7, <3>2 DEF Lending, TypeOK
    <3> QED BY <3>1, <3>2
  <2> QED BY <2>3, <2>5, <2>6, <2>8
<1> QED BY <1>1, <1>2, <1>3, <1>4, <1>5, <1>6, <1>7 DEF Step

LEMMA NextHolding ==
  ASSUME Holding, [Next]_vars
  PROVE  Holding'
<1>1. CASE Next
  BY <1>1, SpawnHolding, StepHolding DEF Next
<1>2. CASE UNCHANGED vars
  BY <1>2 DEF vars, Holding, TypeOK, Resting, Reading, Queued, Writing, Lending,
              NextOp, Busy
<1> QED BY <1>1, <1>2

\* The variables of the lock model have their types, whatever the goroutines
\* are doing and however many there are.
THEOREM LocksTyped == Spec => []TypeOK
<1>1. Init => Holding
  BY InitHolding
<1>2. Holding /\ [Next]_vars => Holding'
  BY NextHolding
<1>3. Holding => TypeOK
  BY DEF Holding
<1> QED BY <1>1, <1>2, <1>3, PTL DEF Spec

-----------------------------------------------------------------------------
\* A goroutine that others wait for waits for nobody, unless a listing and a
\* reload have taken the connection and the mutex in opposite orders.

LEMMA ReadersRun ==
  ASSUME Holding, NEW p \in readers
  PROVE  WaitsFor(p) = {}
<1>1. NextOp(p) = "runlock"
  BY DEF Holding, Reading
<1> QED BY <1>1 DEF WaitsFor

LEMMA BorrowerWaits ==
  ASSUME Holding, conn # None
  PROVE  /\ WaitsFor(conn) \subseteq {writer} \ {None}
         /\ kind[conn] # "list" => WaitsFor(conn) = {}
<1>1. CASE NextOp(conn) = "close"
  BY <1>1 DEF WaitsFor
<1>2. CASE kind[conn] = "list" /\ NextOp(conn) \in {"rlock", "runlock"}
  <2>1. CASE NextOp(conn) = "rlock"
    BY <1>2, <2>1 DEF WaitsFor
  <2>2. CASE NextOp(conn) = "runlock"
    BY <1>2, <2>2 DEF WaitsFor
  <2> QED BY <1>2, <2>1, <2>2
<1> QED BY <1>1, <1>2 DEF Holding, Lending

LEMMA WriterWaits ==
  ASSUME Holding, writer # None
  PROVE  /\ WaitsFor(writer) \subseteq readers \cup ({conn} \ {None})
         /\ kind[writer] # "reload" => WaitsFor(writer) \subseteq readers
<1>1. writer \in Procs
  BY DEF Holding, TypeOK
<1>2. CASE NextOp(writer) \in {"lock", "unlock"}
  <2>1. CASE NextOp(writer) = "lock"
    BY <2>1 DEF WaitsFor
  <2>2. CASE NextOp(writer) = "unlock"
    BY <2>2 DEF WaitsFor
  <2> QED BY <1>2, <2>1, <2>2
<1>3. CASE kind[writer] = "reload"
  <2>1. Busy(writer)
    BY <1>3 DEF Busy
  <2>2. NextOp(writer) \in {"open", "close", "lock", "unlock"}
    BY <1>1, <1>3, <2>1, BusyShape DEF Shape, Holding
  <2>3. CASE NextOp(writer) = "open"
    BY <1>3, <2>3 DEF WaitsFor
  <2>4. CASE NextOp(writer) = "close"
    BY <1>3, <2>4 DEF WaitsFor
  <2> QED BY <1>2, <1>3, <2>2, <2>3, <2>4
<1> QED BY <1>2, <1>3 DEF Holding, Writing

LEMMA HoldersOnly ==
  ASSUME NEW p
  PROVE  WaitsFor(p) \subseteq ({conn, writer} \ {None}) \cup readers
BY DEF WaitsFor

\* A writer that waits for the goroutine with the connection is a reload at a
\* query.
LEMMA WriterAtQuery ==
  ASSUME Holding, writer # None, conn # None, conn \notin readers, conn \in WaitsFor(writer)
  PROVE  kind[writer] = "reload" /\ NextOp(writer) = "open"
<1>1. kind[writer] = "reload"
  BY WriterWaits
<1>2. CASE NextOp(writer) = "lock"
  BY <1>2 DEF WaitsFor
<1>3. CASE NextOp(writer) # "lock"
  <2>1. writer \in Procs /\ Busy(writer)
    BY <1>1 DEF Holding, TypeOK, Busy
  <2>2. NextOp(writer) \in {"open", "close", "unlock"}
    BY <1>1, <1>3, <2>1, BusyShape DEF Shape, Holding
  <2> QED BY <1>1, <2>2 DEF WaitsFor
<1> QED BY <1>1, <1>2, <1>3

LEMMA HoldingIsFree ==
  ASSUME Holding
  PROVE  NoDeadlock
<1> SUFFICES ASSUME NEW S \in SUBSET Procs, S # {},
                    \A p \in S : WaitsFor(p) \cap S # {}
             PROVE  Wedged
  BY DEF NoDeadlock
<1>1. readers \cap S = {}
  BY ReadersRun
<1>2. None \notin S
  BY SizeAssumption
<1>3. conn \in S
  <2>1. writer \in S => conn \in S
    BY <1>1, <1>2, WriterWaits
  <2> QED BY <1>1, <2>1, HoldersOnly
<1>4. writer \in S /\ kind[conn] = "list" /\ WaitsFor(conn) # {}
  BY <1>2, <1>3, BorrowerWaits
<1>5. NextOp(conn) = "rlock"
  BY <1>2, <1>3, <1>4 DEF Holding, Lending, WaitsFor
<1>6. kind[writer] = "reload" /\ NextOp(writer) = "open"
  <2>1. conn \in WaitsFor(writer)
    BY <1>1, <1>2, <1>3, <1>4, WriterWaits
  <2> QED BY <1>1, <1>2, <1>3, <1>4, <2>1, WriterAtQuery
<1> QED BY <1>3, <1>4, <1>5, <1>6 DEF Wedged

\* Whatever the goroutines, only a listing and a reload ever wait for one
\* another for ever.
THEOREM DeadlockFree == Spec => []NoDeadlock
<1>1. Init => Holding
  BY InitHolding
<1>2. Holding /\ [Next]_vars => Holding'
  BY NextHolding
<1>3. Holding => NoDeadlock
  BY HoldingIsFree
<1> QED BY <1>1, <1>2, <1>3, PTL DEF Spec
=============================================================================
