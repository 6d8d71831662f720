--------------------------- MODULE AuthorityProofs ---------------------------
(***************************************************************************)
(* For any number of requests and certificates: the authority, once        *)
(* stored, stays; and unless two requests create it together, it is the    *)
(* one that signed everything.                                             *)
(***************************************************************************)
EXTENDS Authority, TLAPS

LEMMA TypeInit == Init => TypeOK
BY DEF Init, TypeOK

LEMMA TypeStep == TypeOK /\ [Next]_vars => TypeOK'
<1> SUFFICES ASSUME TypeOK, [Next]_vars PROVE TypeOK'
  OBVIOUS
<1> USE ValuesAssumption DEF TypeOK, table, settings
<1>1. CASE UNCHANGED vars
  BY <1>1 DEF vars
<1>2. ASSUME Next PROVE raced' \in BOOLEAN
  BY <1>2 DEF Next
<1>3. ASSUME NEW r \in Requests, Step(r), raced' \in BOOLEAN PROVE TypeOK'
  <2>1. CASE ReadCert(r)
    BY <1>3, <2>1 DEF ReadCert
  <2>2. CASE ReadKey(r)
    BY <1>3, <2>2 DEF ReadKey
  <2>3. CASE WriteCert(r)
    BY <1>3, <2>3 DEF WriteCert
  <2>4. CASE WriteKey(r)
    BY <1>3, <2>4 DEF WriteKey
  <2>5. CASE WriteRow(r)
    BY <1>3, <2>5 DEF WriteRow
  <2>6. CASE Issue(r)
    BY <1>3, <2>6 DEF Issue
  <2> QED
    BY <1>3, <2>1, <2>2, <2>3, <2>4, <2>5, <2>6 DEF Step
<1>4. ASSUME NEW l \in Leaves, RevokeCert(l) \/ DeleteCert(l), raced' \in BOOLEAN PROVE TypeOK'
  BY <1>4 DEF RevokeCert, DeleteCert, HasRow
<1>5. ASSUME ResetEstate, raced' \in BOOLEAN PROVE TypeOK'
  BY <1>5 DEF ResetEstate, HasRow
<1>6. ASSUME Restart, raced' \in BOOLEAN PROVE TypeOK'
  BY <1>6 DEF Restart
<1> QED
  BY <1>1, <1>2, <1>3, <1>4, <1>5, <1>6 DEF Next

\* Every variable keeps its type.
THEOREM AuthorityTyped == Spec => []TypeOK
<1> QED
  BY TypeInit, TypeStep, PTL DEF Spec

-----------------------------------------------------------------------------
\* Without a race: who creates the authority is alone and finds no key; the
\* certificate it has written is the stored one; who has stored both, or
\* loaded both, holds the stored key; nothing is listed before its key is stored.
Lone ==
  ~raced =>
    /\ ~Race
    /\ caKey = None => listed = {}
    /\ \A r \in Requests :
         /\ Creating(r) => caKey = None
         /\ pc[r] = "writeKey" => cert[r] = key[r] /\ caCert = key[r] /\ key[r] # None
         /\ pc[r] = "writeRow" => cert[r] = key[r] /\ caKey = key[r] /\ key[r] # None
         /\ pc[r] = "issue" => key[r] = caKey /\ caKey # None

Inv == TypeOK /\ Lone /\ OneAuthority

LEMMA InvInit == Init => Inv
BY TypeInit DEF Init, Inv, Lone, OneAuthority, Race, Creating

\* Only requests that create the authority replace the stored one.
LEMMA InvRequest ==
  ASSUME Inv, TypeOK', NEW r \in Requests, Step(r), raced' = (raced \/ Race')
  PROVE  Lone' /\ OneAuthority'
<1> SUFFICES ASSUME ~raced' PROVE Lone' /\ OneAuthority'
  BY DEF Lone, OneAuthority
<1>1. ~raced /\ ~Race /\ ~Race'
  BY DEF Inv, Lone
<1> USE <1>1 DEF Inv, TypeOK, Lone, OneAuthority, Creating, Race, table
<1>2. CASE ReadCert(r)
  BY <1>2 DEF ReadCert
<1>3. CASE ReadKey(r)
  BY <1>3 DEF ReadKey
<1>4. CASE WriteCert(r)
  <2>1. caKey = None /\ Creating(r) /\ \A q \in Requests : q # r => ~Creating(q)
    BY <1>4 DEF WriteCert
  <2>2. PICK ca \in CAs \ created :
          /\ caCert' = ca
          /\ cert' = [cert EXCEPT ![r] = ca]
          /\ key' = [key EXCEPT ![r] = ca]
    BY <1>4 DEF WriteCert
  <2>3. pc' = [pc EXCEPT ![r] = "writeKey"] /\ caKey' = caKey
        /\ listed' = listed /\ signer' = signer
    BY <1>4 DEF WriteCert
  <2>4. \A q \in Requests : q # r => ~Creating(q)' /\ pc[q] \notin {"writeKey", "writeRow", "issue"}
    BY <2>1, <2>2, <2>3
  <2> QED
    BY <2>1, <2>2, <2>3, <2>4, ValuesAssumption
<1>5. CASE WriteKey(r)
  BY <1>5 DEF WriteKey
<1>6. CASE WriteRow(r)
  BY <1>6 DEF WriteRow
<1>7. CASE Issue(r)
  BY <1>7 DEF Issue
<1> QED
  BY <1>2, <1>3, <1>4, <1>5, <1>6, <1>7 DEF Step

LEMMA InvStep == Inv /\ [Next]_vars => Inv'
<1> SUFFICES ASSUME Inv, [Next]_vars PROVE Inv'
  OBVIOUS
<1>1. TypeOK'
  BY TypeStep DEF Inv
<1>2. CASE UNCHANGED vars
  BY <1>1, <1>2 DEF vars, Inv, Lone, OneAuthority, Creating, Race
<1>3. ASSUME NEW r \in Requests, Step(r), raced' = (raced \/ Race') PROVE Inv'
  BY <1>1, <1>3, InvRequest DEF Inv
<1>4. ASSUME \E l \in Leaves : RevokeCert(l) \/ DeleteCert(l), raced' = (raced \/ Race') PROVE Inv'
  BY <1>1, <1>4 DEF RevokeCert, DeleteCert, settings, Inv, Lone, OneAuthority, Creating, Race
<1>5. ASSUME ResetEstate, raced' = (raced \/ Race') PROVE Inv'
  BY <1>1, <1>5 DEF ResetEstate, settings, Inv, Lone, OneAuthority, Creating, Race
<1>6. ASSUME Restart, raced' = (raced \/ Race') PROVE Inv'
  BY <1>1, <1>6 DEF Restart, table, Inv, TypeOK, Lone, OneAuthority, Creating, Race
<1> QED
  BY <1>2, <1>3, <1>4, <1>5, <1>6 DEF Next

\* Unless two requests create the authority together, one authority signed
\* everything, crashes between its two settings included.
THEOREM SignedByOne == Spec => []OneAuthority
<1>1. Inv => OneAuthority
  BY DEF Inv
<1> QED
  BY <1>1, InvInit, InvStep, PTL DEF Spec

-----------------------------------------------------------------------------
\* loadCA: an authority that is stored and left alone is never replaced.
THEOREM CAStays == Spec => CAPersists
<1>1. TypeOK /\ [Next]_vars => [Settled => Settled' /\ UNCHANGED <<caCert, caKey>>]_vars
  <2> SUFFICES ASSUME TypeOK, Next, Settled
               PROVE  Settled' /\ UNCHANGED <<caCert, caKey>>
    OBVIOUS
  <2> USE DEF TypeOK, Settled, Creating, table, settings
  <2>1. ASSUME NEW r \in Requests, Step(r) PROVE Settled' /\ UNCHANGED <<caCert, caKey>>
    <3>1. CASE ReadCert(r)
      BY <3>1 DEF ReadCert
    <3>2. CASE ReadKey(r)
      BY <3>2 DEF ReadKey
    <3>3. CASE WriteCert(r) \/ WriteKey(r)
      BY <3>3 DEF WriteCert, WriteKey
    <3>4. CASE WriteRow(r)
      BY <3>4 DEF WriteRow
    <3>5. CASE Issue(r)
      BY <3>5 DEF Issue
    <3> QED
      BY <2>1, <3>1, <3>2, <3>3, <3>4, <3>5 DEF Step
  <2>2. CASE \E l \in Leaves : RevokeCert(l) \/ DeleteCert(l)
    BY <2>2 DEF RevokeCert, DeleteCert
  <2>3. CASE ResetEstate
    BY <2>3 DEF ResetEstate
  <2>4. CASE Restart
    BY <2>4 DEF Restart
  <2> QED
    BY <2>1, <2>2, <2>3, <2>4 DEF Next
<1> QED
  BY <1>1, AuthorityTyped, PTL DEF Spec, CAPersists
=============================================================================
