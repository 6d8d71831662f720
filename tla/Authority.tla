------------------------------ MODULE Authority ------------------------------
(***************************************************************************)
(* The built-in certificate authority.  It exists as two settings, the     *)
(* certificate and the sealed key, and as a row of certificates.  Whoever  *)
(* issues a certificate loads it; who finds a setting missing creates a    *)
(* new authority and stores it, in three statements outside a transaction. *)
(* Several requests may do so at once, and the process may stop between    *)
(* two statements.                                                         *)
(*                                                                         *)
(* An authority is a model value; a setting holds the authority whose      *)
(* certificate or key it is.  One action is one statement with the code up *)
(* to the next.  The vault's own key stays the same, so what it sealed it  *)
(* opens; the seed's certificates, which nobody signed, are left out.      *)
(***************************************************************************)
EXTENDS FiniteSets

CONSTANTS
  Requests,  \* issueCert requests at work at the same time
  CAs,       \* authorities that NewCA can create (a bound)
  Leaves,    \* ids that NewID can give to issued certificates (a bound)
  None

ASSUME ValuesAssumption == None \notin CAs

VARIABLES
  caCert,   \* setting ca_cert_pem
  caKey,    \* setting ca_key_enc
  created,  \* authorities created so far
  listed,   \* authorities with a row of kind 'ca' in certificates
  leaf,     \* rows of the other kinds: "fresh" and "gone" are no row
  signer,   \* who signed each issued certificate
  pc,       \* the statement each request comes to
  cert,     \* the certificate of the authority it has read or created
  key,      \* the key of it
  raced     \* whether two requests have ever created an authority together

vars == <<caCert, caKey, created, listed, leaf, signer, pc, cert, key, raced>>
table == <<listed, leaf, signer>>

Init ==
  /\ caCert = None /\ caKey = None
  /\ created = {}
  /\ listed = {}
  /\ leaf = [l \in Leaves |-> "fresh"]
  /\ signer = [l \in Leaves |-> None]
  /\ pc = [r \in Requests |-> "idle"]
  /\ cert = [r \in Requests |-> None]
  /\ key = [r \in Requests |-> None]
  /\ raced = FALSE

\* The request knows that a setting is missing, and has not stored both yet.
Creating(r) ==
  \/ pc[r] = "readKey" /\ cert[r] = None
  \/ pc[r] \in {"create", "writeKey"}

Race == \E q, r \in Requests : q # r /\ Creating(q) /\ Creating(r)

-----------------------------------------------------------------------------
\* loadCA

ReadCert(r) ==
  /\ pc[r] = "idle"
  /\ cert' = [cert EXCEPT ![r] = caCert]
  /\ pc' = [pc EXCEPT ![r] = "readKey"]
  /\ UNCHANGED <<caCert, caKey, created, key>> /\ UNCHANGED table

\* A bug to find: an authority without a row, after a reset, is created anew.
ReadKeyBug(r) ==
  /\ pc[r] = "readKey"
  /\ key' = [key EXCEPT ![r] = caKey]
  /\ pc' = [pc EXCEPT ![r] = IF None \in {cert[r], caKey} \/ listed = {}
                              THEN "create" ELSE "issue"]
  /\ UNCHANGED <<caCert, caKey, created, cert>> /\ UNCHANGED table

\* With both settings the authority is loaded: nobody compares the two.
ReadKey(r) ==
  /\ pc[r] = "readKey"
  /\ key' = [key EXCEPT ![r] = caKey]
  /\ pc' = [pc EXCEPT ![r] = IF None \in {cert[r], caKey} THEN "create" ELSE "issue"]
  /\ UNCHANGED <<caCert, caKey, created, cert>> /\ UNCHANGED table

\* A bug to find: an authority whose key is missing keeps its certificate.
WriteCertBug(r) ==
  /\ pc[r] = "create"
  /\ \E ca \in CAs \ created :
       /\ caCert' = IF cert[r] = None THEN ca ELSE cert[r]
       /\ cert' = [cert EXCEPT ![r] = caCert']
       /\ key' = [key EXCEPT ![r] = ca]
       /\ created' = created \cup {ca}
  /\ pc' = [pc EXCEPT ![r] = "writeKey"]
  /\ UNCHANGED caKey /\ UNCHANGED table

\* NewCA, KeyPEM and the vault touch nothing that is shared.
WriteCert(r) ==
  /\ pc[r] = "create"
  /\ \E ca \in CAs \ created :
       /\ caCert' = ca
       /\ cert' = [cert EXCEPT ![r] = ca]
       /\ key' = [key EXCEPT ![r] = ca]
       /\ created' = created \cup {ca}
  /\ pc' = [pc EXCEPT ![r] = "writeKey"]
  /\ UNCHANGED caKey /\ UNCHANGED table

WriteKey(r) ==
  /\ pc[r] = "writeKey"
  /\ caKey' = key[r]
  /\ pc' = [pc EXCEPT ![r] = "writeRow"]
  /\ UNCHANGED <<caCert, created, cert, key>> /\ UNCHANGED table

WriteRow(r) ==
  /\ pc[r] = "writeRow"
  /\ listed' = listed \cup {cert[r]}
  /\ pc' = [pc EXCEPT ![r] = "issue"]
  /\ UNCHANGED <<caCert, caKey, created, leaf, signer, cert, key>>

-----------------------------------------------------------------------------
\* issueCert: x509.CreateCertificate refuses a key that is not the parent's,
\* and the request fails; otherwise the leaf gets its row.
Issue(r) ==
  /\ pc[r] = "issue"
  /\ IF cert[r] = key[r]
     THEN \E l \in Leaves :
            /\ leaf[l] = "fresh"
            /\ leaf' = [leaf EXCEPT ![l] = "valid"]
            /\ signer' = [signer EXCEPT ![l] = cert[r]]
     ELSE UNCHANGED <<leaf, signer>>
  /\ pc' = [pc EXCEPT ![r] = "idle"]
  /\ cert' = [cert EXCEPT ![r] = None]
  /\ key' = [key EXCEPT ![r] = None]
  /\ UNCHANGED <<caCert, caKey, created, listed>>

settings == <<caCert, caKey, created, pc, cert, key>>
HasRow(l) == leaf[l] \in {"valid", "revoked"}

RevokeCert(l) ==
  /\ HasRow(l)
  /\ leaf' = [leaf EXCEPT ![l] = "revoked"]
  /\ UNCHANGED <<listed, signer>> /\ UNCHANGED settings

DeleteCert(l) ==
  /\ HasRow(l)
  /\ leaf' = [leaf EXCEPT ![l] = "gone"]
  /\ UNCHANGED <<listed, signer>> /\ UNCHANGED settings

\* A bug to find: ids are numbered, and start over with the table.
ResetEstateBug ==
  /\ listed' = {}
  /\ leaf' = [l \in Leaves |-> "fresh"]
  /\ UNCHANGED signer /\ UNCHANGED settings

\* resetEstate: DELETE FROM certificates; the settings stay.
ResetEstate ==
  /\ listed' = {}
  /\ leaf' = [l \in Leaves |-> IF HasRow(l) THEN "gone" ELSE leaf[l]]
  /\ UNCHANGED signer /\ UNCHANGED settings

\* The process stops and starts again.
Restart ==
  /\ pc' = [r \in Requests |-> "idle"]
  /\ cert' = [r \in Requests |-> None]
  /\ key' = [r \in Requests |-> None]
  /\ UNCHANGED <<caCert, caKey, created>> /\ UNCHANGED table

Step(r) ==
  \/ ReadCert(r) \/ ReadKey(r) \/ WriteCert(r) \/ WriteKey(r) \/ WriteRow(r) \/ Issue(r)

Next ==
  /\ \/ \E r \in Requests : Step(r)
     \/ \E l \in Leaves : RevokeCert(l) \/ DeleteCert(l)
     \/ ResetEstate
     \/ Restart
  /\ raced' = (raced \/ Race')

Spec == Init /\ [][Next]_vars

-----------------------------------------------------------------------------
\* Every variable keeps its type; exactly the ids that were given to a
\* certificate have a signer; who stores an authority or signs has one.
TypeOK ==
  /\ caCert \in CAs \cup {None}
  /\ caKey \in CAs \cup {None}
  /\ created \subseteq CAs
  /\ listed \subseteq CAs
  /\ leaf \in [Leaves -> {"fresh", "valid", "revoked", "gone"}]
  /\ signer \in [Leaves -> CAs \cup {None}]
  /\ \A l \in Leaves : leaf[l] = "fresh" <=> signer[l] = None
  /\ pc \in [Requests -> {"idle", "readKey", "create", "writeKey", "writeRow", "issue"}]
  /\ cert \in [Requests -> CAs \cup {None}]
  /\ key \in [Requests -> CAs \cup {None}]
  /\ \A r \in Requests :
       pc[r] \in {"writeKey", "writeRow", "issue"} => None \notin {cert[r], key[r]}
  /\ raced \in BOOLEAN

\* Both settings are there, and nobody is about to replace them.
Settled ==
  /\ caCert # None /\ caKey # None
  /\ \A r \in Requests : ~Creating(r)

\* Unless two requests create the authority together, everything ever signed
\* was signed by the authority that is stored, whatever crash came between the
\* two settings; the stored halves belong together, and no other is listed.
OneAuthority ==
  ~raced =>
    /\ caKey # None => caCert = caKey
    /\ \A l \in Leaves : signer[l] # None => signer[l] = caKey
    /\ listed \subseteq {caCert}

\* loadCA "returns the persistent CA": once stored and left alone by those
\* who are creating it, it stays, over resets, restarts and reloads.
CAPersists == [][Settled => Settled' /\ UNCHANGED <<caCert, caKey>>]_vars

\* The test of package pki asserts that a reloaded CA can issue.  Refuted: the
\* first two requests may store one's certificate with the other's key.
ReloadedCAIssues == Settled => caCert = caKey
=============================================================================
