----------------------------- MODULE MCAuthority -----------------------------
(***************************************************************************)
(* Two requests that issue certificates, three authorities they may        *)
(* create, two certificates.                                               *)
(***************************************************************************)
EXTENDS Authority

CONSTANTS r1, r2, ca1, ca2, ca3, l1, l2

MCRequests == {r1, r2}
MCCAs == {ca1, ca2, ca3}
MCLeaves == {l1, l2}
=============================================================================
