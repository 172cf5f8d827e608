----------------------------- MODULE MCPipeline -----------------------------
(***************************************************************************)
(* Instances of Pipeline for TLC.                                          *)
(***************************************************************************)
EXTENDS Pipeline, SequencesExt

CONSTANTS a, b  \* rows

\* Up to two full chunks of two rows and a short one.
MCPlaintexts == BoundedSeq({a, b}, 5)

\* At most two policies, with a filter that hides b.
MCPolicies == [permissive : BOOLEAN, selects : BOOLEAN, applies : BOOLEAN,
               qual : {Always, NoQual, {a}}]
MCPolicySets == {{p, q} : p, q \in MCPolicies} \cup {{}}
=============================================================================
