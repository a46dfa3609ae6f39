------------------------------ MODULE MCQosStore ------------------------------
(***************************************************************************)
(* Two files.  Documents: a profile and one derived from it; the same with *)
(* base_name written before name; a base that does not exist, which does   *)
(* not load; the derived one's name on a plain profile, and not the base.  *)
(* Snippets: with and without a name, derived in either order of the       *)
(* attributes, and no profile at all.                                      *)
(***************************************************************************)
EXTENDS QosStore

CONSTANTS f1, f2, L, P, Q, b1, b2, b3

MCFileOrder == <<f1, f2>>

Name(n) == [kind |-> "name", value |-> n]
Base(n) == [kind |-> "base", value |-> n]
Prof(attrs, body) == [attrs |-> attrs, body |-> body]
Plain   == Prof(<<Name(P)>>, b1)
Derived == Prof(<<Name(Q), Base(P)>>, b1)

MCDocument == {
    L :> <<Prof(<<Name(P)>>, b2), Derived>>,
    L :> <<Plain, Prof(<<Base(P), Name(Q)>>, b2)>>,
    L :> <<Derived>>,
    L :> <<Prof(<<Name(Q)>>, b2)>> }

MCSnippet == {
    Prof(<<Name(P)>>, b3), Prof(<< >>, b2),
    Prof(<<Name(Q), Base(P)>>, b3), Prof(<<Base(P), Name(Q)>>, b3), None }
===============================================================================
