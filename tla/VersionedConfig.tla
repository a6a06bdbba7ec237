---------------------------- MODULE VersionedConfig ----------------------------
(***************************************************************************)
(* What versioned config publication promises, without admins, tables or   *)
(* reloads: one counter of published versions that moves up one at a time, *)
(* and replicas that adopt a version already published. A replica may fall *)
(* back (an overtaken reload, a restart) but never runs ahead.             *)
(***************************************************************************)
EXTENDS Naturals

CONSTANT Replicas

VARIABLES published, adopted

vars == <<published, adopted>>

Init ==
    /\ published = 0
    /\ adopted = [r \in Replicas |-> 0]

Publish ==
    /\ published' = published + 1
    /\ UNCHANGED adopted

Adopt(r) ==
    /\ \E v \in 0 .. published : adopted' = [adopted EXCEPT ![r] = v]
    /\ UNCHANGED published

Next == Publish \/ \E r \in Replicas : Adopt(r)

Spec == Init /\ [][Next]_vars

=============================================================================
