------------------------------ MODULE MCEngine ------------------------------
(***************************************************************************)
(* Instances of Engine for TLC: each constant below bounds one slice.      *)
(***************************************************************************)
EXTENDS EngineProperties

Counts(e, o, c, v, r, g) ==
  [kind \in Kinds |->
     CASE kind = "entity" -> e [] kind = "observation" -> o
       [] kind = "claim" -> c [] kind = "evidence" -> v
       [] kind = "relation" -> r [] kind = "gap" -> g]

SharingBound   == Counts(2, 0, 3, 1, 0, 2)
LifecycleBound == Counts(1, 0, 2, 2, 0, 1)
RegistryBound  == Counts(2, 1, 1, 1, 1, 1)
OneClaimBound  == Counts(1, 0, 1, 2, 0, 1)

BothVersions == RuleKeys
=============================================================================
