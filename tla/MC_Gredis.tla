------------------------------ MODULE MC_Gredis ------------------------------
(***************************************************************************)
(* Instances of Gredis for TLC.  Two goroutines; group g1's config and    *)
(* the configs given to New differ only in unset or default timeouts, so   *)
(* after New's defaults they share one pool key.                          *)
(***************************************************************************)
EXTENDS Gredis, TLC

\* Goroutines are interchangeable: no step depends on a goroutine's name.
ThreadSymmetry == Permutations(Threads)

MCNoConfig == [host |-> "none", idle |-> 0, life |-> 0]

Cfg(h, i, l) == [host |-> h, idle |-> i, life |-> l]

\* g1 and g2 name the same server, g1 with its timeouts unset; g3 has no
\* configuration.
SharedGroupConfig ==
  [g \in {"g1", "g2", "g3"} |->
     CASE g = "g1" -> Cfg("h1", 0, 0)
       [] g = "g2" -> Cfg("h1", 60, 60)
       [] OTHER    -> MCNoConfig]

SharedNewConfigs == {Cfg("h1", 0, 60), Cfg("h2", 0, 0)}

\* One group only, used through Instance and Close alone.
RaceGroupConfig == [g \in {"g1"} |-> Cfg("h1", 0, 0)]
=============================================================================
