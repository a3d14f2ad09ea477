--------------------------- MODULE MCStatusProber ---------------------------
(* Instances of StatusProber for TLC: how often each event may happen. *)
EXTENDS StatusProber, TLC

LimitsOf(d, s, b, l, c) ==
  [e \in Happenings |->
    CASE e = "podDeleted" -> d [] e = "podStarted" -> s [] e = "watchBroken" -> b
      [] e = "listFails" -> l [] e = "cancel" -> c]

(* Pods and hashes are interchangeable. *)
ProberSymmetry == Permutations(Pods) \cup Permutations(Hashes)

RaceLimits == LimitsOf(1, 0, 1, 0, 0)
SharedLimits == LimitsOf(1, 1, 0, 0, 0)
LivenessLimits == LimitsOf(1, 0, 0, 1, 1)
DeletionLimits == LimitsOf(1, 0, 0, 0, 0)

=============================================================================
