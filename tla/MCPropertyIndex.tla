--------------------------- MODULE MCPropertyIndex ---------------------------
(* A bounded instance of PropertyIndex for TLC. *)
EXTENDS PropertyIndexInv, TLC

CONSTANTS a, b, c, hash

\* Values with one digest, and one without.
ADigest == [v \in Values |-> IF v = c THEN NoDigest ELSE hash]
Same == Permutations(Ids) \cup Permutations(Values \ {c}) \cup Permutations(Labels)

(***************************************************************************)
(* What a reader builds is its own until it files it, so its steps commute *)
(* with the writer's but for one: filing between the two reads of a clone. *)
(* It is enough that readers build while nothing is staged, and that one   *)
(* with a build to file may do so while the writer clones.                 *)
(***************************************************************************)
Built(r) ==
  job[r].pc = "build" /\ \A id \in live.nodes \ job[r].done : live.value[id] = NoValue
Filing == stage = "cloning" /\ live'.active /\ ~live.active

InTurn ==
  /\ (\E r \in Readers : job'[r] # job[r]) => stage = "none" \/ Filing
  /\ stage = "none" /\ stage' = "cloning" =>
       \A r \in Readers : job[r] = Idle \/ Built(r)
  /\ stage = "cloning" /\ stage' = "open" => \A r \in Readers : job[r] = Idle

NextInTurn == Next /\ InTurn
SpecInTurn == Init /\ [][NextInTurn]_vars
=============================================================================
