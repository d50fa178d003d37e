---------------------------- MODULE MCMountTable ----------------------------
(***************************************************************************)
(* Small instances of MountTable for TLC, and its mutants.                 *)
(***************************************************************************)
EXTENDS MountTable, TLC

CONSTANTS d1, d2, d3, m1, m2, labelA, labelB

MCTwoDevs == <<d1, d2>>
MCThreeDevs == <<d1, d2, d3>>

\* Both media carry label B; m1 carries label A too (as its UUID, say).
MCTagsOf == (m1 :> {labelA, labelB}) @@ (m2 :> {labelB})

ById(k) == [prefix |-> FALSE, key |-> k]
ByFsId(k) == [prefix |-> TRUE, key |-> k]

MCLabelIds == {ById(labelA), ById(labelB), ByFsId(labelA)}
MCNameIds == {ById(d1), ById(d2), ById(d3)}
MCIds == MCLabelIds \cup MCNameIds

MCTimeouts == {0, 1, Forever}

(***************************************************************************)
(* Three instances in one run.                                             *)
(*   "swap": two drives that change media, looked up by label.             *)
(*   "keys": two drives that come and go, and two keys.                    *)
(*   "unmount": three drives that come and go, looked up by name.          *)
(***************************************************************************)
VARIABLE part

Asked == id # NoId

Part ==
    CASE part = "swap" ->
           /\ drive[d3] = Absent
           /\ tty = <<>>
           /\ Asked => id \in MCLabelIds /\ (pc = "scan" => left # 0)
      [] part = "keys" ->
           /\ drive[d3] = Absent /\ m2 \notin {drive[d1], drive[d2]}
           /\ Asked => id = ById(labelA) /\ (pc = "scan" => left # 0)
      [] part = "unmount" ->
           /\ \A d \in Dev : drive[d] \in {m1, Absent}
           /\ tty = <<>>
           /\ Asked => id \in MCNameIds /\ left = 0

MCInit == part \in {"swap", "keys", "unmount"} /\ Init /\ Part

MCNext == Next /\ UNCHANGED part /\ Part'

MCSpec == MCInit /\ [][MCNext]_<<vars, part>> /\ Fairness
=============================================================================
