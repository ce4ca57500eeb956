------------------------------ MODULE MCTargets ------------------------------
(***************************************************************************)
(* What a Home records of the targets it acts on, for TLC: the reference   *)
(* journal and the settlement of declarations.  A behaviour is of one of   *)
(* them, chosen at the start, in one of its two slices of the bounds:      *)
(*   seal    one pass, seals and refusals, gate and target unchanged       *)
(*   use     two passes, a cut or an edit of the gate, replaced targets    *)
(*   retry   one declaration, with retries and a crash                     *)
(*   repair  two declarations that meet on a target, with neither          *)
(* Others edit only the target the two declarations meet on.               *)
(***************************************************************************)
EXTENDS ReferenceJournal, TargetSettlement

CONSTANTS d1, d2, ma, mb, mc, ta, tb, v1
VARIABLE part

MCMembersOf == (d1 :> <<ma, mb>>) @@ (d2 :> <<mc>>)
MCTargetOf == (ma :> ta) @@ (mb :> tb) @@ (mc :> ta)
MCCumulative == {<<ma, mc>>}
Symmetry == Permutations(Passes) \union Permutations(Sealers)

MCInit ==
  /\ part \in {"seal", "use", "retry", "repair"}
  /\ Init /\ SettlementInit
  /\ part # "use" => gate[1] = v1

Unedited(t) == \A i \in DOMAIN main'[t] : main'[t][i] # None

Slice ==
  CASE part = "seal"   -> edits' = 0 /\ target'.inc = 1
                          /\ Cardinality({w \in Passes : pass'[w] # Idle}) <= 1
    [] part = "use"    -> epoch' + edits' <= 2 /\ refusals' = 0 /\ sealer' = sealer
    [] part = "retry"  -> st'.co[d2] = st.co[d2] /\ Unedited(tb)
    [] part = "repair" -> crashes' = 0 /\ Unedited(tb)
                          /\ \A m \in Members : st'.mem[m].attempts <= 1

MCNext ==
  \/ part \in {"seal", "use"} /\ Next /\ Slice /\ UNCHANGED <<part, settlementVars>>
  \/ part \in {"retry", "repair"} /\ SettlementNext /\ Slice /\ UNCHANGED <<part, vars>>

MCSpec == MCInit /\ [][MCNext]_<<part, vars, settlementVars>>
=============================================================================
