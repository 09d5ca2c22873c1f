------------------------------ MODULE MCPubSub ------------------------------
(* Instances of PubSub for TLC. *)
EXTENDS PubSub, TLC

VideoOnly == [type : {"H264"}, key : BOOLEAN]
AllMedia == MediaKind

Symmetry == Permutations(Pubs) \union Permutations(Subs)

(* Two scenarios in one instance: one publisher and several subscribers, or several publishers
   that read two packets between them and one subscriber. *)
OnePub == \A p, q \in Pubs : ppc[p] # "idle" /\ ppc[q] # "idle" => p = q

Came(s) == spc[s] # "idle" \/ closed[s]

OneSub == \A s, t \in Subs : Came(s) /\ Came(t) => s = t

Scenario == OnePub \/ (OneSub /\ reads <= 2)
=============================================================================
