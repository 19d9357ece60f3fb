----------------------------- MODULE MCBootstrap -----------------------------
(* Instances of Bootstrap: which agents there are and what they share.      *)
EXTENDS Bootstrap

\* Two agents of v1 that add their capabilities to one cluster with one token.
SameToken == {[id |-> "c1", token |-> "t1", cap |-> "metrics"],
              [id |-> "c1", token |-> "t1", cap |-> "logging"]}

\* Both agent versions and two tokens for one cluster, one of them made for joining it.
MixedTokens == {[id |-> "c1", token |-> "t1", cap |-> "metrics"],
                [id |-> "c1", token |-> "t2", cap |-> "logging"],
                [id |-> "c1", token |-> "t1", cap |-> "none"]}
SecondJoins == [t \in {"t1", "t2"} |-> IF t = "t2" THEN {"c1"} ELSE {}]

\* An agent of v2 alone, and beside a cluster of v1 agents.
OneAgent == {[id |-> "c1", token |-> "t1", cap |-> "none"]}
SameTokenAndV2 == SameToken \cup {[id |-> "c2", token |-> "t1", cap |-> "none"]}

\* Tokens created without capabilities.
NoneJoins == [t \in Tokens |-> {}]
=============================================================================
