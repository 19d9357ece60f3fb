--------------------------- MODULE MCClusterWatch ---------------------------
(* ClusterWatch with mutators that append the client's name, so that a lost *)
(* or repeated update shows.                                                *)
EXTENDS ClusterWatch

Nothing == <<>>
AppendClient(c, v) == Append(v, c)
=============================================================================
