----------------------------- MODULE MCNodeRuntime -----------------------------
EXTENDS NodeRuntime, TLC

\* Two voters; the runtime's own member is not the one that start elects.
MCPeers == { 1 :> "Voter" @@ 2 :> "Voter" }

MCPayload == {"small"}
MCBytes   == [p \in MCPayload |-> 1]
================================================================================
