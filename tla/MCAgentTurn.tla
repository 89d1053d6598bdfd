------------------------------ MODULE MCAgentTurn ------------------------------
(* AgentTurn for TLC: a post whose words name two domains, and a top-up    *)
(* without an amount whose author selected two agents and two tools.       *)
EXTENDS AgentTurn

MCGoals ==
    {[kind |-> "post", words |-> {"service", "community"}, agents |-> <<>>,
      tools |-> {}],
     [kind |-> "bare_topup", words |-> {}, agents |-> <<"service", "community">>,
      tools |-> {"topup", "search"}]}
MCSuggested == {"service", "community"}
MCOffered ==
    {Silent("succeeded"), Silent("failed"), Asking({"amount"}),
     Answer("succeeded", "topup", "good", {}), Answer("succeeded", "topup", "bad", {}),
     Answer("partial", "balance", "good", {}), Answer("succeeded", "search", "alias", {}),
     Answer("failed", "post", "good", {}), Answer("succeeded", "unknown", "good", {})}
MCReplies == {"room", "topup", "other"}
MCMisses == {{}, {"amount"}}
MCPermitted == Tools \ {"audit"}
================================================================================
