------------------------------ MODULE MCServices ------------------------------
(***************************************************************************)
(* The instances of the services beside the two agents. They share no      *)
(* state, so that one run checks them side by side: a behaviour belongs to *)
(* one service, chosen at its start, and only that one takes steps. In its *)
(* initial state no step of a service that must be taken is enabled, so    *)
(* that the fairness of the others asks nothing of the behaviour.          *)
(***************************************************************************)
EXTENDS AnalysisJobs, RuleExport, SessionStream, Notifications, McpClient,
        LoginLimiter

CONSTANTS k1, k2, k3, ann, bob, sigma, yara, a, bad

\* Ann gets mails and a digest, Bob a digest.
MCRecipient == k1 :> ann @@ k2 :> ann @@ k3 :> bob

\* Of the two rules that the analysis generated one is valid.
MCGenerated == sigma :> a @@ yara :> bad

VARIABLE part

servicesVars == <<part, jobVars, ruleVars, streamVars, notifyVars, mcpVars, loginVars>>

Parts == {"jobs", "rules", "stream", "mail", "mcp", "login"}

Init ==
    /\ part \in Parts
    /\ JobInit /\ RuleInit /\ StreamInit /\ NotifyInit /\ McpInit /\ LoginInit
    /\ text = MCGenerated

\* The services other than p rest.
Rest(p) ==
    /\ part = p /\ UNCHANGED part
    /\ p # "jobs" => UNCHANGED jobVars
    /\ p # "rules" => UNCHANGED ruleVars
    /\ p # "stream" => UNCHANGED streamVars
    /\ p # "mail" => UNCHANGED notifyVars
    /\ p # "mcp" => UNCHANGED mcpVars
    /\ p # "login" => UNCHANGED loginVars

Next ==
    \/ Rest("jobs") /\ JobNext
    \/ Rest("rules") /\ RuleNext
    \/ Rest("stream") /\ StreamNext
    \/ Rest("mail") /\ NotifyNext
    \/ Rest("mcp") /\ McpNext
    \/ Rest("login") /\ LoginNext

Spec ==
    /\ Init /\ [][Next]_servicesVars
    /\ JobFairness /\ StreamFairness /\ NotifyFairness /\ McpFairness
=============================================================================
