------------------------------ MODULE MCDeploy ------------------------------
(* DeployRun: one deployment with its tests and repairs (Deploy.cfg),      *)
(* several with the teardowns between them (Ledger.cfg), and a deployment  *)
(* with a cluster of its own that is torn down (Cluster.cfg).              *)
EXTENDS DeployRun

CONSTANTS MaxDeploys, MaxTests, MaxTeardowns

MCMaxOf == [s \in {"deploy", "test", "teardown"} |->
               CASE s = "deploy" -> MaxDeploys [] s = "test" -> MaxTests [] OTHER -> MaxTeardowns]
=============================================================================
