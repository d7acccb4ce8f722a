--------------------------------- MODULE MCHub ---------------------------------
(* Instance for TLC of the parts of the desktop's backend that share no state. *)
(* Each is explored by itself: part says which one moves.                      *)
EXTENDS Vault, ItermBridge, Doorbell, AgentLog, HubFiles, Sampler

VARIABLE part

hubVars == <<vaultVars, itermVars, doorbellVars, agentVars, fileVars, samplerVars, part>>

InVault(A) == part = "vault" /\ A /\ UNCHANGED
  <<itermVars, doorbellVars, agentVars, fileVars, samplerVars, part>>
InIterm(A) == part = "iterm" /\ A /\ UNCHANGED
  <<vaultVars, doorbellVars, agentVars, fileVars, samplerVars, part>>
InDoorbell(A) == part = "doorbell" /\ A /\ UNCHANGED
  <<vaultVars, itermVars, agentVars, fileVars, samplerVars, part>>
InAgentLog(A) == part = "agent log" /\ A /\ UNCHANGED
  <<vaultVars, itermVars, doorbellVars, fileVars, samplerVars, part>>
InFiles(A) == part = "files" /\ A /\ UNCHANGED
  <<vaultVars, itermVars, doorbellVars, agentVars, samplerVars, part>>
InSampler(A) == part = "sampler" /\ A /\ UNCHANGED
  <<vaultVars, itermVars, doorbellVars, agentVars, fileVars, part>>

HubInit ==
  /\ part \in {"vault", "iterm", "doorbell", "agent log", "files", "sampler"}
  /\ VaultInit /\ ItermInit /\ DoorbellInit /\ AgentInit /\ FilesInit /\ SamplerInit
  /\ part # "doorbell" => view = "silent"

HubNext ==
  \/ InVault(VaultNext) \/ InIterm(ItermNext) \/ InDoorbell(DoorbellNext)
  \/ InAgentLog(AgentNext) \/ InFiles(FilesNext) \/ InSampler(SamplerNext)

\* Each part with the fairness it has by itself.
HubSpec ==
  /\ HubInit /\ [][HubNext]_hubVars
  /\ WF_hubVars(InDoorbell(DoorbellTask)) /\ WF_hubVars(InDoorbell(DoorbellThread))
  /\ WF_hubVars(InDoorbell(KeeperPushes))
  /\ WF_hubVars(InSampler(CollectorRuns)) /\ WF_hubVars(InSampler(HubTakes))
================================================================================
