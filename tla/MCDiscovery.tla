----------------------------- MODULE MCDiscovery -----------------------------
(***************************************************************************)
(* Values of the constants of Discovery for TLC.                           *)
(***************************************************************************)
EXTENDS Discovery

Chain(name, id, method, systemConfig, timeout) ==
    [networkName |-> name, chainID |-> id,
     contracts |-> [method |-> method, systemConfig |-> systemConfig,
                    portal |-> "none", cacheTimeout |-> timeout]]

\* Three specifications that share a key, with different methods and timeouts,
\* one of another chain of the same name, and one that never resolves.
MCSpecs ==
    {Chain("op-sepolia", 11155420, "well-known", "none", 0),
     Chain("op-sepolia", 11155420, "manual", "0xaa", 1),
     Chain("op-sepolia", 11155420, "auto", "0xcc", 3),
     Chain("op-sepolia", 901, "manual", "0xbb", 1),
     Chain("devnet", 901, "auto", "none", 0)}

MCAddresses == {"0xaa", "0xbb", "0xcc"}
=============================================================================
