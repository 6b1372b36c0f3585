----------------------------- MODULE MCVaultBoot ----------------------------
(* Two clusters for VaultBoot, and the ways a configuration can use Vault. *)
EXTENDS VaultBoot

CONSTANTS dc1, dc2

Cfg(v, m) == [vault |-> v, mesh |-> m]

PrimaryFirst == <<dc1, dc2>>

\* No Vault, a CA in Vault for one cluster or for the other, and a mesh CA
\* without Vault.
Uses ==
    {Cfg(FALSE, {}), Cfg(TRUE, {dc1}), Cfg(TRUE, {dc2}), Cfg(FALSE, {dc1})}
=============================================================================
