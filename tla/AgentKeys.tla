----------------------------- MODULE AgentKeys -----------------------------
(***************************************************************************)
(* The agent's own account: its identity, the API keys the backend issues  *)
(* to it, and the sealed vault that keeps their secrets.                   *)
(*                                                                         *)
(* The backend returns the secret of a key once. The vault has one slot    *)
(* for a test key and one for a live key, and a pointer to the one in use. *)
(* Operations on the vault run one at a time, in the order they were asked *)
(* for; the tools built from several of them, and from calls to the        *)
(* backend between them, do not.                                           *)
(***************************************************************************)
EXTENDS Credentials, Sequences

VARIABLES
  identity,   \* agent-identity.json: whose key pair it holds
  accounts,   \* the identities the backend has an account for
  minted,     \* the keys issued so far, each with its mode and its account
  revoked,    \* the keys revoked
  vault,      \* agent-credentials.json
  storeKey,   \* the key the server presents
  vaultOp,    \* the chain of vault operations: the calls that have one pending
  arg,        \* what each call works with
  overwritten,    \* keys the vault held and let go
  staleKey        \* a vault operation failed after its write

agentVars == <<identity, accounts, minted, revoked, vault, storeKey, vaultOp, arg,
               overwritten, staleKey>>

Modes == {"test", "live"}
Earlier == 1  \* the identity of an account registered in an earlier session
KeyIds == 1..Len(minted)
NoVault == [test |-> None, live |-> None, active |-> "test"]
VaultExists == vault # NoVault
NoArg == [agent |-> None, mode |-> "test", activate |-> TRUE, key |-> None,
          census |-> {}, loaded |-> NoVault]

Held(v) == {v.test, v.live} \ {None}
ActiveKey(v) == IF v.active = "live" /\ v.live # None THEN v.live ELSE v.test

AgentTypeOK ==
  /\ identity \in Calls \cup {None, Earlier}
  /\ accounts \subseteq Calls \cup {Earlier}
  /\ minted \in Seq([mode: Modes, of: Calls \cup {Earlier}])
  /\ revoked \subseteq KeyIds
  /\ vault \in [test: KeyIds \cup {None}, live: KeyIds \cup {None}, active: Modes]
  /\ storeKey \in KeyIds \cup {None}
  /\ vaultOp \in Seq(Calls)
  /\ overwritten \subseteq KeyIds
  /\ staleKey \in BOOLEAN

\* No account on this machine, or one from an earlier session.
AgentInit(w) ==
  /\ identity = IF w.registered THEN Earlier ELSE None
  /\ accounts = IF w.registered THEN {Earlier} ELSE {}
  /\ minted = IF w.registered
              THEN <<[mode |-> "test", of |-> Earlier], [mode |-> "live", of |-> Earlier]>>
              ELSE <<>>
  /\ vault = IF w.registered THEN [test |-> 1, live |-> 2, active |-> "test"] ELSE NoVault
  /\ storeKey = IF envKey \/ ~VaultExists THEN None ELSE ActiveKey(vault)
  /\ revoked = {} /\ vaultOp = <<>>
  /\ arg = [c \in Calls |-> NoArg]
  /\ overwritten = {} /\ staleKey = FALSE

Fault == faults < MaxFaults /\ faults' = faults + 1
Set(c, field, value) == arg' = [arg EXCEPT ![c][field] = value]

----------------------------------------------------------------------------
\* Opening the identity. Only register_account makes one.

IdentityStored == identity # None

\* No wallet to be paid at, or no operator's code: nothing was asked of anybody.
CannotRegister(c) ==
  /\ kind[c] = "register" /\ pc[c] = "idle" /\ up
  /\ Goto(c, "failed")
  /\ UNCHANGED <<kind, up, envKey, faults, selection, selected, agentVars>>

OpenAgent(c) ==
  /\ kind[c] \in {"register", "upgrade", "create", "revoke"} /\ pc[c] = "idle" /\ up
  /\ \/ /\ IdentityStored
        /\ Set(c, "agent", identity)
        /\ \/ kind[c] = "register" /\ Goto(c, "registering")
           \/ kind[c] = "upgrade" /\ Goto(c, "verifying")
           \/ kind[c] = "create" /\ Goto(c, "choosing")
           \/ kind[c] = "revoke" /\ Goto(c, "confirmed")
     \/ /\ ~IdentityStored
        /\ Goto(c, IF kind[c] = "register" THEN "absent" ELSE "failed")
        /\ UNCHANGED arg
  /\ UNCHANGED <<kind, up, envKey, faults, selection, selected, identity, accounts,
                 minted, revoked, vault, storeKey, vaultOp, overwritten, staleKey>>

\* DepixAgent.create: an identity that appeared meanwhile is not replaced...
CheckIdentity(c) ==
  /\ pc[c] = "absent"
  /\ Goto(c, IF ~IdentityStored THEN "creating" ELSE "failed")
  /\ UNCHANGED <<kind, up, envKey, faults, selection, selected, agentVars>>

\* ... unless it appears between the look and the write.
SaveIdentity(c) ==
  /\ pc[c] = "creating"
  /\ identity' = c
  /\ Set(c, "agent", c)
  /\ Goto(c, "registering")
  /\ UNCHANGED <<kind, up, envKey, faults, selection, selected, accounts, minted,
                 revoked, vault, storeKey, vaultOp, overwritten, staleKey>>

\* POST /api/agents/register issues a test and a live key, once per identity.
\* A lost answer, or a write of the account's name that fails, loses both.
Register(c) ==
  /\ pc[c] = "registering"
  /\ LET a == arg[c].agent IN
     \/ /\ a \notin accounts
        /\ accounts' = accounts \cup {a}
        /\ minted' = minted \o <<[mode |-> "test", of |-> a], [mode |-> "live", of |-> a]>>
        /\ \/ /\ \E m \in Modes :
                   arg' = [arg EXCEPT ![c].key = Len(minted) + 1, ![c].mode = m]
              /\ vaultOp' = Append(vaultOp, c)
              /\ Goto(c, "storing") /\ UNCHANGED faults
           \/ Fault /\ Goto(c, "failed") /\ UNCHANGED <<arg, vaultOp>>
     \/ /\ Goto(c, "failed")
        /\ UNCHANGED <<accounts, minted, arg, vaultOp, faults>>
  /\ UNCHANGED <<kind, up, envKey, selection, selected, identity, revoked, vault,
                 storeKey, overwritten, staleKey>>

----------------------------------------------------------------------------
\* The vault operations. Only the head of the chain runs.

\* Mutant: the operations on the vault overlap.
HoldsAtOnce(c) == vaultOp # <<>>

Holds(c) == vaultOp # <<>> /\ Head(vaultOp) = c
Leave == vaultOp' = Tail(vaultOp)

AskVault(c, where) == vaultOp' = Append(vaultOp, c) /\ Goto(c, where)

\* create_key and verify_domain look at the vault before they mint: one that is
\* missing or does not open would lose the key.
AskKeyState(c) ==
  /\ \/ pc[c] = "verifying" /\ UNCHANGED arg
     \/ /\ pc[c] = "choosing"
        /\ \E m \in Modes, a \in BOOLEAN :
             arg' = [arg EXCEPT ![c].mode = m, ![c].activate = a]
  /\ AskVault(c, "looking")
  /\ UNCHANGED <<kind, up, envKey, faults, selection, selected, identity, accounts,
                 minted, revoked, vault, storeKey, overwritten, staleKey>>

\* The domain is not proved, or the account does not verify: no key is minted.
NotVerified(c) ==
  /\ pc[c] = "verifying"
  /\ Goto(c, "done")
  /\ UNCHANGED <<kind, up, envKey, faults, selection, selected, agentVars>>

KeyState(c) ==
  /\ pc[c] = "looking" /\ Holds(c)
  /\ Leave
  /\ \/ /\ VaultExists
        /\ IF kind[c] = "upgrade"
           THEN Set(c, "mode", vault.active) /\ Goto(c, "counting")
           ELSE Goto(c, "minting") /\ UNCHANGED arg
        /\ UNCHANGED faults
     \/ ~VaultExists /\ Goto(c, "failed") /\ UNCHANGED <<arg, faults>>
     \/ Fault /\ Goto(c, "failed") /\ UNCHANGED arg
  /\ UNCHANGED <<kind, up, envKey, selection, selected, identity, accounts, minted,
                 revoked, vault, storeKey, overwritten, staleKey>>

AskActivate(c) ==
  /\ kind[c] = "activate" /\ pc[c] = "idle" /\ up
  /\ \E m \in Modes : Set(c, "mode", m)
  /\ AskVault(c, "storing")
  /\ UNCHANGED <<kind, up, envKey, faults, selection, selected, identity, accounts,
                 minted, revoked, vault, storeKey, overwritten, staleKey>>

\* replaceKey and activateKey load what is there; persistKeys does not look.
LoadVault(c) ==
  /\ pc[c] = "storing" /\ Holds(c)
  /\ \/ /\ kind[c] = "register" \/ VaultExists
        /\ ~(kind[c] = "activate" /\ arg[c].mode = "live" /\ vault.live = None)
        /\ Set(c, "loaded", vault)
        /\ Goto(c, "writing") /\ UNCHANGED <<vaultOp, faults>>
     \/ /\ \/ kind[c] # "register" /\ ~VaultExists /\ UNCHANGED faults
           \/ kind[c] = "activate" /\ arg[c].mode = "live" /\ vault.live = None /\ UNCHANGED faults
           \/ Fault
        /\ Goto(c, "failed") /\ Leave /\ UNCHANGED arg
  /\ UNCHANGED <<kind, up, envKey, selection, selected, identity, accounts, minted,
                 revoked, vault, storeKey, overwritten, staleKey>>

\* What the operation writes: both keys of a new account, one slot of the vault,
\* or its pointer alone.
NextVault(c) ==
  LET a == arg[c] IN
  CASE kind[c] = "register" -> [test |-> a.key, live |-> a.key + 1, active |-> a.mode]
    [] kind[c] = "activate" -> [a.loaded EXCEPT !.active = a.mode]
    [] OTHER -> [a.loaded EXCEPT ![a.mode] = a.key,
                                 !.active = IF a.activate THEN a.mode ELSE @]

\* store.save: one that fails may have replaced the file.
SaveVault(c) ==
  /\ pc[c] = "writing"
  /\ \/ /\ vault' = NextVault(c)
        /\ Goto(c, "checking") /\ UNCHANGED <<vaultOp, staleKey, faults>>
     \/ /\ Fault
        /\ vault' \in {vault, NextVault(c)}
        /\ staleKey' = (staleKey \/ vault' # vault)
        /\ Goto(c, "failed") /\ Leave
  /\ overwritten' = overwritten \cup (Held(vault) \ Held(vault'))
  /\ UNCHANGED <<kind, up, envKey, selection, selected, identity, accounts, minted,
                 revoked, storeKey, arg>>

\* What the read-back is compared with.
Survived(c) ==
  CASE kind[c] = "register" -> vault.test = arg[c].key
    [] kind[c] = "activate" -> vault.active = arg[c].mode
    [] OTHER -> vault[arg[c].mode] = arg[c].key

\* store.load: the file is read, and then a key is derived to open it. A vault
\* that does not open, or is not the one written, fails the call with the new
\* vault on the disk.
ReadBack(c) ==
  /\ pc[c] = "checking"
  /\ \/ /\ Survived(c)
        /\ Set(c, "loaded", vault)
        /\ Goto(c, "presenting") /\ UNCHANGED <<vaultOp, staleKey, faults>>
     \/ /\ IF Survived(c) THEN Fault ELSE UNCHANGED faults
        /\ staleKey' = TRUE
        /\ Goto(c, "failed") /\ Leave /\ UNCHANGED arg
  /\ UNCHANGED <<kind, up, envKey, selection, selected, identity, accounts, minted,
                 revoked, vault, storeKey, overwritten>>

\* resolver.setActiveKey, with what was read back: the key the server presents
\* from now on.
SetActiveKey(c) ==
  /\ pc[c] = "presenting"
  /\ storeKey' = ActiveKey(arg[c].loaded)
  /\ staleKey' = FALSE
  /\ Leave
  /\ Goto(c, IF kind[c] = "upgrade" THEN "revoking" ELSE "done")
  /\ UNCHANGED <<kind, up, envKey, faults, selection, selected, identity, accounts,
                 minted, revoked, vault, arg, overwritten>>

----------------------------------------------------------------------------
\* The keys of the account.

LiveKeysOf(c) == {k \in KeyIds : /\ minted[k] = [mode |-> arg[c].mode, of |-> arg[c].agent]
                                 /\ k \notin revoked}

\* verify_domain counts the keys of its mode before it mints; the count may fail.
Census(c) ==
  /\ pc[c] = "counting"
  /\ \/ Set(c, "census", LiveKeysOf(c)) /\ UNCHANGED faults
     \/ Fault /\ UNCHANGED arg
  /\ Goto(c, "minting")
  /\ UNCHANGED <<kind, up, envKey, selection, selected, identity, accounts, minted,
                 revoked, vault, storeKey, vaultOp, overwritten, staleKey>>

Mint(c) ==
  /\ pc[c] = "minting"
  /\ \/ /\ minted' = Append(minted, [mode |-> arg[c].mode, of |-> arg[c].agent])
        /\ \/ Set(c, "key", Len(minted) + 1) /\ AskVault(c, "storing") /\ UNCHANGED faults
           \/ Fault /\ Goto(c, "failed") /\ UNCHANGED <<arg, vaultOp>>
     \/ Goto(c, "failed") /\ UNCHANGED <<minted, arg, vaultOp, faults>>
  /\ UNCHANGED <<kind, up, envKey, selection, selected, identity, accounts, revoked,
                 vault, storeKey, overwritten, staleKey>>

\* The superseded key is revoked when it is the only one it can be.
RevokeSuperseded(c) ==
  LET superseded == arg[c].census \ {arg[c].key} IN
  /\ pc[c] = "revoking"
  /\ \/ /\ Cardinality(superseded) = 1
        /\ revoked' = revoked \cup superseded
        /\ UNCHANGED faults
     \/ Cardinality(superseded) # 1 /\ UNCHANGED <<revoked, faults>>
     \/ Cardinality(superseded) = 1 /\ Fault /\ UNCHANGED revoked
  /\ Goto(c, "done")
  /\ UNCHANGED <<kind, up, envKey, selection, selected, identity, accounts, minted,
                 vault, storeKey, vaultOp, arg, overwritten, staleKey>>

\* revoke_key, confirmed: any key of the account, the one in use included.
RevokeKey(c) ==
  /\ pc[c] = "confirmed"
  /\ \/ \E k \in KeyIds : minted[k].of = arg[c].agent /\ revoked' = revoked \cup {k}
     \/ UNCHANGED revoked
  /\ Goto(c, "done")
  /\ UNCHANGED <<kind, up, envKey, faults, selection, selected, identity, accounts,
                 minted, vault, storeKey, vaultOp, arg, overwritten, staleKey>>

\* seedResolverFromStore: an environment key leaves the vault closed.
SeedAgent(opens) ==
  storeKey' = IF envKey \/ ~opens \/ ~VaultExists THEN None ELSE ActiveKey(vault)

AgentNext ==
  \E c \in Calls :
    \/ CannotRegister(c) \/ OpenAgent(c) \/ CheckIdentity(c) \/ SaveIdentity(c) \/ Register(c)
    \/ AskKeyState(c) \/ NotVerified(c) \/ KeyState(c) \/ AskActivate(c)
    \/ LoadVault(c) \/ SaveVault(c) \/ ReadBack(c) \/ SetActiveKey(c)
    \/ Census(c) \/ Mint(c)
    \/ RevokeSuperseded(c) \/ RevokeKey(c)

----------------------------------------------------------------------------
\* "A register_account landing between the two would be written back over with the
\* keys it had just replaced" (agent-deps.ts): a key the vault let go never comes
\* back, in any order the tools interleave, with any write failing.
NoKeyIsWrittenBack == Held(vault) \cap overwritten = {}

\* A vault operation writes, reads back and presents in steps of its own. Once
\* none is between its write and the key it presents, the server presents the key
\* the vault's pointer names, however operations were asked for together: none
\* presents what it read after another has written and presented. A write that
\* could not be verified was reported, and its key is not in use yet; under
\* DEPIX_API_KEY there is nothing from the vault until a tool writes it.
Unpresented == \E c \in Calls : pc[c] \in {"checking", "presenting"}

ServesTheVault ==
  up /\ storeKey # None /\ ~staleKey /\ ~Unpresented => storeKey = ActiveKey(vault)

=============================================================================
