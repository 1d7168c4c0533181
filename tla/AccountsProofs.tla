--------------------------- MODULE AccountsProofs ---------------------------
(***************************************************************************)
(* Proofs about Accounts, for any number of calls on any machine, with any *)
(* number of faults and any bound on attempts: a request without an        *)
(* idempotency key takes effect at most once, the server presents the key  *)
(* its vault names, no tool writes back a key another one replaced, and a  *)
(* spent refresh token is presented only if its successor was lost.        *)
(*                                                                         *)
(* The first is inductive or nearly so.  The second and the third rest on  *)
(* the chain of vault operations: the call that writes, or presents a key, *)
(* is the head of the chain, and what it read is still what the vault      *)
(* holds.  The fourth rests on the gate: while one renewal is in flight    *)
(* nobody else can spend a token of its login, since the tokens commands   *)
(* have yet to save are of others.  The same gate forgets nobody: who      *)
(* awaits a renewal is among those the one in flight will tell, and was    *)
(* sent within its attempts (RenewalFits).  The types come last: they rest *)
(* on all three, since which tokens and keys there are grows with the      *)
(* logins made and the keys minted.                                        *)
(***************************************************************************)
EXTENDS Accounts, TLAPS

----------------------------------------------------------------------------
\* A request that may still be sent has not taken effect, if it cannot be repeated.
MayBeSent == {"idle", "sending", "renewing"}

Unspent ==
  /\ effects \in [Calls -> Nat]
  /\ DOMAIN pc = Calls /\ pc = [c \in Calls |-> pc[c]]
  /\ \A c \in Calls : effects[c] <= 1
  /\ \A c \in Calls : kind[c] = "post" /\ pc[c] \in MayBeSent => effects[c] = 0

\* A call that goes anywhere but back to where it can be sent keeps Unspent.
LEMMA GoesOn ==
  ASSUME Unspent, UNCHANGED <<kind, effects>>, NEW c \in Calls, NEW where, Goto(c, where),
         kind[c] = "post" /\ where \in MayBeSent => pc[c] \in MayBeSent
  PROVE  Unspent'
BY DEF Unspent, Goto, MayBeSent

LEMMA StaysPut == ASSUME Unspent, UNCHANGED <<kind, effects, pc>> PROVE Unspent'
BY DEF Unspent

LEMMA OwnerUnspent == ASSUME Unspent, OwnerNext, UNCHANGED requestVars PROVE Unspent'
<1> USE DEF requestVars, MayBeSent
<1>1. CASE LoadSession \/ PostRefresh \/ SaveSession \/ \E t \in accepted : ExpireAccess(t)
  BY <1>1, StaysPut DEF LoadSession, PostRefresh, SaveSession, ExpireAccess, processVars
<1>2. ASSUME NEW c \in Calls, BindListener(c) \/ CannotLogIn(c) \/ OpenBrowser(c) \/ Redirect(c)
      PROVE Unspent'
  BY <1>2, StaysPut, GoesOn
     DEF BindListener, CannotLogIn, OpenBrowser, Redirect, processVars
<1>3. ASSUME NEW c \in Calls, ReadCallback(c) \/ ExchangeCode(c) PROVE Unspent'
  BY <1>3, GoesOn DEF ReadCallback, ExchangeCode
<1>4. ASSUME NEW c \in Calls, SaveLogin(c) \/ AbandonLogin(c) \/ ClearPreference(c) PROVE Unspent'
  BY <1>4, GoesOn DEF SaveLogin, AbandonLogin, ClearPreference
<1>5. ASSUME NEW c \in Calls, ClearSession(c) PROVE Unspent'
  BY <1>5, GoesOn DEF ClearSession
<1> QED BY <1>1, <1>2, <1>3, <1>4, <1>5 DEF OwnerNext

LEMMA AgentUnspent == ASSUME Unspent, AgentNext, UNCHANGED requestVars PROVE Unspent'
<1> USE DEF requestVars, MayBeSent
<1>1. ASSUME NEW c \in Calls, CannotRegister(c) \/ CheckIdentity(c) \/ SaveIdentity(c) \/ NotVerified(c)
      PROVE Unspent'
  BY <1>1, GoesOn DEF CannotRegister, CheckIdentity, SaveIdentity, NotVerified
<1>2. ASSUME NEW c \in Calls, OpenAgent(c) PROVE Unspent'
  BY <1>2, GoesOn DEF OpenAgent
<1>3. ASSUME NEW c \in Calls, Register(c) PROVE Unspent'
  BY <1>3, GoesOn DEF Register
<1>4. ASSUME NEW c \in Calls, AskKeyState(c) \/ AskActivate(c) PROVE Unspent'
  BY <1>4, GoesOn DEF AskKeyState, AskActivate, AskVault
<1>5. ASSUME NEW c \in Calls, KeyState(c) PROVE Unspent'
  BY <1>5, GoesOn DEF KeyState
<1>6. ASSUME NEW c \in Calls, LoadVault(c) PROVE Unspent'
  BY <1>6, GoesOn DEF LoadVault
<1>7. ASSUME NEW c \in Calls, SaveVault(c) \/ ReadBack(c) \/ SetActiveKey(c) PROVE Unspent'
  BY <1>7, GoesOn DEF SaveVault, ReadBack, SetActiveKey
<1>8. ASSUME NEW c \in Calls, Census(c) \/ RevokeSuperseded(c) \/ RevokeKey(c) PROVE Unspent'
  BY <1>8, GoesOn DEF Census, RevokeSuperseded, RevokeKey
<1>9. ASSUME NEW c \in Calls, Mint(c) PROVE Unspent'
  BY <1>9, GoesOn DEF Mint, AskVault
<1> QED BY <1>1, <1>2, <1>3, <1>4, <1>5, <1>6, <1>7, <1>8, <1>9 DEF AgentNext

LEMMA RequestUnspent == ASSUME Unspent, NEW c \in Calls, RequestNext(c) PROVE Unspent'
<1> USE DEF MayBeSent
<1>1. CASE Request(c) \/ ReadSituation(c) \/ SetPreference(c)
  BY <1>1, GoesOn DEF Request, ReadSituation, SetPreference, requestVars
<1>2. CASE Answered(c)
  BY <1>2 DEF Answered, TakesEffect, Unspent, Goto
<1>3. CASE Ends(c)
  BY <1>3 DEF Ends, TakesEffect, Unspent, Goto
<1>4. CASE FailsForNow(c)
  BY <1>4 DEF FailsForNow, TakesEffect, RetrySafe, Unspent, Goto
<1>5. CASE Unauthorized(c) \/ Renewed(c)
  BY <1>5, GoesOn DEF Unauthorized, Renewed
<1> QED BY <1>1, <1>2, <1>3, <1>4, <1>5 DEF RequestNext

LEMMA UnspentStep == ASSUME Unspent, [Next]_vars PROVE Unspent'
<1>1. CASE Crash
  BY <1>1 DEF Crash, Unspent, requestVars, MayBeSent, Running
<1>2. CASE Boot
  BY <1>2, StaysPut DEF Boot, requestVars
<1>3. CASE UNCHANGED vars
  BY <1>3, StaysPut DEF vars, processVars, requestVars
<1> QED BY <1>1, <1>2, <1>3, OwnerUnspent, AgentUnspent, RequestUnspent DEF Next

\* A POST without an idempotency key takes effect at most once, through failures
\* after the effect, renewals and replays.
THEOREM NoDoubleEffect == Spec => []EffectsOnce
<1>1. Init => Unspent BY DEF Init, Unspent
<1>2. Unspent => EffectsOnce BY DEF Unspent, EffectsOnce
<1> QED BY <1>1, <1>2, UnspentStep, PTL DEF Spec

----------------------------------------------------------------------------
\* The vault. Where each tool can be, what it works with, and the keys it is
\* about to put in the vault: nobody else has them, and the vault never had.
Vaults == [test: Nat, live: Nat, active: Modes]
Owners == Calls \cup {None, Earlier}
Args == [agent: Owners, mode: Modes, activate: BOOLEAN, key: Nat, census: SUBSET Nat,
         loaded: Vaults]

VaultTypes ==
  /\ identity \in Owners
  /\ minted \in Seq([mode: Modes, of: Owners])
  /\ vault \in Vaults /\ vaultOp \in Seq(Calls) /\ arg \in [Calls -> Args]
  /\ DOMAIN pc = Calls /\ pc = [c \in Calls |-> pc[c]]

\* An operation on the vault: asked for, or running.
Operating == {"writing", "checking", "presenting"}
AtVault == {"storing"} \cup Operating

KindAt(k, where) ==
  /\ where \in {"absent", "creating", "registering"} => k = "register"
  /\ where \in {"verifying", "choosing", "looking", "counting", "minting"}
       => k \in {"upgrade", "create"}
  /\ where \in AtVault => k \in {"register", "upgrade", "create", "activate"}

Roles == \A c \in Calls : KindAt(kind[c], pc[c])

\* The one that runs is the head of the chain; when it writes, and when it presents
\* its key, what it read is what is there.
HeadIsCurrent ==
  \A c \in Calls : pc[c] \in Operating =>
    vaultOp # <<>> /\ Head(vaultOp) = c /\ (pc[c] # "checking" => arg[c].loaded = vault)

KeysFor(c) ==
  CASE kind[c] = "register" -> {arg[c].key, arg[c].key + 1}
    [] kind[c] = "activate" -> {}
    [] OTHER -> {arg[c].key}
Pending(c) == pc[c] \in {"storing", "writing"}

KeysAreKnown ==
  /\ Held(vault) \subseteq KeyIds /\ overwritten \subseteq KeyIds
  /\ \A c \in Calls : Pending(c) => KeysFor(c) \subseteq KeyIds

KeysAreNew ==
  /\ \A c \in Calls : Pending(c) => KeysFor(c) \cap (Held(vault) \cup overwritten) = {}
  /\ \A c, d \in Calls : c # d /\ Pending(c) /\ Pending(d) => KeysFor(c) \cap KeysFor(d) = {}

VaultInv ==
  VaultTypes /\ Roles /\ HeadIsCurrent /\ KeysAreKnown /\ KeysAreNew /\ NoKeyIsWrittenBack

LEMMA AppendKeepsHead ==
  ASSUME NEW S, NEW q \in Seq(S), NEW x \in S, q # <<>>
  PROVE  Append(q, x) # <<>> /\ Head(Append(q, x)) = Head(q)
OBVIOUS

\* A step of one tool that leaves the vault as it is.
Beside(c) ==
  /\ UNCHANGED <<kind, vault, overwritten>> /\ identity' \in Owners
  /\ arg' \in [Calls -> Args] /\ \A d \in Calls \ {c} : arg'[d] = arg[d]
  /\ minted' \in Seq([mode: Modes, of: Owners]) /\ Len(minted) <= Len(minted')

\* A tool that comes to the chain, leaves it, or moves beside it, without keys.
Moves(c, where) ==
  /\ Beside(c) /\ Goto(c, where)
  /\ where \notin AtVault /\ KindAt(kind[c], where)
  /\ \/ vaultOp' = vaultOp
     \/ vaultOp' = Append(vaultOp, c)
     \/ Holds(c) /\ Leave

\* A tool that joins the chain with keys that were just minted, or with none.
Joins(c) ==
  /\ Beside(c) /\ Goto(c, "storing")
  /\ KindAt(kind[c], "storing")
  /\ vaultOp' = Append(vaultOp, c)
  /\ KeysFor(c)' \subseteq KeyIds' \ KeyIds

LEMMA MovesBeside ==
  ASSUME VaultInv, NEW c \in Calls, NEW where, Moves(c, where) PROVE VaultInv'
<1> USE DEF VaultInv, VaultTypes, Moves, Beside
<1>1. \A d \in Calls : d # c => pc'[d] = pc[d] /\ arg'[d] = arg[d]
  BY DEF Goto
<1>2. pc'[c] = where BY DEF Goto
<1>3. VaultTypes'
  <2>1. DOMAIN pc' = Calls /\ pc' = [d \in Calls |-> pc'[d]] BY DEF Goto
  <2>2. Append(vaultOp, c) \in Seq(Calls) OBVIOUS
  <2>3. Holds(c) => Tail(vaultOp) \in Seq(Calls) BY DEF Holds
  <2>4. vaultOp' \in Seq(Calls) BY <2>2, <2>3 DEF Leave
  <2> QED BY <2>1, <2>4
<1>4. Roles' BY <1>1, <1>2 DEF Roles, KindAt
<1>5. ASSUME NEW d \in Calls, pc'[d] \in Operating
      PROVE  vaultOp' # <<>> /\ Head(vaultOp') = d /\ (pc'[d] # "checking" => arg'[d].loaded = vault')
  <2>1. d # c /\ pc'[d] = pc[d] /\ pc[d] \in Operating BY <1>1, <1>2, <1>5 DEF AtVault, Operating
  <2>2. vaultOp # <<>> /\ Head(vaultOp) = d /\ (pc[d] # "checking" => arg[d].loaded = vault)
    BY <2>1 DEF HeadIsCurrent
  <2>3. vaultOp' = vaultOp \/ vaultOp' = Append(vaultOp, c) BY <2>1, <2>2 DEF Holds
  <2>4. Append(vaultOp, c) # <<>> /\ Head(Append(vaultOp, c)) = d
    BY <2>2, AppendKeepsHead
  <2> QED BY <1>1, <2>1, <2>2, <2>3, <2>4
<1>6. HeadIsCurrent' BY <1>5 DEF HeadIsCurrent
<1>7. \A d \in Calls : Pending(d)' => d # c /\ Pending(d) /\ KeysFor(d)' = KeysFor(d)
  BY <1>1, <1>2 DEF Pending, KeysFor, AtVault, Operating
<1>8. KeyIds \subseteq KeyIds' BY DEF KeyIds
<1>9. KeysAreKnown' /\ KeysAreNew' /\ NoKeyIsWrittenBack'
  BY <1>7, <1>8 DEF KeysAreKnown, KeysAreNew, NoKeyIsWrittenBack, Held
<1> QED BY <1>3, <1>4, <1>6, <1>9

LEMMA JoinsWithKeys == ASSUME VaultInv, NEW c \in Calls, Joins(c) PROVE VaultInv'
<1> USE DEF VaultInv, VaultTypes, Joins, Beside
<1>1. \A d \in Calls : d # c => pc'[d] = pc[d] /\ arg'[d] = arg[d]
  BY DEF Goto
<1>2. pc'[c] = "storing" BY DEF Goto
<1>3. VaultTypes'
  <2>1. DOMAIN pc' = Calls /\ pc' = [d \in Calls |-> pc'[d]] BY DEF Goto
  <2>2. vaultOp' \in Seq(Calls) OBVIOUS
  <2> QED BY <2>1, <2>2
<1>4. Roles' BY <1>1, <1>2 DEF Roles, KindAt
<1>5. ASSUME NEW d \in Calls, pc'[d] \in Operating
      PROVE  vaultOp' # <<>> /\ Head(vaultOp') = d /\ (pc'[d] # "checking" => arg'[d].loaded = vault')
  <2>1. d # c /\ pc'[d] = pc[d] /\ pc[d] \in Operating BY <1>1, <1>2, <1>5 DEF AtVault, Operating
  <2>2. vaultOp # <<>> /\ Head(vaultOp) = d /\ (pc[d] # "checking" => arg[d].loaded = vault)
    BY <2>1 DEF HeadIsCurrent
  <2>3. vaultOp' # <<>> /\ Head(vaultOp') = d BY <2>2, AppendKeepsHead
  <2> QED BY <1>1, <2>1, <2>2, <2>3
<1>6. HeadIsCurrent' BY <1>5 DEF HeadIsCurrent
<1>7. \A d \in Calls : Pending(d)' => d = c \/ (Pending(d) /\ KeysFor(d)' = KeysFor(d))
  BY <1>1, <1>2 DEF Pending, KeysFor
<1>8. KeyIds \subseteq KeyIds' BY DEF KeyIds
<1>9. KeysAreKnown' /\ NoKeyIsWrittenBack'
  BY <1>7, <1>8 DEF KeysAreKnown, NoKeyIsWrittenBack, Held
<1>10. KeysFor(c)' \cap KeyIds = {} OBVIOUS
<1>11. ASSUME NEW d \in Calls, Pending(d)'
       PROVE  KeysFor(d)' \cap (Held(vault) \cup overwritten)' = {}
  BY <1>7, <1>10, <1>11 DEF KeysAreKnown, KeysAreNew, Held
<1>12. ASSUME NEW d \in Calls, NEW e \in Calls, d # e, Pending(d)', Pending(e)'
       PROVE  KeysFor(d)' \cap KeysFor(e)' = {}
  <2>1. CASE d = c BY <1>7, <1>10, <1>12, <2>1 DEF KeysAreKnown
  <2>2. CASE e = c BY <1>7, <1>10, <1>12, <2>2 DEF KeysAreKnown
  <2>3. CASE d # c /\ e # c BY <1>7, <1>12, <2>3 DEF KeysAreNew
  <2> QED BY <2>1, <2>2, <2>3
<1>13. KeysAreNew' BY <1>11, <1>12 DEF KeysAreNew
<1> QED BY <1>3, <1>4, <1>6, <1>9, <1>13

\* A tool moves with what the vault operations do not read.
LEMMA SetKeeps ==
  ASSUME arg \in [Calls -> Args], NEW c \in Calls
  PROVE  /\ \A v \in Owners : [arg EXCEPT ![c]["agent"] = v] \in [Calls -> Args]
         /\ \A v \in Modes : [arg EXCEPT ![c]["mode"] = v] \in [Calls -> Args]
         /\ \A v \in Nat : [arg EXCEPT ![c]["key"] = v] \in [Calls -> Args]
         /\ \A v \in SUBSET Nat : [arg EXCEPT ![c]["census"] = v] \in [Calls -> Args]
         /\ \A v \in Vaults : [arg EXCEPT ![c]["loaded"] = v] \in [Calls -> Args]
BY DEF Args

\* The head of the chain reads the vault: no other tool is between its read and
\* its write.
LEMMA LoadKeeps == ASSUME VaultInv, NEW c \in Calls, LoadVault(c) PROVE VaultInv'
<1>0. VaultTypes /\ Roles BY DEF VaultInv
<1>1. CASE Goto(c, "failed")
  <2>1. Moves(c, "failed")
    BY <1>0, <1>1 DEF LoadVault, Moves, Beside, KindAt, AtVault, Operating, VaultTypes, Goto
  <2> QED BY <2>1, MovesBeside
<1>2. CASE ~Goto(c, "failed")
  <2>1. /\ arg' = [arg EXCEPT ![c]["loaded"] = vault] /\ Goto(c, "writing")
        /\ Holds(c) /\ pc[c] = "storing"
        /\ UNCHANGED <<kind, identity, minted, vault, vaultOp, overwritten>>
    BY <1>2 DEF LoadVault, Set
  <2>2. VaultTypes'
    <3>1. DOMAIN pc' = Calls /\ pc' = [d \in Calls |-> pc'[d]]
      BY <1>0, <2>1 DEF VaultTypes, Goto
    <3>2. arg' \in [Calls -> Args] BY <1>0, <2>1, SetKeeps DEF VaultTypes
    <3> QED BY <1>0, <2>1, <3>1, <3>2 DEF VaultTypes
  <2>3. \A d \in Calls : d # c => pc'[d] = pc[d] /\ arg'[d] = arg[d]
    BY <1>0, <2>1 DEF VaultTypes, Goto
  <2>4. pc'[c] = "writing" /\ arg'[c].loaded = vault /\ arg'[c].key = arg[c].key
    BY <1>0, <2>1 DEF VaultTypes, Goto, Args
  <2>5. Roles' BY <1>0, <2>1, <2>3, <2>4 DEF Roles, KindAt, AtVault, Operating
  <2>6. \A d \in Calls : d # c => pc[d] \notin Operating
    BY <2>1 DEF Holds, VaultInv, HeadIsCurrent
  <2>7. HeadIsCurrent' BY <2>1, <2>3, <2>4, <2>6 DEF HeadIsCurrent, Holds, Operating
  <2>8. \A d \in Calls : Pending(d)' => Pending(d) /\ KeysFor(d)' = KeysFor(d)
    BY <2>1, <2>3, <2>4 DEF Pending, KeysFor
  <2>9. KeysAreKnown' /\ KeysAreNew' /\ NoKeyIsWrittenBack'
    BY <2>1, <2>8 DEF VaultInv, KeysAreKnown, KeysAreNew, NoKeyIsWrittenBack, Held, KeyIds
  <2> QED BY <2>2, <2>5, <2>7, <2>9 DEF VaultInv
<1> QED BY <1>1, <1>2

\* What is written is what was read and the keys of the tool that writes.
LEMMA NextVaultHolds ==
  ASSUME VaultInv, NEW c \in Calls, pc[c] = "writing"
  PROVE  NextVault(c) \in Vaults /\ Held(NextVault(c)) \subseteq Held(vault) \cup KeysFor(c)
<1>1. arg[c] \in Args /\ arg[c].loaded = vault /\ vault \in Vaults
  BY DEF VaultInv, VaultTypes, HeadIsCurrent, Operating
<1>2. CASE kind[c] = "register"
  BY <1>1, <1>2 DEF NextVault, Vaults, Args, Held, KeysFor
<1>3. CASE kind[c] = "activate"
  BY <1>1, <1>3 DEF NextVault, Vaults, Args, Held, KeysFor
<1>4. CASE kind[c] \notin {"register", "activate"} /\ arg[c].mode = "test"
  BY <1>1, <1>4 DEF NextVault, Vaults, Args, Held, KeysFor
<1>5. CASE kind[c] \notin {"register", "activate"} /\ arg[c].mode = "live"
  BY <1>1, <1>5 DEF NextVault, Vaults, Args, Held, KeysFor
<1> QED BY <1>1, <1>2, <1>3, <1>4, <1>5 DEF Args, Modes

\* The head of the chain writes: nobody else has read the old vault.
LEMMA SaveKeeps == ASSUME VaultInv, NEW c \in Calls, SaveVault(c) PROVE VaultInv'
<1>0. VaultTypes /\ Roles BY DEF VaultInv
<1>1. /\ vault' \in {vault, NextVault(c)}
      /\ overwritten' = overwritten \cup (Held(vault) \ Held(vault'))
      /\ pc[c] = "writing" /\ UNCHANGED <<kind, identity, minted, arg>>
      /\ \/ vaultOp' = vaultOp /\ Goto(c, "checking")
         \/ vaultOp' = Tail(vaultOp) /\ Goto(c, "failed")
  BY DEF SaveVault, Leave
<1>2. vaultOp # <<>> /\ Head(vaultOp) = c /\ arg[c].loaded = vault
  BY <1>1 DEF VaultInv, HeadIsCurrent, Operating
<1>3. \A d \in Calls : d # c => pc'[d] = pc[d] /\ pc[d] \notin Operating
  BY <1>0, <1>1, <1>2 DEF VaultTypes, VaultInv, HeadIsCurrent, Goto
<1>4. (pc'[c] = "checking" /\ vaultOp' = vaultOp) \/ pc'[c] = "failed"
  BY <1>0, <1>1 DEF VaultTypes, Goto
<1>5. /\ Held(vault) \subseteq Held(vault) \cup KeysFor(c)
      /\ NextVault(c) \in Vaults /\ Held(NextVault(c)) \subseteq Held(vault) \cup KeysFor(c)
  BY <1>1, NextVaultHolds
<1>6. VaultTypes'
  <2>1. Tail(vaultOp) \in Seq(Calls) BY <1>0, <1>2 DEF VaultTypes
  <2>2. DOMAIN pc' = Calls /\ pc' = [d \in Calls |-> pc'[d]] BY <1>0, <1>1 DEF VaultTypes, Goto
  <2> QED BY <1>0, <1>1, <1>5, <2>1, <2>2 DEF VaultTypes
<1>7. Roles' BY <1>0, <1>1, <1>3, <1>4 DEF Roles, KindAt, AtVault, Operating
<1>8. HeadIsCurrent' BY <1>2, <1>3, <1>4 DEF HeadIsCurrent, Operating
<1>9. Held(vault') \subseteq Held(vault) \cup KeysFor(c)
  BY <1>1, <1>5
<1>10. \A d \in Calls : Pending(d)' => d # c /\ Pending(d) /\ KeysFor(d)' = KeysFor(d)
  BY <1>1, <1>3, <1>4 DEF Pending, KeysFor
<1>11. Pending(c) BY <1>1 DEF Pending
<1>12. Held(vault)' = Held(vault') /\ KeyIds' = KeyIds BY <1>1 DEF Held, KeyIds
<1>13. KeysAreKnown'
  BY <1>1, <1>9, <1>10, <1>11, <1>12 DEF VaultInv, KeysAreKnown
<1>14. KeysAreNew'
  BY <1>1, <1>9, <1>10, <1>11, <1>12 DEF VaultInv, KeysAreNew
<1>15. NoKeyIsWrittenBack'
  BY <1>1, <1>9, <1>11, <1>12 DEF VaultInv, KeysAreNew, NoKeyIsWrittenBack
<1> QED BY <1>6, <1>7, <1>8, <1>13, <1>14, <1>15 DEF VaultInv

\* What is read back is the vault, and stays it: nobody else writes before the key
\* is presented.
LEMMA ReadBackKeeps == ASSUME VaultInv, NEW c \in Calls, ReadBack(c) PROVE VaultInv'
<1>0. VaultTypes /\ Roles BY DEF VaultInv
<1>1. Holds(c) /\ pc[c] = "checking" /\ \A d \in Calls : d # c => pc[d] \notin Operating
  BY DEF ReadBack, Holds, VaultInv, HeadIsCurrent, Operating
<1>2. CASE Goto(c, "failed")
  <2>1. arg' = arg /\ Leave
    BY <1>0, <1>2 DEF ReadBack, Goto, VaultTypes
  <2>2. Moves(c, "failed")
    BY <1>0, <1>1, <1>2, <2>1 DEF ReadBack, Moves, Beside, KindAt, AtVault, Operating, VaultTypes
  <2> QED BY <2>2, MovesBeside
<1>3. CASE ~Goto(c, "failed")
  <2>1. /\ arg' = [arg EXCEPT ![c]["loaded"] = vault] /\ Goto(c, "presenting")
        /\ UNCHANGED <<kind, identity, minted, vault, vaultOp, overwritten>>
    BY <1>3 DEF ReadBack, Set
  <2>2. VaultTypes'
    <3>1. DOMAIN pc' = Calls /\ pc' = [d \in Calls |-> pc'[d]]
      BY <1>0, <2>1 DEF VaultTypes, Goto
    <3>2. arg' \in [Calls -> Args] BY <1>0, <2>1, SetKeeps DEF VaultTypes
    <3> QED BY <1>0, <2>1, <3>1, <3>2 DEF VaultTypes
  <2>3. \A d \in Calls : d # c => pc'[d] = pc[d] /\ arg'[d] = arg[d]
    BY <1>0, <2>1 DEF VaultTypes, Goto
  <2>4. pc'[c] = "presenting" /\ arg'[c].loaded = vault
    BY <1>0, <2>1 DEF VaultTypes, Goto, Args
  <2>5. Roles' BY <1>0, <1>1, <2>1, <2>3, <2>4 DEF Roles, KindAt, AtVault, Operating
  <2>6. HeadIsCurrent' BY <1>1, <2>1, <2>3, <2>4 DEF HeadIsCurrent, Holds, Operating
  <2>7. \A d \in Calls : Pending(d)' => Pending(d) /\ KeysFor(d)' = KeysFor(d)
    BY <2>1, <2>3, <2>4 DEF Pending, KeysFor
  <2>8. KeysAreKnown' /\ KeysAreNew' /\ NoKeyIsWrittenBack'
    BY <2>1, <2>7 DEF VaultInv, KeysAreKnown, KeysAreNew, NoKeyIsWrittenBack, Held, KeyIds
  <2> QED BY <2>2, <2>5, <2>6, <2>8 DEF VaultInv
<1> QED BY <1>2, <1>3

LEMMA AgentVaultInv == ASSUME VaultInv, AgentNext PROVE VaultInv'
<1> USE DEF AtVault, Operating
<1>0. VaultTypes /\ Roles BY DEF VaultInv
<1>1. ASSUME NEW d \in Calls, CannotRegister(d) \/ CheckIdentity(d) \/ NotVerified(d)
      PROVE VaultInv'
  <2>1. KindAt(kind[d], pc[d]) BY <1>0 DEF Roles
  <2>2. Moves(d, "failed") \/ Moves(d, "creating") \/ Moves(d, "done")
    BY <1>0, <1>1, <2>1 DEF CannotRegister, CheckIdentity, NotVerified, Moves, Beside, KindAt,
                            VaultTypes, agentVars
  <2> QED BY <2>2, MovesBeside
<1>2. ASSUME NEW d \in Calls, OpenAgent(d) PROVE VaultInv'
  <2>1. arg' = arg \/ arg' = [arg EXCEPT ![d]["agent"] = identity]
    BY <1>2 DEF OpenAgent, Set
  <2>2. arg' \in [Calls -> Args] /\ \A e \in Calls \ {d} : arg'[e] = arg[e]
    BY <1>0, <2>1, SetKeeps DEF VaultTypes
  <2>3. \E w \in {"registering", "verifying", "choosing", "confirmed", "absent", "failed"} :
          Goto(d, w) /\ KindAt(kind[d], w)
    BY <1>2 DEF OpenAgent, KindAt
  <2>4. \E w : Moves(d, w)
    BY <1>0, <1>2, <2>2, <2>3 DEF OpenAgent, Moves, Beside, VaultTypes
  <2> QED BY <2>4, MovesBeside
<1>3. ASSUME NEW d \in Calls, SaveIdentity(d) PROVE VaultInv'
  <2>1. KindAt(kind[d], "registering") BY <1>0, <1>3 DEF Roles, SaveIdentity, KindAt
  <2>2. arg' = [arg EXCEPT ![d]["agent"] = d] BY <1>3 DEF SaveIdentity, Set
  <2>3. arg' \in [Calls -> Args] /\ \A e \in Calls \ {d} : arg'[e] = arg[e]
    BY <1>0, <2>2, SetKeeps DEF Owners, VaultTypes
  <2>4. Moves(d, "registering")
    BY <1>0, <1>3, <2>1, <2>3 DEF SaveIdentity, Owners, Moves, Beside, VaultTypes
  <2> QED BY <2>4, MovesBeside
<1>4. ASSUME NEW d \in Calls, AskKeyState(d) PROVE VaultInv'
  <2>1. KindAt(kind[d], "looking") BY <1>0, <1>4 DEF AskKeyState, Roles, KindAt
  <2>2. arg' \in [Calls -> Args] /\ \A e \in Calls \ {d} : arg'[e] = arg[e]
    <3>1. PICK m \in Modes, a \in BOOLEAN :
            arg' = arg \/ arg' = [arg EXCEPT ![d].mode = m, ![d].activate = a]
      BY <1>4 DEF AskKeyState, Modes
    <3>2. arg \in [Calls -> Args] BY <1>0 DEF VaultTypes
    <3>3. [arg EXCEPT ![d].mode = m, ![d].activate = a] \in [Calls -> Args] BY <3>2 DEF Args
    <3> QED BY <3>1, <3>2, <3>3
  <2>3. Moves(d, "looking")
    BY <1>0, <1>4, <2>1, <2>2 DEF AskKeyState, AskVault, Moves, Beside, VaultTypes
  <2> QED BY <2>3, MovesBeside
<1>5. ASSUME NEW d \in Calls, KeyState(d) PROVE VaultInv'
  <2>1. KindAt(kind[d], "counting") /\ KindAt(kind[d], "minting") /\ KindAt(kind[d], "failed")
    BY <1>0, <1>5 DEF KeyState, Roles, KindAt
  <2>2. arg' = arg \/ arg' = [arg EXCEPT ![d]["mode"] = vault.active]
    BY <1>5 DEF KeyState, Set
  <2>3. arg' \in [Calls -> Args] /\ \A e \in Calls \ {d} : arg'[e] = arg[e]
    BY <1>0, <2>2, SetKeeps DEF Vaults, VaultTypes
  <2>4. \E w \in {"counting", "minting", "failed"} : Goto(d, w)
    BY <1>5 DEF KeyState
  <2>5. \E w : Moves(d, w)
    BY <1>0, <1>5, <2>1, <2>3, <2>4 DEF KeyState, Moves, Beside, VaultTypes
  <2> QED BY <2>5, MovesBeside
<1>6. ASSUME NEW d \in Calls, Census(d) PROVE VaultInv'
  <2>1. KindAt(kind[d], "minting") BY <1>0, <1>6 DEF Census, Roles, KindAt
  <2>2. LiveKeysOf(d) \in SUBSET Nat BY DEF LiveKeysOf, KeyIds
  <2>3. PICK v \in SUBSET Nat : arg' = arg \/ arg' = [arg EXCEPT ![d]["census"] = v]
    BY <1>6, <2>2 DEF Census, Set
  <2>4. arg' \in [Calls -> Args] /\ \A e \in Calls \ {d} : arg'[e] = arg[e]
    <3>1. [arg EXCEPT ![d]["census"] = v] \in [Calls -> Args]
      BY <1>0, SetKeeps DEF VaultTypes
    <3> QED BY <1>0, <2>3, <3>1 DEF VaultTypes
  <2>5. Moves(d, "minting")
    BY <1>0, <1>6, <2>1, <2>4 DEF Census, Moves, Beside, VaultTypes
  <2> QED BY <2>5, MovesBeside
<1>7. ASSUME NEW d \in Calls, RevokeSuperseded(d) \/ RevokeKey(d) PROVE VaultInv'
  <2>1. Moves(d, "done")
    BY <1>0, <1>7 DEF RevokeSuperseded, RevokeKey, Moves, Beside, VaultTypes, KindAt
  <2> QED BY <2>1, MovesBeside
<1>8. ASSUME NEW d \in Calls, AskActivate(d) PROVE VaultInv'
  <2>1. PICK m \in Modes : arg' = [arg EXCEPT ![d]["mode"] = m]
    BY <1>8 DEF AskActivate, Set
  <2>2. arg' \in [Calls -> Args] /\ \A e \in Calls \ {d} : arg'[e] = arg[e]
    BY <1>0, <2>1, SetKeeps DEF VaultTypes
  <2>3. KeysFor(d)' = {} BY <1>8 DEF AskActivate, KeysFor
  <2>4. Joins(d)
    BY <1>0, <1>8, <2>2, <2>3 DEF AskActivate, AskVault, Joins, Beside, KindAt, VaultTypes
  <2> QED BY <2>4, JoinsWithKeys
<1>9. ASSUME NEW d \in Calls, Mint(d) PROVE VaultInv'
  <2> DEFINE new == [mode |-> arg[d].mode, of |-> arg[d].agent]
             n == Len(minted) + 1
  <2>1. kind[d] \in {"upgrade", "create"} BY <1>0, <1>9 DEF Mint, Roles, KindAt
  <2>2. new \in [mode: Modes, of: Owners] BY <1>0 DEF VaultTypes, Args
  <2>3. Append(minted, new) \in Seq([mode: Modes, of: Owners]) /\ Len(Append(minted, new)) = n /\ n \in Nat
    BY <1>0, <2>2 DEF VaultTypes
  <2>4. [arg EXCEPT ![d]["key"] = n] \in [Calls -> Args] BY <1>0, <2>3, SetKeeps DEF VaultTypes
  <2>5. CASE minted' = Append(minted, new) /\ Set(d, "key", n) /\ AskVault(d, "storing")
    <3>1. arg' \in [Calls -> Args] /\ \A e \in Calls \ {d} : arg'[e] = arg[e]
      BY <1>0, <2>4, <2>5 DEF Set, VaultTypes
    <3>2. kind'[d] = kind[d] BY <1>9 DEF Mint
    <3>3. KeysFor(d)' = {n}
      BY <1>0, <2>1, <2>5, <3>2 DEF KeysFor, Set, VaultTypes, Args
    <3>4. n \in KeyIds' /\ n \notin KeyIds BY <1>0, <2>3, <2>5 DEF KeyIds, VaultTypes
    <3>5. KeysFor(d)' \subseteq KeyIds' \ KeyIds BY <3>3, <3>4
    <3>6. Joins(d)
      BY <1>0, <1>9, <2>1, <2>3, <2>5, <3>1, <3>5
         DEF Mint, AskVault, Joins, Beside, KindAt, VaultTypes
    <3> QED BY <3>6, JoinsWithKeys
  <2>6. CASE Goto(d, "failed") /\ UNCHANGED <<arg, vaultOp>> /\ minted' \in {minted, Append(minted, new)}
    <3>1. UNCHANGED <<kind, vault, overwritten, identity>> BY <1>9 DEF Mint
    <3>2. minted' \in Seq([mode: Modes, of: Owners]) /\ Len(minted) <= Len(minted')
      <4>1. minted \in Seq([mode: Modes, of: Owners]) /\ Len(minted) \in Nat BY <1>0 DEF VaultTypes
      <4>2. CASE minted' = minted BY <4>1, <4>2
      <4>3. CASE minted' = Append(minted, new) BY <2>3, <4>1, <4>3
      <4> QED BY <2>6, <4>2, <4>3
    <3>3. Moves(d, "failed")
      BY <1>0, <2>6, <3>1, <3>2 DEF Moves, Beside, KindAt, VaultTypes
    <3> QED BY <3>3, MovesBeside
  <2> QED BY <1>9, <2>5, <2>6 DEF Mint
<1>10. ASSUME NEW d \in Calls, Register(d) PROVE VaultInv'
  <2> DEFINE a == arg[d].agent
             pair == <<[mode |-> "test", of |-> a], [mode |-> "live", of |-> a]>>
             n == Len(minted) + 1
  <2>1. kind[d] = "register" BY <1>0, <1>10 DEF Register, Roles, KindAt
  <2>2. pair \in Seq([mode: Modes, of: Owners]) /\ Len(pair) = 2
    BY <1>0 DEF VaultTypes, Args, Modes
  <2>3. /\ minted \o pair \in Seq([mode: Modes, of: Owners])
        /\ Len(minted \o pair) = Len(minted) + 2 /\ Len(minted) \in Nat /\ n \in Nat
    BY <1>0, <2>2 DEF VaultTypes
  <2>4. CASE /\ minted' = minted \o pair /\ vaultOp' = Append(vaultOp, d) /\ Goto(d, "storing")
             /\ \E m \in Modes : arg' = [arg EXCEPT ![d].key = n, ![d].mode = m]
    <3>1. PICK m \in Modes : arg' = [arg EXCEPT ![d].key = n, ![d].mode = m] BY <2>4
    <3>2. arg \in [Calls -> Args] BY <1>0 DEF VaultTypes
    <3>3. /\ arg' \in [Calls -> Args] /\ arg'[d].key = n
          /\ \A e \in Calls \ {d} : arg'[e] = arg[e]
      BY <2>3, <3>1, <3>2 DEF Args
    <3>4. KeysFor(d)' = {n, n + 1} BY <1>10, <2>1, <3>3 DEF Register, KeysFor
    <3>5. KeysFor(d)' \subseteq KeyIds' \ KeyIds BY <2>3, <2>4, <3>4 DEF KeyIds
    <3>6. UNCHANGED <<kind, vault, overwritten, identity>> BY <1>10 DEF Register
    <3>7. minted' \in Seq([mode: Modes, of: Owners]) /\ Len(minted) <= Len(minted')
      BY <2>3, <2>4
    <3>8. Joins(d)
      BY <1>0, <2>1, <2>4, <3>3, <3>5, <3>6, <3>7 DEF Joins, Beside, KindAt, VaultTypes
    <3> QED BY <3>8, JoinsWithKeys
  <2>5. CASE Goto(d, "failed") /\ UNCHANGED <<arg, vaultOp>> /\ minted' \in {minted, minted \o pair}
    <3>1. UNCHANGED <<kind, vault, overwritten, identity>> BY <1>10 DEF Register
    <3>2. minted' \in Seq([mode: Modes, of: Owners]) /\ Len(minted) <= Len(minted')
      <4>1. minted \in Seq([mode: Modes, of: Owners]) BY <1>0 DEF VaultTypes
      <4>2. CASE minted' = minted BY <2>3, <4>1, <4>2
      <4>3. CASE minted' = minted \o pair BY <2>3, <4>3
      <4> QED BY <2>5, <4>2, <4>3
    <3>3. Moves(d, "failed")
      BY <1>0, <2>5, <3>1, <3>2 DEF Moves, Beside, KindAt, VaultTypes
    <3> QED BY <3>3, MovesBeside
  <2> QED BY <1>10, <2>4, <2>5 DEF Register
<1>11. ASSUME NEW d \in Calls, LoadVault(d) PROVE VaultInv'
  BY <1>11, LoadKeeps
<1>12. ASSUME NEW d \in Calls, SaveVault(d) \/ ReadBack(d) PROVE VaultInv'
  BY <1>12, SaveKeeps, ReadBackKeeps
<1>13. ASSUME NEW d \in Calls, SetActiveKey(d) PROVE VaultInv'
  <2>1. pc[d] = "presenting" /\ KindAt(kind[d], pc[d]) /\ Holds(d) /\ Leave
    BY <1>0, <1>13 DEF SetActiveKey, Roles, Holds, VaultInv, HeadIsCurrent, Operating
  <2>2. PICK w \in {"revoking", "done"} : Goto(d, w) BY <1>13 DEF SetActiveKey
  <2>3. Moves(d, w)
    BY <1>0, <1>13, <2>1, <2>2 DEF SetActiveKey, Moves, Beside, KindAt, AtVault, Operating, VaultTypes
  <2> QED BY <2>3, MovesBeside
<1> QED
  BY <1>1, <1>2, <1>3, <1>4, <1>5, <1>6, <1>7, <1>8, <1>9, <1>10, <1>11, <1>12, <1>13 DEF AgentNext

\* Whatever is not about the vault leaves it: a call that is elsewhere goes elsewhere.
LEMMA Elsewhere ==
  ASSUME VaultInv, UNCHANGED <<kind, agentVars>>, NEW c \in Calls, NEW where, Goto(c, where),
         KindAt(kind[c], where), where \notin AtVault
  PROVE  VaultInv'
<1>1. Moves(c, where) BY DEF Moves, Beside, agentVars, VaultInv, VaultTypes
<1> QED BY <1>1, MovesBeside

LEMMA NothingMoves ==
  ASSUME VaultInv, UNCHANGED <<kind, pc, identity, minted, vault, vaultOp, arg, overwritten>>
  PROVE  VaultInv'
<1>1. VaultTypes' BY DEF VaultInv, VaultTypes
<1>2. Roles' BY DEF VaultInv, Roles
<1>3. HeadIsCurrent' BY DEF VaultInv, HeadIsCurrent
<1>4. KeysAreKnown' /\ KeysAreNew' /\ NoKeyIsWrittenBack'
  BY DEF VaultInv, KeysAreKnown, KeysAreNew, Pending, KeysFor, NoKeyIsWrittenBack, Held, KeyIds
<1> QED BY <1>1, <1>2, <1>3, <1>4 DEF VaultInv

LEMMA OwnerVaultInv == ASSUME VaultInv, OwnerNext, UNCHANGED agentVars PROVE VaultInv'
<1> USE DEF KindAt, AtVault, Operating
<1>1. CASE LoadSession \/ PostRefresh \/ SaveSession \/ \E t \in accepted : ExpireAccess(t)
  BY <1>1, NothingMoves DEF LoadSession, PostRefresh, SaveSession, ExpireAccess, processVars, agentVars
<1>2. ASSUME NEW c \in Calls, BindListener(c) \/ CannotLogIn(c) \/ OpenBrowser(c) \/ Redirect(c)
      PROVE VaultInv'
  BY <1>2, NothingMoves, Elsewhere
     DEF BindListener, CannotLogIn, OpenBrowser, Redirect, processVars, agentVars
<1>3. ASSUME NEW c \in Calls, ReadCallback(c) \/ ExchangeCode(c) PROVE VaultInv'
  BY <1>3, Elsewhere DEF ReadCallback, ExchangeCode
<1>4. ASSUME NEW c \in Calls, SaveLogin(c) \/ AbandonLogin(c) \/ ClearPreference(c) PROVE VaultInv'
  BY <1>4, Elsewhere DEF SaveLogin, AbandonLogin, ClearPreference
<1>5. ASSUME NEW c \in Calls, ClearSession(c) PROVE VaultInv'
  BY <1>5, Elsewhere DEF ClearSession
<1> QED BY <1>1, <1>2, <1>3, <1>4, <1>5 DEF OwnerNext

LEMMA RequestVaultInv == ASSUME VaultInv, NEW c \in Calls, RequestNext(c) PROVE VaultInv'
<1> USE DEF KindAt, AtVault, Operating
<1>1. CASE Request(c) \/ ReadSituation(c) \/ SetPreference(c)
  BY <1>1, Elsewhere DEF Request, ReadSituation, SetPreference
<1>2. CASE Answered(c) \/ Ends(c) \/ FailsForNow(c)
  BY <1>2, Elsewhere, NothingMoves DEF Answered, Ends, FailsForNow, agentVars
<1>3. CASE Unauthorized(c) \/ Renewed(c)
  BY <1>3, Elsewhere DEF Unauthorized, Renewed
<1> QED BY <1>1, <1>2, <1>3 DEF RequestNext

LEMMA CrashVaultInv == ASSUME VaultInv, Crash PROVE VaultInv'
<1>1. \A c \in Calls : kind[c] \in {"register", "upgrade", "create", "activate"} => kind[c] \in ServedBy
  BY DEF ServedBy
<1>2. \A c \in Calls : pc'[c] = IF kind[c] \in ServedBy /\ Running(c) THEN "failed" ELSE pc[c]
  BY DEF Crash
<1>3. \A c \in Calls : pc[c] \in AtVault => pc'[c] = "failed"
  BY <1>1, <1>2 DEF VaultInv, Roles, KindAt, Running, AtVault, Operating
<1>4. \A c \in Calls : pc'[c] = "failed" \/ (pc'[c] = pc[c] /\ pc[c] \notin AtVault)
  BY <1>2, <1>3
<1>5. VaultTypes' BY DEF VaultInv, VaultTypes, Crash
<1>6. Roles' BY <1>2 DEF VaultInv, Roles, KindAt, AtVault, Operating, Crash
<1>7. \A c \in Calls : ~Pending(c)' /\ pc'[c] \notin Operating BY <1>4 DEF Pending, AtVault, Operating
<1> QED BY <1>5, <1>6, <1>7
        DEF VaultInv, HeadIsCurrent, KeysAreKnown, KeysAreNew, NoKeyIsWrittenBack, Held, KeyIds,
            Pending, Crash

LEMMA VaultStep == ASSUME VaultInv, [Next]_vars PROVE VaultInv'
<1>1. CASE Boot
  BY <1>1, NothingMoves DEF Boot
<1>2. CASE UNCHANGED vars BY <1>2, NothingMoves DEF vars, processVars, agentVars
<1> QED BY <1>1, <1>2, AgentVaultInv, OwnerVaultInv, RequestVaultInv, CrashVaultInv DEF Next

LEMMA VaultInit == Init => VaultInv
<1> SUFFICES ASSUME Init PROVE VaultInv OBVIOUS
<1>1. PICK w \in Workloads : AgentInit(w) BY DEF Init
<1>2. Machine(w) BY WorkloadsAssumption
<1>3. \A c \in Calls : pc[c] \in {"idle", "done"} BY DEF Init
<1>4. VaultTypes
  <2>1. identity \in Owners /\ vaultOp \in Seq(Calls)
    BY <1>1, <1>2 DEF AgentInit, Machine, Owners
  <2>2. vault \in Vaults BY <1>1, <1>2 DEF AgentInit, Machine, NoVault, Vaults, Modes, None
  <2>3. minted \in Seq([mode: Modes, of: Owners])
    <3>1. <<[mode |-> "test", of |-> Earlier], [mode |-> "live", of |-> Earlier]>>
            \in Seq([mode: Modes, of: Owners])
      BY DEF Modes, Owners
    <3>2. <<>> \in Seq([mode: Modes, of: Owners]) OBVIOUS
    <3>3. CASE w.registered
      <4>1. minted = <<[mode |-> "test", of |-> Earlier], [mode |-> "live", of |-> Earlier]>>
        BY <1>1, <3>3 DEF AgentInit
      <4> QED BY <3>1, <4>1
    <3>4. CASE ~w.registered
      <4>1. minted = <<>> BY <1>1, <3>4 DEF AgentInit
      <4> QED BY <3>2, <4>1
    <3> QED BY <3>3, <3>4
  <2>4. NoArg \in Args BY DEF NoArg, NoVault, Args, Vaults, Owners, Modes, None
  <2>5. arg \in [Calls -> Args] BY <1>1, <2>4 DEF AgentInit
  <2>6. DOMAIN pc = Calls /\ pc = [c \in Calls |-> pc[c]] BY DEF Init
  <2> QED BY <2>1, <2>2, <2>3, <2>5, <2>6 DEF VaultTypes
<1>5. Held(vault) \subseteq KeyIds
  BY <1>1, <1>2 DEF AgentInit, Held, KeyIds, NoVault, None
<1> QED BY <1>1, <1>3, <1>4, <1>5
        DEF AgentInit, VaultInv, Roles, KindAt, AtVault, Operating, HeadIsCurrent, KeysAreKnown, KeysAreNew, Pending,
            NoKeyIsWrittenBack

\* A key the vault let go never comes back, in whatever order tools interleave and
\* whichever writes fail.
THEOREM KeysStayReplaced == Spec => []NoKeyIsWrittenBack
<1>1. VaultInv => NoKeyIsWrittenBack BY DEF VaultInv
<1> QED BY <1>1, VaultInit, VaultStep, PTL DEF Spec

----------------------------------------------------------------------------
\* The key presented. Without a write that failed behind it, and with no operation
\* between its write and the key it presents, it is the pointer's, whether the
\* server is running or not.
Served == storeKey # None /\ ~staleKey /\ ~Unpresented => storeKey = ActiveKey(vault)

\* Nothing that leaves the vault and the key alone changes it.
LEMMA ServedBeside ==
  ASSUME Served, UNCHANGED <<vault, storeKey, staleKey>>,
         \A c \in Calls : pc'[c] \notin {"checking", "presenting"}
                            => pc[c] \notin {"checking", "presenting"}
  PROVE  Served'
<1>1. Unpresented => Unpresented' BY DEF Unpresented
<1> QED BY <1>1 DEF Served, ActiveKey

LEMMA ServedElsewhere ==
  ASSUME VaultTypes, Served, UNCHANGED <<vault, storeKey, staleKey>>, NEW c \in Calls,
         pc[c] \notin {"checking", "presenting"}, NEW where, Goto(c, where)
  PROVE  Served'
<1>1. \A d \in Calls : d # c => pc'[d] = pc[d] BY DEF VaultTypes, Goto
<1> QED BY <1>1, ServedBeside

LEMMA AgentServed == ASSUME VaultInv, Served, AgentNext PROVE Served'
<1>0. VaultTypes BY DEF VaultInv
<1>1. ASSUME NEW c \in Calls, SaveVault(c) PROVE Served'
  <2>1. \A d \in Calls : d # c => pc'[d] = pc[d] BY <1>0, <1>1 DEF SaveVault, VaultTypes, Goto
  <2>2. CASE pc'[c] = "checking" BY <2>2 DEF Served, Unpresented
  <2>3. CASE pc'[c] # "checking"
    <3>1. /\ staleKey' = (staleKey \/ vault' # vault) /\ storeKey' = storeKey
          /\ pc[c] = "writing"
      BY <1>0, <1>1, <2>3 DEF SaveVault, VaultTypes, Goto
    <3>2. Unpresented => Unpresented' BY <2>1, <3>1 DEF Unpresented
    <3> QED BY <3>1, <3>2 DEF Served, ActiveKey
  <2> QED BY <2>2, <2>3
<1>2. ASSUME NEW c \in Calls, ReadBack(c) PROVE Served'
  <2>1. CASE pc'[c] = "presenting" BY <2>1 DEF Served, Unpresented
  <2>2. CASE pc'[c] # "presenting"
    <3>1. staleKey' BY <1>0, <1>2, <2>2 DEF ReadBack, VaultTypes, Goto
    <3> QED BY <3>1 DEF Served
  <2> QED BY <2>1, <2>2
<1>3. ASSUME NEW c \in Calls, SetActiveKey(c) PROVE Served'
  <2>1. arg[c].loaded = vault
    BY <1>3 DEF SetActiveKey, VaultInv, HeadIsCurrent, Operating
  <2> QED BY <1>3, <2>1 DEF SetActiveKey, Served, ActiveKey
<1>4. ASSUME NEW c \in Calls,
             CannotRegister(c) \/ OpenAgent(c) \/ CheckIdentity(c) \/ SaveIdentity(c) \/ Register(c)
      PROVE Served'
  BY <1>0, <1>4, ServedElsewhere
     DEF CannotRegister, OpenAgent, CheckIdentity, SaveIdentity, Register, agentVars
<1>5. ASSUME NEW c \in Calls,
             AskKeyState(c) \/ NotVerified(c) \/ KeyState(c) \/ AskActivate(c) \/ LoadVault(c)
      PROVE Served'
  BY <1>0, <1>5, ServedElsewhere
     DEF AskKeyState, AskVault, NotVerified, KeyState, AskActivate, LoadVault, agentVars
<1>6. ASSUME NEW c \in Calls, Census(c) \/ Mint(c) \/ RevokeSuperseded(c) \/ RevokeKey(c)
      PROVE Served'
  BY <1>0, <1>6, ServedElsewhere DEF Census, Mint, AskVault, RevokeSuperseded, RevokeKey
<1> QED BY <1>1, <1>2, <1>3, <1>4, <1>5, <1>6 DEF AgentNext

LEMMA OwnerServed == ASSUME VaultInv, Served, OwnerNext, UNCHANGED agentVars PROVE Served'
<1>0. VaultTypes /\ Roles BY DEF VaultInv
<1> USE <1>0 DEF agentVars
<1>1. CASE LoadSession \/ PostRefresh \/ SaveSession \/ \E t \in accepted : ExpireAccess(t)
  BY <1>1, ServedBeside DEF LoadSession, PostRefresh, SaveSession, ExpireAccess, processVars
<1>2. ASSUME NEW c \in Calls, BindListener(c) \/ CannotLogIn(c) \/ OpenBrowser(c) \/ Redirect(c)
      PROVE Served'
  BY <1>2, ServedBeside, ServedElsewhere
     DEF BindListener, CannotLogIn, OpenBrowser, Redirect, processVars
<1>3. ASSUME NEW c \in Calls, ReadCallback(c) \/ ExchangeCode(c) PROVE Served'
  BY <1>3, ServedElsewhere DEF ReadCallback, ExchangeCode
<1>4. ASSUME NEW c \in Calls, SaveLogin(c) \/ ClearPreference(c) PROVE Served'
  BY <1>4, ServedElsewhere DEF SaveLogin, ClearPreference
<1>5. ASSUME NEW c \in Calls, ClearSession(c) PROVE Served'
  BY <1>5, ServedElsewhere DEF ClearSession
<1>6. ASSUME NEW c \in Calls, AbandonLogin(c) PROVE Served'
  <2>1. pc[c] \notin AtVault BY <1>6 DEF AbandonLogin, Roles, KindAt
  <2> QED BY <1>6, <2>1, ServedElsewhere DEF AbandonLogin, AtVault, Operating
<1> QED BY <1>1, <1>2, <1>3, <1>4, <1>5, <1>6 DEF OwnerNext

LEMMA RequestServed == ASSUME VaultTypes, Served, NEW c \in Calls, RequestNext(c) PROVE Served'
<1> USE DEF agentVars
<1>1. CASE Request(c) \/ ReadSituation(c) \/ SetPreference(c)
  BY <1>1, ServedElsewhere DEF Request, ReadSituation, SetPreference
<1>2. CASE Answered(c) \/ Ends(c) \/ FailsForNow(c)
  BY <1>2, ServedElsewhere, ServedBeside DEF Answered, Ends, FailsForNow
<1>3. CASE Unauthorized(c) \/ Renewed(c)
  BY <1>3, ServedElsewhere DEF Unauthorized, Renewed
<1> QED BY <1>1, <1>2, <1>3 DEF RequestNext

LEMMA ServedStep == ASSUME VaultInv, Served, [Next]_vars PROVE Served'
<1>0. VaultTypes BY DEF VaultInv
<1>1. CASE Crash BY <1>1 DEF Crash, Served, None
<1>2. CASE Boot BY <1>2 DEF Boot, SeedAgent, Served, ActiveKey
<1>3. CASE UNCHANGED vars BY <1>3, ServedBeside DEF vars, processVars, agentVars
<1> QED BY <1>0, <1>1, <1>2, <1>3, AgentServed, OwnerServed, RequestServed DEF Next

\* Between vault operations the server presents the key the vault's pointer names,
\* whatever tools minted, switched or lost, because they are chained: only a write
\* that could not be verified is not in use yet.
THEOREM VaultIsServed == Spec => []ServesTheVault
<1>1. Init => Served BY DEF Init, AgentInit, Served
<1>2. Served => ServesTheVault BY DEF Served, ServesTheVault
<1> QED BY <1>1, <1>2, ServedStep, VaultInit, VaultStep, PTL DEF Spec

----------------------------------------------------------------------------
\* The owner's login. Tokens that a login command has yet to save are of logins
\* of their own; the pair that is renewed is the file's, if the file has one of
\* that login; and a spent token in the file is lost, or about to be replaced.
InFlight == flight.phase \in {"post", "save"}

SessionTypes ==
  /\ live \in Seq(Nat) /\ file \in Sessions
  /\ got \in [Calls -> Sessions]
  /\ flight \in [phase: {"none", "load", "post", "save"}, loaded: Sessions,
                 fresh: Sessions, waiters: SUBSET Calls]
  /\ InFlight => flight.loaded \in Tokens

UnsavedAreApart ==
  \A c \in Calls : got[c] # NoSession =>
    /\ ~Spent(got[c])
    /\ file # NoSession => file[1] # got[c][1]
    /\ InFlight => flight.loaded[1] # got[c][1]
    /\ \A d \in Calls \ {c} : got[d] # NoSession => got[d][1] # got[c][1]

RenewsTheFile ==
  /\ InFlight /\ file # NoSession /\ file[1] = flight.loaded[1] => file = flight.loaded
  /\ flight.phase = "save" => /\ flight.fresh = <<flight.loaded[1], flight.loaded[2] + 1>>
                              /\ live[flight.loaded[1]] = flight.loaded[2] + 1

SpentAreLost ==
  /\ flight.phase = "post" /\ Spent(flight.loaded) => flight.loaded \in lost
  /\ file # NoSession /\ Spent(file) =>
       file \in lost \/ (flight.phase = "save" /\ file = flight.loaded)
  /\ OnlyALostRotationIsSpentTwice

SessionInv == SessionTypes /\ UnsavedAreApart /\ RenewsTheFile /\ SpentAreLost

sessionView == <<file, live, flight, got, lost, twice>>

LEMMA SessionStays == ASSUME SessionInv, UNCHANGED sessionView PROVE SessionInv'
BY DEF sessionView, SessionInv, SessionTypes, UnsavedAreApart, RenewsTheFile, SpentAreLost, InFlight,
       Sessions, Tokens, Spent, OnlyALostRotationIsSpentTwice

\* A renewal that ends with nothing written: what was at stake is lost.
LEMMA FlightEnds ==
  ASSUME SessionInv, flight' = NoFlight, UNCHANGED <<file, live, got>>, lost \subseteq lost',
         flight.phase = "save" => flight.loaded \in lost', twice' \subseteq lost'
  PROVE  SessionInv'
<1>1. SessionTypes'
  BY DEF SessionInv, SessionTypes, NoFlight, InFlight, Sessions, Tokens
<1>2. ~InFlight' BY DEF NoFlight, InFlight
<1>3. UnsavedAreApart' BY <1>2 DEF SessionInv, UnsavedAreApart, Spent
<1>4. RenewsTheFile' BY <1>2 DEF RenewsTheFile, InFlight
<1>5. SpentAreLost'
  BY <1>2 DEF SessionInv, SpentAreLost, Spent, InFlight, OnlyALostRotationIsSpentTwice
<1> QED BY <1>1, <1>3, <1>4, <1>5 DEF SessionInv

LEMMA LoadKeepsSession == ASSUME SessionInv, LoadSession PROVE SessionInv'
<1>1. CASE Settle("expired") BY <1>1, FlightEnds DEF LoadSession, Settle, historyVars, loginVars,
          SessionInv, SpentAreLost, OnlyALostRotationIsSpentTwice
<1>2. CASE CanRenew(file) /\ flight' = [flight EXCEPT !.phase = "post", !.loaded = file]
  <2>1. UNCHANGED <<file, live, got, lost, twice>> /\ flight.phase = "load"
    BY DEF LoadSession, historyVars, loginVars
  <2>2. file \in Tokens /\ file # NoSession BY <1>2 DEF CanRenew, SessionInv, SessionTypes, Sessions
  <2>3. flight'.phase = "post" /\ flight'.loaded = file
    BY <1>2 DEF SessionInv, SessionTypes
  <2>4. SessionTypes'
    BY <1>2, <2>1, <2>2, <2>3 DEF SessionInv, SessionTypes, InFlight, Sessions, Tokens
  <2>5. UnsavedAreApart' BY <2>1, <2>2, <2>3 DEF SessionInv, UnsavedAreApart, InFlight, Spent
  <2>6. RenewsTheFile' BY <2>1, <2>3 DEF RenewsTheFile
  <2>7. SpentAreLost'
    BY <2>1, <2>2, <2>3 DEF SessionInv, SpentAreLost, Spent, OnlyALostRotationIsSpentTwice
  <2> QED BY <2>4, <2>5, <2>6, <2>7 DEF SessionInv
<1> QED BY <1>1, <1>2 DEF LoadSession

\* The refresh token in flight is taken: the file's pair may be spent by it, and no
\* other.
LEMMA RotationKeeps ==
  ASSUME SessionInv, flight.phase = "post", UNCHANGED <<file, got>>,
         live' = [live EXCEPT ![flight.loaded[1]] = flight.loaded[2] + 1]
  PROVE  /\ live' \in Seq(Nat) /\ Tokens' = Tokens
         /\ \A c \in Calls : got[c] # NoSession => ~Spent(got[c])'
         /\ file # NoSession /\ Spent(file)' => file = flight.loaded \/ Spent(file)
         /\ live'[flight.loaded[1]] = flight.loaded[2] + 1
<1>1. flight.loaded \in (1..Len(live)) \X (Nat \ {0}) /\ live \in Seq(Nat)
  BY DEF SessionInv, SessionTypes, InFlight, Tokens
<1>2. live' \in Seq(Nat) /\ Len(live') = Len(live) BY <1>1
<1>3. live'[flight.loaded[1]] = flight.loaded[2] + 1 BY <1>1
<1>4. ASSUME NEW c \in Calls, got[c] # NoSession PROVE ~Spent(got[c])'
  <2>1. got[c] \in (1..Len(live)) \X (Nat \ {0})
    BY <1>4 DEF SessionInv, SessionTypes, Sessions, Tokens
  <2>2. got[c][1] # flight.loaded[1] /\ ~Spent(got[c])
    BY <1>4 DEF SessionInv, UnsavedAreApart, InFlight
  <2>3. live'[got[c][1]] = live[got[c][1]] BY <1>1, <2>1, <2>2
  <2> QED BY <2>2, <2>3 DEF Spent
<1>5. ASSUME file # NoSession, Spent(file)' PROVE file = flight.loaded \/ Spent(file)
  <2>1. file \in (1..Len(live)) \X (Nat \ {0})
    BY <1>5 DEF SessionInv, SessionTypes, Sessions, Tokens
  <2>2. CASE file[1] = flight.loaded[1]
    BY <1>5, <2>2 DEF SessionInv, RenewsTheFile, InFlight
  <2>3. CASE file[1] # flight.loaded[1]
    <3>1. live'[file[1]] = live[file[1]] BY <1>1, <2>1, <2>3
    <3> QED BY <1>5, <3>1 DEF Spent
  <2> QED BY <2>2, <2>3
<1> QED BY <1>2, <1>3, <1>4, <1>5 DEF Tokens

LEMMA PostKeepsSession == ASSUME SessionInv, PostRefresh PROVE SessionInv'
<1> DEFINE t == flight.loaded
           next == <<t[1], t[2] + 1>>
           rotates == live' = [live EXCEPT ![t[1]] = t[2] + 1]
<1>1. flight.phase = "post" /\ UNCHANGED <<file, got>> BY DEF PostRefresh, loginVars
<1>2. t \in Tokens /\ live \in Seq(Nat) BY <1>1 DEF SessionInv, SessionTypes, InFlight
<1>3. CASE /\ rotates /\ flight' = [flight EXCEPT !.phase = "save", !.fresh = next]
           /\ UNCHANGED <<lost, twice>>
  <2>1. /\ live' \in Seq(Nat) /\ Tokens' = Tokens /\ live'[t[1]] = t[2] + 1
        /\ \A c \in Calls : got[c] # NoSession => ~Spent(got[c])'
        /\ file # NoSession /\ Spent(file)' => file = t \/ Spent(file)
    BY <1>1, <1>3, RotationKeeps
  <2>2. flight'.phase = "save" /\ flight'.loaded = t /\ flight'.fresh = next
    BY <1>3 DEF SessionInv, SessionTypes
  <2>3. next \in Tokens BY <1>2 DEF Tokens
  <2>4. SessionTypes'
    <3>1. flight' \in [phase: {"none", "load", "post", "save"}, loaded: Sessions,
                       fresh: Sessions, waiters: SUBSET Calls]
      BY <1>3, <2>3 DEF SessionInv, SessionTypes, Sessions
    <3> QED BY <1>1, <1>2, <2>1, <2>2, <3>1 DEF SessionInv, SessionTypes, Sessions
  <2>5. UnsavedAreApart'
    BY <1>1, <2>1, <2>2 DEF SessionInv, UnsavedAreApart, InFlight
  <2>6. RenewsTheFile'
    BY <1>1, <2>1, <2>2 DEF SessionInv, RenewsTheFile, InFlight
  <2>7. SpentAreLost'
    BY <1>1, <1>3, <2>1, <2>2 DEF SessionInv, SpentAreLost, OnlyALostRotationIsSpentTwice
  <2> QED BY <2>4, <2>5, <2>6, <2>7 DEF SessionInv
<1>4. CASE /\ rotates /\ flight' = NoFlight /\ lost' = lost \cup {t} /\ UNCHANGED twice
  <2>1. /\ live' \in Seq(Nat) /\ Tokens' = Tokens
        /\ \A c \in Calls : got[c] # NoSession => ~Spent(got[c])'
        /\ file # NoSession /\ Spent(file)' => file = t \/ Spent(file)
    BY <1>1, <1>4, RotationKeeps
  <2>2. SessionTypes'
    BY <1>1, <1>4, <2>1 DEF SessionInv, SessionTypes, Sessions, NoFlight, InFlight
  <2>3. UnsavedAreApart'
    BY <1>1, <1>4, <2>1 DEF SessionInv, UnsavedAreApart, NoFlight, InFlight
  <2>4. RenewsTheFile' BY <1>4 DEF RenewsTheFile, NoFlight, InFlight
  <2>5. SpentAreLost'
    BY <1>1, <1>4, <2>1
       DEF SessionInv, SpentAreLost, OnlyALostRotationIsSpentTwice, NoFlight
  <2> QED BY <2>2, <2>3, <2>4, <2>5 DEF SessionInv
<1>5. CASE /\ flight' = NoFlight /\ UNCHANGED <<live, lost>>
           /\ twice' = twice \/ (Spent(t) /\ twice' = twice \cup {t})
  <2>1. twice' \subseteq lost'
    BY <1>1, <1>5 DEF SessionInv, SpentAreLost, OnlyALostRotationIsSpentTwice
  <2> QED BY <1>1, <1>5, <2>1, FlightEnds
<1> QED BY <1>3, <1>4, <1>5 DEF PostRefresh, Settle

LEMMA SaveKeepsSession == ASSUME SessionInv, SaveSession PROVE SessionInv'
<1>1. flight.phase = "save" /\ flight' = NoFlight /\ UNCHANGED <<live, got, twice>>
  BY DEF SaveSession, Settle, loginVars
<1>2. CASE file' = file /\ lost' = lost \cup {flight.loaded}
  BY <1>1, <1>2, FlightEnds DEF SessionInv, SpentAreLost, OnlyALostRotationIsSpentTwice
<1>3. CASE file' = flight.fresh /\ lost' = lost
  <2>1. /\ flight.loaded \in Tokens /\ file' = <<flight.loaded[1], flight.loaded[2] + 1>>
        /\ live[flight.loaded[1]] = flight.loaded[2] + 1
    BY <1>1, <1>3 DEF SessionInv, SessionTypes, RenewsTheFile, InFlight
  <2>2. file' \in Tokens /\ file'[1] = flight.loaded[1] BY <2>1 DEF Tokens
  <2>3. ~Spent(file)' BY <1>1, <2>1 DEF Spent, Tokens
  <2>4. SessionTypes'
    BY <1>1, <2>2 DEF SessionInv, SessionTypes, Sessions, Tokens, NoFlight, InFlight
  <2>5. UnsavedAreApart'
    BY <1>1, <2>2 DEF SessionInv, UnsavedAreApart, NoFlight, InFlight, Spent
  <2>6. RenewsTheFile' BY <1>1 DEF RenewsTheFile, NoFlight, InFlight
  <2>7. SpentAreLost'
    BY <1>1, <1>3, <2>3 DEF SessionInv, SpentAreLost, OnlyALostRotationIsSpentTwice, NoFlight
  <2> QED BY <2>4, <2>5, <2>6, <2>7 DEF SessionInv
<1> QED BY <1>2, <1>3 DEF SaveSession

\* The code is exchanged for the first pair of a login that nobody has yet.
LEMMA ExchangeKeepsSession ==
  ASSUME SessionInv, NEW c \in Calls, ExchangeCode(c) PROVE SessionInv'
<1> DEFINE f == Len(live) + 1
           fresh == <<f, 1>>
<1>1. UNCHANGED <<file, flight, lost, twice>> BY DEF ExchangeCode, historyVars
<1>2. CASE UNCHANGED <<live, got>>
  BY <1>1, <1>2, SessionStays DEF sessionView
<1>3. CASE live' = Append(live, 1) /\ got' = [got EXCEPT ![c] = fresh]
  <2>1. live \in Seq(Nat) /\ got \in [Calls -> Sessions] /\ file \in Sessions
        /\ (InFlight => flight.loaded \in Tokens)
    BY DEF SessionInv, SessionTypes
  <2>2. /\ live' \in Seq(Nat) /\ Len(live') = f /\ f \in Nat /\ Len(live) \in Nat
        /\ live'[f] = 1 /\ \A i \in 1..Len(live) : live'[i] = live[i]
    BY <1>3, <2>1
  <2>3. fresh \in Tokens' /\ \A t \in Tokens : t \in Tokens' /\ Spent(t)' = Spent(t) /\ t[1] # f
    BY <2>2 DEF Tokens, Spent
  <2>4. \A d \in Calls : got'[d] = IF d = c THEN fresh ELSE got[d] BY <1>3, <2>1
  <2>5. ~Spent(got[c])' BY <2>2, <2>4 DEF Spent
  <2>6. SessionTypes'
    <3>1. got' \in [Calls -> Sessions'] BY <1>3, <2>1, <2>3 DEF Sessions
    <3>2. flight' \in [phase: {"none", "load", "post", "save"}, loaded: Sessions',
                       fresh: Sessions', waiters: SUBSET Calls]
      BY <1>1, <2>3 DEF SessionInv, SessionTypes, Sessions
    <3>3. InFlight' => flight'.loaded \in Tokens' BY <1>1, <2>1, <2>3 DEF InFlight
    <3>4. file' \in Sessions' BY <1>1, <2>1, <2>3 DEF Sessions
    <3> QED BY <2>2, <3>1, <3>2, <3>3, <3>4 DEF SessionTypes
  <2>7. \A d \in Calls : got[d] # NoSession => got[d] \in Tokens BY <2>1 DEF Sessions
  <2>8. file # NoSession => file \in Tokens BY <2>1 DEF Sessions
  <2>9. ASSUME NEW d \in Calls, got'[d] # NoSession
        PROVE  /\ ~Spent(got[d])'
               /\ file' # NoSession => file'[1] # got'[d][1]
               /\ InFlight' => flight'.loaded[1] # got'[d][1]
               /\ \A e \in Calls \ {d} : got'[e] # NoSession => got'[e][1] # got'[d][1]
    <3>1. CASE d = c
      BY <1>1, <2>1, <2>3, <2>4, <2>5, <2>7, <2>8, <3>1 DEF InFlight
    <3>2. CASE d # c
      BY <1>1, <2>3, <2>4, <2>7, <2>9, <3>2 DEF SessionInv, UnsavedAreApart, InFlight
    <3> QED BY <3>1, <3>2
  <2>10. UnsavedAreApart' BY <2>9 DEF UnsavedAreApart
  <2>11. RenewsTheFile'
    BY <1>1, <2>1, <2>2 DEF SessionInv, RenewsTheFile, InFlight, Tokens
  <2>12. SpentAreLost'
    BY <1>1, <2>1, <2>3, <2>8 DEF SessionInv, SpentAreLost, InFlight, OnlyALostRotationIsSpentTwice
  <2> QED BY <2>6, <2>10, <2>11, <2>12 DEF SessionInv
<1> QED BY <1>2, <1>3 DEF ExchangeCode

\* A login command that saves what it has, or drops it; and a logout.
LEMMA LoginKeepsSession ==
  ASSUME SessionInv, NEW c \in Calls, SaveLogin(c) \/ AbandonLogin(c) \/ ClearSession(c)
  PROVE  SessionInv'
<1>1. /\ UNCHANGED <<live, flight, lost, twice>>
      /\ \/ file' \in {file, got[c]} /\ got' = [got EXCEPT ![c] = NoSession]
         \/ file' = NoSession /\ got' = got
  BY DEF SaveLogin, AbandonLogin, ClearSession, sessionVars, historyVars, loginVars
<1>2. got \in [Calls -> Sessions] /\ file \in Sessions /\ NoSession \in Sessions
  BY DEF SessionInv, SessionTypes, Sessions
<1>3. Sessions' = Sessions /\ Tokens' = Tokens BY <1>1 DEF Sessions, Tokens
<1>4. \A d \in Calls : got'[d] = got[d] \/ (d = c /\ got'[d] = NoSession) BY <1>1, <1>2
<1>5. SessionTypes'
  <2>1. got' \in [Calls -> Sessions] /\ file' \in Sessions BY <1>1, <1>2
  <2> QED BY <1>1, <1>3, <2>1 DEF SessionInv, SessionTypes, InFlight
<1>6. (file' = got[c] /\ got'[c] = NoSession) \/ file' = file \/ file' = NoSession BY <1>1, <1>2
<1>7. UnsavedAreApart'
  BY <1>1, <1>2, <1>4, <1>6 DEF SessionInv, UnsavedAreApart, InFlight, Spent
<1>8. RenewsTheFile'
  BY <1>1, <1>6 DEF SessionInv, UnsavedAreApart, RenewsTheFile, InFlight
<1>9. SpentAreLost'
  BY <1>1, <1>6 DEF SessionInv, UnsavedAreApart, SpentAreLost, Spent, OnlyALostRotationIsSpentTwice
<1> QED BY <1>5, <1>7, <1>8, <1>9 DEF SessionInv

LEMMA JoinKeepsSession ==
  ASSUME SessionInv, NEW c \in Calls, JoinRenewal(c), UNCHANGED <<file, live, got, lost, twice>>
  PROVE  SessionInv'
<1>1. CASE flight.phase = "none"
  <2>1. flight' = [NoFlight EXCEPT !.phase = "load", !.waiters = {c}] BY <1>1 DEF JoinRenewal
  <2>2. SessionTypes'
    BY <2>1 DEF SessionInv, SessionTypes, NoFlight, InFlight, Sessions, Tokens
  <2>3. flight'.phase = "load" BY <2>1 DEF NoFlight
  <2>4. UnsavedAreApart' /\ RenewsTheFile'
    BY <2>3 DEF SessionInv, UnsavedAreApart, RenewsTheFile, InFlight, Spent
  <2>5. SpentAreLost'
    BY <1>1, <2>3 DEF SessionInv, SpentAreLost, Spent, OnlyALostRotationIsSpentTwice
  <2> QED BY <2>2, <2>4, <2>5 DEF SessionInv
<1>2. CASE flight.phase # "none"
  <2>1. flight' = [flight EXCEPT !.waiters = @ \cup {c}] BY <1>2 DEF JoinRenewal
  <2>2. flight'.phase = flight.phase /\ flight'.loaded = flight.loaded /\ flight'.fresh = flight.fresh
    BY <2>1 DEF SessionInv, SessionTypes
  <2>3. SessionTypes'
    BY <2>1, <2>2 DEF SessionInv, SessionTypes, InFlight, Sessions, Tokens
  <2>4. UnsavedAreApart' /\ RenewsTheFile' /\ SpentAreLost'
    BY <2>2 DEF SessionInv, UnsavedAreApart, RenewsTheFile, SpentAreLost, InFlight, Spent,
                OnlyALostRotationIsSpentTwice
  <2> QED BY <2>3, <2>4 DEF SessionInv
<1> QED BY <1>1, <1>2

LEMMA RequestKeepsSession == ASSUME SessionInv, NEW c \in Calls, RequestNext(c) PROVE SessionInv'
<1> USE DEF sessionView, ownerVars, sessionVars, loginVars, historyVars
<1>1. CASE Request(c) \/ Answered(c) \/ Ends(c) \/ FailsForNow(c)
  BY <1>1, SessionStays DEF Request, Answered, Ends, FailsForNow
<1>2. CASE Renewed(c) \/ ReadSituation(c) \/ SetPreference(c)
  BY <1>2, SessionStays DEF Renewed, ReadSituation, SetPreference
<1>3. CASE Unauthorized(c)
  BY <1>3, SessionStays, JoinKeepsSession DEF Unauthorized
<1> QED BY <1>1, <1>2, <1>3 DEF RequestNext

LEMMA OwnerKeepsSession == ASSUME SessionInv, OwnerNext PROVE SessionInv'
<1> USE DEF sessionView, ownerVars, sessionVars, loginVars, historyVars
<1>1. ASSUME NEW c \in Calls,
             BindListener(c) \/ CannotLogIn(c) \/ OpenBrowser(c) \/ Redirect(c)
      PROVE SessionInv'
  BY <1>1, SessionStays DEF BindListener, CannotLogIn, OpenBrowser, Redirect
<1>2. ASSUME NEW c \in Calls, ReadCallback(c) \/ ClearPreference(c) PROVE SessionInv'
  BY <1>2, SessionStays DEF ReadCallback, ClearPreference
<1>3. ASSUME NEW t \in accepted, ExpireAccess(t) PROVE SessionInv'
  BY <1>3, SessionStays DEF ExpireAccess
<1> QED BY <1>1, <1>2, <1>3, LoadKeepsSession, PostKeepsSession, SaveKeepsSession,
           ExchangeKeepsSession, LoginKeepsSession DEF OwnerNext

LEMMA SessionStep == ASSUME SessionInv, [Next]_vars PROVE SessionInv'
<1> USE DEF sessionView, ownerVars, sessionVars, loginVars, historyVars
<1>1. CASE Crash
  <2>1. /\ flight' = NoFlight /\ UNCHANGED <<file, live, got, twice>> /\ lost \subseteq lost'
        /\ flight.phase = "save" => flight.loaded \in lost'
    BY <1>1 DEF Crash, LoseFlight
  <2>2. twice' \subseteq lost'
    BY <2>1 DEF SessionInv, SpentAreLost, OnlyALostRotationIsSpentTwice
  <2> QED BY <2>1, <2>2, FlightEnds
<1>2. CASE Boot BY <1>2, SessionStays DEF Boot
<1>3. CASE UNCHANGED vars \/ UNCHANGED ownerVars BY <1>3, SessionStays DEF vars
<1> QED BY <1>1, <1>2, <1>3, OwnerKeepsSession, RequestKeepsSession DEF Next

LEMMA SessionInit == Init => SessionInv
<1> SUFFICES ASSUME Init PROVE SessionInv OBVIOUS
<1>1. PICK w \in Workloads : OwnerInit(w) BY DEF Init
<1>2. /\ flight = NoFlight /\ lost = {} /\ twice = {}
      /\ got = [c \in Calls |-> NoSession]
  BY <1>1 DEF OwnerInit
<1>3. live \in Seq(Nat) /\ file \in Sessions /\ (file # NoSession => ~Spent(file))
  <2>1. CASE w.signedIn
    <3>1. live = <<1>> /\ file = <<1, 1>> BY <1>1, <2>1 DEF OwnerInit
    <3> QED BY <3>1 DEF Sessions, Tokens, Spent
  <2>2. CASE ~w.signedIn
    <3>1. live = <<>> /\ file = NoSession BY <1>1, <2>2 DEF OwnerInit
    <3> QED BY <3>1 DEF Sessions
  <2> QED BY <2>1, <2>2
<1>4. SessionTypes BY <1>2, <1>3 DEF SessionTypes, NoFlight, InFlight, Sessions
<1>5. UnsavedAreApart BY <1>2 DEF UnsavedAreApart
<1>6. RenewsTheFile /\ SpentAreLost
  BY <1>2, <1>3 DEF RenewsTheFile, SpentAreLost, NoFlight, InFlight, OnlyALostRotationIsSpentTwice
<1> QED BY <1>4, <1>5, <1>6 DEF SessionInv

\* A spent refresh token is presented only when the answer, the write or the process
\* that should have kept its successor was lost, however many requests, logins and
\* logouts overlap.
THEOREM SpentOnlyIfLost == Spec => []OnlyALostRotationIsSpentTwice
<1>1. SessionInv => OnlyALostRotationIsSpentTwice BY DEF SessionInv, SpentAreLost
<1> QED BY <1>1, SessionInit, SessionStep, PTL DEF Spec

----------------------------------------------------------------------------
\* The renewals.

\* A request that awaits a renewal is one of those the flight will tell, or has been
\* told; what it is told is of a renewal it joined itself; and it is sent no more
\* often than its attempts allow and its one renewal adds.
WaitersHaveARenewal ==
  \A c \in Calls :
    /\ pc[c] = "renewing" /\ answer[c] = "none" => flight.phase # "none" /\ c \in flight.waiters
    /\ answer[c] # "none" => refreshed[c]
    /\ attempt[c] <= MaxAttempts + (IF refreshed[c] THEN 1 ELSE 0)

RenewalTypes ==
  /\ DOMAIN pc = Calls /\ pc = [c \in Calls |-> pc[c]]
  /\ attempt \in [Calls -> Nat]
  /\ refreshed \in [Calls -> BOOLEAN]
  /\ DOMAIN answer = Calls
  /\ flight \in [phase: {"none", "load", "post", "save"}, loaded: {flight.loaded},
                 fresh: {flight.fresh}, waiters: SUBSET Calls]
  /\ flight.phase = "none" => flight.waiters = {}

\* A request and its renewal: none before it joins one, and one at most.
RenewalFits(c) ==
  /\ pc[c] \in {"sending", "renewing"} => kind[c] \in Requests
  /\ pc[c] = "renewing" =>
       /\ refreshed[c] /\ attempt[c] <= MaxAttempts
       /\ answer[c] = "none" => c \in flight.waiters
  /\ ~refreshed[c] => attempt[c] <= MaxAttempts /\ c \notin flight.waiters /\ answer[c] = "none"
  /\ attempt[c] <= MaxAttempts + 1

RenewalInv == RenewalTypes /\ \A c \in Calls : RenewalFits(c)

renewalView == <<kind, attempt, refreshed, answer, flight>>

\* Calls that go anywhere but to wait for a renewal leave the renewals alone.
LEMMA MovesElsewhere ==
  ASSUME RenewalInv, UNCHANGED renewalView, DOMAIN pc' = Calls, pc' = [c \in Calls |-> pc'[c]],
         \A c \in Calls : \/ pc'[c] = pc[c]
                          \/ pc'[c] \notin {"sending", "renewing"}
                          \/ pc'[c] = "sending" /\ kind[c] \in Requests
  PROVE  RenewalInv'
BY DEF RenewalInv, RenewalTypes, RenewalFits, renewalView

LEMMA GoesElsewhere ==
  ASSUME RenewalInv, UNCHANGED renewalView, NEW c \in Calls, NEW where, Goto(c, where),
         where \notin {"sending", "renewing"} \/ (where = "sending" /\ kind[c] \in Requests)
  PROVE  RenewalInv'
<1>1. /\ DOMAIN pc' = Calls /\ pc' = [x \in Calls |-> pc'[x]]
      /\ pc'[c] = where /\ \A x \in Calls \ {c} : pc'[x] = pc[x]
  BY DEF RenewalInv, RenewalTypes, Goto
<1> QED BY <1>1, MovesElsewhere

LEMMA NobodyMoves == ASSUME RenewalInv, UNCHANGED renewalView, UNCHANGED pc PROVE RenewalInv'
BY MovesElsewhere DEF RenewalInv, RenewalTypes

LEMMA AgentKeepsRenewals ==
  ASSUME RenewalInv, AgentNext, UNCHANGED <<ownerVars, requestVars>> PROVE RenewalInv'
<1>0. kind' = kind => UNCHANGED renewalView
  BY DEF ownerVars, sessionVars, requestVars, renewalView
<1>1. ASSUME NEW c \in Calls, CannotRegister(c) \/ CheckIdentity(c) \/ SaveIdentity(c) \/ NotVerified(c)
      PROVE RenewalInv'
  BY <1>0, <1>1, GoesElsewhere DEF CannotRegister, CheckIdentity, SaveIdentity, NotVerified
<1>2. ASSUME NEW c \in Calls, OpenAgent(c) PROVE RenewalInv'
  BY <1>0, <1>2, GoesElsewhere DEF OpenAgent
<1>3. ASSUME NEW c \in Calls, Register(c) PROVE RenewalInv'
  BY <1>0, <1>3, GoesElsewhere DEF Register
<1>4. ASSUME NEW c \in Calls, AskKeyState(c) \/ AskActivate(c) PROVE RenewalInv'
  BY <1>0, <1>4, GoesElsewhere DEF AskKeyState, AskActivate, AskVault
<1>5. ASSUME NEW c \in Calls, KeyState(c) PROVE RenewalInv'
  BY <1>0, <1>5, GoesElsewhere DEF KeyState
<1>6. ASSUME NEW c \in Calls, LoadVault(c) PROVE RenewalInv'
  BY <1>0, <1>6, GoesElsewhere DEF LoadVault
<1>7. ASSUME NEW c \in Calls, SaveVault(c) \/ ReadBack(c) \/ SetActiveKey(c) PROVE RenewalInv'
  BY <1>0, <1>7, GoesElsewhere DEF SaveVault, ReadBack, SetActiveKey
<1>8. ASSUME NEW c \in Calls, Census(c) \/ RevokeSuperseded(c) \/ RevokeKey(c) PROVE RenewalInv'
  BY <1>0, <1>8, GoesElsewhere DEF Census, RevokeSuperseded, RevokeKey
<1>9. ASSUME NEW c \in Calls, Mint(c) PROVE RenewalInv'
  BY <1>0, <1>9, GoesElsewhere DEF Mint, AskVault
<1> QED BY <1>1, <1>2, <1>3, <1>4, <1>5, <1>6, <1>7, <1>8, <1>9 DEF AgentNext

\* A renewal that settles tells everybody who awaits it.
LEMMA SettlesForAll ==
  ASSUME RenewalInv, UNCHANGED <<kind, pc, requestVars>>, NEW outcome \in {"renewed", "expired"},
         Settle(outcome)
  PROVE  RenewalInv'
<1>1. /\ flight' = NoFlight /\ UNCHANGED <<kind, pc, attempt, refreshed>>
      /\ answer' = [c \in Calls |-> IF c \in flight.waiters THEN outcome ELSE answer[c]]
  BY DEF Settle, requestVars
<1>2. flight'.waiters = {} /\ RenewalTypes'
  BY <1>1 DEF NoFlight, RenewalInv, RenewalTypes
<1>3. ASSUME NEW c \in Calls PROVE RenewalFits(c)'
  BY <1>1, <1>2 DEF RenewalInv, RenewalFits
<1> QED BY <1>2, <1>3 DEF RenewalInv

\* One that goes on keeps those who await it.
LEMMA GoesOnForAll ==
  ASSUME RenewalInv, UNCHANGED <<kind, pc, requestVars, answer>>, flight.phase # "none",
         flight' \in [phase: {"load", "post", "save"}, loaded: {flight'.loaded},
                      fresh: {flight'.fresh}, waiters: {flight.waiters}]
  PROVE  RenewalInv'
<1>1. flight'.waiters = flight.waiters /\ RenewalTypes'
  BY DEF RenewalInv, RenewalTypes, requestVars
<1>2. ASSUME NEW c \in Calls PROVE RenewalFits(c)'
  BY <1>1 DEF RenewalInv, RenewalFits, requestVars
<1> QED BY <1>1, <1>2 DEF RenewalInv

LEMMA OwnerKeepsRenewals ==
  ASSUME RenewalInv, OwnerNext, UNCHANGED <<agentVars, requestVars>> PROVE RenewalInv'
<1>0. kind' = kind /\ answer' = answer /\ flight' = flight => UNCHANGED renewalView
  BY DEF requestVars, renewalView
<1>1. CASE LoadSession
  <2>1. UNCHANGED <<kind, pc>> /\ flight.phase = "load" BY <1>1 DEF LoadSession
  <2>2. CASE Settle("expired") BY <2>1, <2>2, SettlesForAll
  <2>3. CASE flight' = [flight EXCEPT !.phase = "post", !.loaded = file] /\ answer' = answer
    BY <2>1, <2>3, GoesOnForAll DEF RenewalInv, RenewalTypes
  <2> QED BY <1>1, <2>2, <2>3 DEF LoadSession
<1>2. CASE PostRefresh
  <2> DEFINE next == <<flight.loaded[1], flight.loaded[2] + 1>>
  <2>1. UNCHANGED <<kind, pc>> /\ flight.phase = "post" BY <1>2 DEF PostRefresh
  <2>2. CASE Settle("expired") BY <2>1, <2>2, SettlesForAll
  <2>3. CASE flight' = [flight EXCEPT !.phase = "save", !.fresh = next] /\ answer' = answer
    BY <2>1, <2>3, GoesOnForAll DEF RenewalInv, RenewalTypes
  <2> QED BY <1>2, <2>2, <2>3 DEF PostRefresh
<1>3. CASE SaveSession
  <2>1. UNCHANGED <<kind, pc>> /\ (Settle("renewed") \/ Settle("expired")) BY <1>3 DEF SaveSession
  <2> QED BY <2>1, SettlesForAll
<1>4. ASSUME NEW t \in accepted, ExpireAccess(t) PROVE RenewalInv'
  BY <1>0, <1>4, NobodyMoves DEF ExpireAccess, processVars
<1>5. ASSUME NEW c \in Calls, BindListener(c) \/ CannotLogIn(c) \/ OpenBrowser(c) PROVE RenewalInv'
  BY <1>0, <1>5, GoesElsewhere DEF BindListener, CannotLogIn, OpenBrowser, sessionVars, ownerVars
<1>6. ASSUME NEW c \in Calls, Redirect(c) PROVE RenewalInv'
  BY <1>0, <1>6, NobodyMoves DEF Redirect, processVars, sessionVars
<1>7. ASSUME NEW c \in Calls, ReadCallback(c) \/ ExchangeCode(c) PROVE RenewalInv'
  BY <1>0, <1>7, GoesElsewhere DEF ReadCallback, ExchangeCode, sessionVars
<1>8. ASSUME NEW c \in Calls, SaveLogin(c) \/ AbandonLogin(c) \/ ClearPreference(c) PROVE RenewalInv'
  BY <1>0, <1>8, GoesElsewhere DEF SaveLogin, AbandonLogin, ClearPreference, sessionVars, ownerVars
<1>9. ASSUME NEW c \in Calls, ClearSession(c) PROVE RenewalInv'
  BY <1>0, <1>9, GoesElsewhere DEF ClearSession
<1> QED BY <1>1, <1>2, <1>3, <1>4, <1>5, <1>6, <1>7, <1>8, <1>9 DEF OwnerNext

\* The request joins the renewal in flight, or starts one.
LEMMA JoinsARenewal ==
  ASSUME RenewalInv, NEW c \in Calls, pc[c] = "sending", ~refreshed[c],
         UNCHANGED <<kind, attempt, answer>>,
         refreshed' = [refreshed EXCEPT ![c] = TRUE], JoinRenewal(c), Goto(c, "renewing")
  PROVE  RenewalInv'
<1>1. /\ flight'.phase \in {"load", "post", "save"}
      /\ flight'.waiters = flight.waiters \cup {c}
      /\ flight' \in [phase: {"none", "load", "post", "save"}, loaded: {flight'.loaded},
                      fresh: {flight'.fresh}, waiters: SUBSET Calls]
  <2>1. CASE flight.phase = "none"
    BY <2>1 DEF JoinRenewal, NoFlight, RenewalInv, RenewalTypes
  <2>2. CASE flight.phase # "none"
    BY <2>2 DEF JoinRenewal, RenewalInv, RenewalTypes
  <2> QED BY <2>1, <2>2
<1>2. /\ pc' = [x \in Calls |-> pc'[x]] /\ DOMAIN pc' = Calls /\ pc'[c] = "renewing" /\ refreshed'[c] = TRUE
      /\ \A x \in Calls \ {c} : pc'[x] = pc[x] /\ refreshed'[x] = refreshed[x]
  BY DEF RenewalInv, RenewalTypes, Goto
<1>3. RenewalTypes'
  BY <1>1, <1>2 DEF RenewalInv, RenewalTypes
<1>4. RenewalFits(c)'
  BY <1>1, <1>2 DEF RenewalInv, RenewalFits
<1>5. ASSUME NEW x \in Calls \ {c} PROVE RenewalFits(x)'
  BY <1>1, <1>2 DEF RenewalInv, RenewalFits
<1> QED BY <1>3, <1>4, <1>5 DEF RenewalInv

\* One more attempt of a request, where it has one left.
LEMMA TriesAgain ==
  ASSUME RenewalInv, NEW c \in Calls, UNCHANGED <<kind, refreshed, answer, flight>>,
         attempt' = [attempt EXCEPT ![c] = @ + 1],
         attempt[c] < MaxAttempts \/ (refreshed[c] /\ attempt[c] <= MaxAttempts),
         pc[c] \in {"sending", "renewing"}, Goto(c, "sending")
  PROVE  RenewalInv'
<1>1. /\ pc' = [x \in Calls |-> pc'[x]] /\ DOMAIN pc' = Calls /\ pc'[c] = "sending"
      /\ attempt'[c] = attempt[c] + 1
      /\ \A x \in Calls \ {c} : pc'[x] = pc[x] /\ attempt'[x] = attempt[x]
  BY DEF RenewalInv, RenewalTypes, Goto
<1>2. RenewalTypes'
  <2>1. attempt' \in [Calls -> Nat]
    BY DEF RenewalInv, RenewalTypes
  <2> QED BY <1>1, <2>1 DEF RenewalInv, RenewalTypes
<1>3. RenewalFits(c)'
  BY <1>1, MaxAttemptsAssumption DEF RenewalInv, RenewalFits, RenewalTypes
<1>4. ASSUME NEW x \in Calls \ {c} PROVE RenewalFits(x)'
  BY <1>1 DEF RenewalInv, RenewalFits
<1> QED BY <1>2, <1>3, <1>4 DEF RenewalInv

LEMMA RequestKeepsRenewals == ASSUME RenewalInv, NEW c \in Calls, RequestNext(c) PROVE RenewalInv'
<1>1. CASE Request(c)
  BY <1>1, GoesElsewhere DEF Request, ownerVars, sessionVars, renewalView
<1>2. CASE ReadSituation(c) \/ SetPreference(c)
  BY <1>2, GoesElsewhere DEF ReadSituation, SetPreference, ownerVars, sessionVars, requestVars, renewalView
<1>3. CASE Answered(c) \/ Ends(c)
  BY <1>3, GoesElsewhere DEF Answered, Ends, ownerVars, sessionVars, renewalView
<1>4. CASE FailsForNow(c)
  <2>1. UNCHANGED <<kind, refreshed, answer, flight>> /\ pc[c] = "sending"
    BY <1>4 DEF FailsForNow, ownerVars, sessionVars
  <2>2. CASE attempt' = [attempt EXCEPT ![c] = @ + 1] /\ UNCHANGED pc /\ AttemptsLeft(c)
    <3>1. Goto(c, "sending") BY <2>1, <2>2 DEF Goto, RenewalInv, RenewalTypes
    <3> QED BY <2>1, <2>2, <3>1, TriesAgain DEF AttemptsLeft
  <2>3. CASE Goto(c, "failed") /\ UNCHANGED attempt
    BY <2>1, <2>3, GoesElsewhere DEF renewalView
  <2> QED BY <1>4, <2>2, <2>3 DEF FailsForNow
<1>5. CASE Unauthorized(c)
  <2>1. UNCHANGED <<kind, answer, attempt>> /\ pc[c] = "sending"
    BY <1>5 DEF Unauthorized
  <2>2. CASE ~refreshed[c] /\ refreshed' = [refreshed EXCEPT ![c] = TRUE] /\ JoinRenewal(c) /\ Goto(c, "renewing")
    BY <2>1, <2>2, JoinsARenewal
  <2>3. CASE Goto(c, "failed") /\ UNCHANGED <<refreshed, flight>>
    BY <2>1, <2>3, GoesElsewhere DEF renewalView
  <2> QED BY <1>5, <2>2, <2>3 DEF Unauthorized
<1>6. CASE Renewed(c)
  <2>1. UNCHANGED <<kind, refreshed, answer, flight>> /\ pc[c] = "renewing"
    BY <1>6 DEF Renewed, ownerVars, sessionVars
  <2>2. refreshed[c] /\ attempt[c] <= MaxAttempts
    BY <2>1 DEF RenewalInv, RenewalFits
  <2>3. CASE attempt' = [attempt EXCEPT ![c] = @ + 1] /\ Goto(c, "sending")
    BY <2>1, <2>2, <2>3, TriesAgain
  <2>4. CASE Goto(c, "failed") /\ UNCHANGED attempt
    BY <2>1, <2>4, GoesElsewhere DEF renewalView
  <2> QED BY <1>6, <2>3, <2>4 DEF Renewed
<1> QED BY <1>1, <1>2, <1>3, <1>4, <1>5, <1>6 DEF RequestNext

LEMMA RenewalStep == ASSUME RenewalInv, [Next]_vars PROVE RenewalInv'
<1>1. CASE Crash
  <2>1. /\ UNCHANGED <<kind, attempt, refreshed, answer>> /\ flight' = NoFlight
        /\ pc' = [c \in Calls |-> IF kind[c] \in ServedBy /\ Running(c) THEN "failed" ELSE pc[c]]
    BY <1>1 DEF Crash, LoseFlight, requestVars
  <2>2. \A c \in Calls : pc'[c] = "failed" \/ (pc'[c] = pc[c] /\ pc[c] \notin {"sending", "renewing"})
    BY <2>1 DEF RenewalInv, RenewalFits, ServedBy, Running
  <2>3. flight'.waiters = {} /\ RenewalTypes'
    BY <2>1 DEF NoFlight, RenewalInv, RenewalTypes
  <2>4. ASSUME NEW c \in Calls PROVE RenewalFits(c)'
    BY <2>1, <2>2, <2>3 DEF RenewalInv, RenewalFits
  <2> QED BY <2>3, <2>4 DEF RenewalInv
<1>2. CASE Boot
  BY <1>2, NobodyMoves DEF Boot, requestVars, renewalView
<1>3. CASE UNCHANGED vars
  BY <1>3, NobodyMoves DEF vars, processVars, ownerVars, sessionVars, requestVars, renewalView
<1>4. CASE AgentNext /\ UNCHANGED <<ownerVars, requestVars>>
  BY <1>4, AgentKeepsRenewals
<1>5. CASE OwnerNext /\ UNCHANGED <<agentVars, requestVars>>
  BY <1>5, OwnerKeepsRenewals
<1> QED BY <1>1, <1>2, <1>3, <1>4, <1>5, RequestKeepsRenewals DEF Next

LEMMA RenewalInit == Init => RenewalInv
<1> SUFFICES ASSUME Init PROVE RenewalInv OBVIOUS
<1>1. PICK w \in Workloads : OwnerInit(w) BY DEF Init
<1>2. flight = NoFlight /\ answer = [c \in Calls |-> "none"] BY <1>1 DEF OwnerInit
<1>3. \A c \in Calls : pc[c] \in {"idle", "done"} /\ attempt[c] = 1 /\ ~refreshed[c] BY DEF Init
<1>4. RenewalTypes
  BY <1>2, MaxAttemptsAssumption DEF Init, RenewalTypes, NoFlight
<1>5. ASSUME NEW c \in Calls PROVE RenewalFits(c)
  BY <1>2, <1>3, MaxAttemptsAssumption DEF RenewalFits, NoFlight
<1> QED BY <1>4, <1>5 DEF RenewalInv

\* The gate of owner-refresh.ts forgets nobody: whoever is awaiting a renewal is
\* told by the one in flight, nobody goes on with what another's renewal came to,
\* and no 401 loops. That the flight ends is left to fairness.
THEOREM NobodyIsForgotten == Spec => []WaitersHaveARenewal
<1>1. RenewalInv => WaitersHaveARenewal
  <2> SUFFICES ASSUME RenewalInv, NEW c \in Calls
               PROVE  /\ pc[c] = "renewing" /\ answer[c] = "none" => flight.phase # "none" /\ c \in flight.waiters
                      /\ answer[c] # "none" => refreshed[c]
                      /\ attempt[c] <= MaxAttempts + (IF refreshed[c] THEN 1 ELSE 0)
    BY DEF WaitersHaveARenewal
  <2> QED BY MaxAttemptsAssumption DEF RenewalInv, RenewalFits, RenewalTypes
<1> QED BY <1>1, RenewalInit, RenewalStep, PTL DEF Spec

----------------------------------------------------------------------------
\* The types. What each variable holds, beyond what the vault, the login and the
\* renewals above needed: calls are of the kinds the model knows, tokens are of
\* logins that were made, keys are keys that were minted, and each was minted for
\* an identity that somebody created.
CallsFit ==
  /\ DOMAIN pc = Calls /\ kind \in [Calls -> Kinds]
  /\ \A c \in Calls : kind[c] = "none" => pc[c] = "done"

ProcessFits ==
  /\ up \in BOOLEAN /\ envKey \in BOOLEAN /\ faults \in 0..MaxFaults
  /\ selection \in Personas \cup {"none"} /\ selected \in Personas \cup {"none"}

LEMMA CallGoesOn ==
  ASSUME CallsFit, UNCHANGED kind, NEW c \in Calls, pc[c] # "done" \/ kind[c] # "none",
         NEW where, Goto(c, where)
  PROVE  CallsFit'
BY DEF CallsFit, Goto

LEMMA CallsStay == ASSUME CallsFit, UNCHANGED <<kind, pc>> PROVE CallsFit'
BY DEF CallsFit

LEMMA OwnerCallsFit == ASSUME CallsFit, OwnerNext PROVE CallsFit'
<1>1. CASE LoadSession \/ PostRefresh \/ SaveSession \/ \E t \in accepted : ExpireAccess(t)
  BY <1>1, CallsStay DEF LoadSession, PostRefresh, SaveSession, ExpireAccess, processVars
<1>2. ASSUME NEW c \in Calls, BindListener(c) \/ CannotLogIn(c) \/ OpenBrowser(c) \/ Redirect(c)
      PROVE CallsFit'
  BY <1>2, CallsStay, CallGoesOn DEF BindListener, CannotLogIn, OpenBrowser, Redirect, processVars
<1>3. ASSUME NEW c \in Calls, ReadCallback(c) \/ ExchangeCode(c) PROVE CallsFit'
  BY <1>3, CallGoesOn DEF ReadCallback, ExchangeCode
<1>4. ASSUME NEW c \in Calls, SaveLogin(c) \/ AbandonLogin(c) PROVE CallsFit'
  BY <1>4, CallGoesOn DEF SaveLogin, AbandonLogin
<1>5. ASSUME NEW c \in Calls, ClearSession(c) \/ ClearPreference(c) PROVE CallsFit'
  BY <1>5, CallGoesOn DEF ClearSession, ClearPreference
<1> QED BY <1>1, <1>2, <1>3, <1>4, <1>5 DEF OwnerNext

LEMMA AgentCallsFit == ASSUME CallsFit, AgentNext PROVE CallsFit'
<1>1. ASSUME NEW c \in Calls, CannotRegister(c) \/ CheckIdentity(c) \/ SaveIdentity(c) \/ NotVerified(c)
      PROVE CallsFit'
  BY <1>1, CallGoesOn DEF CannotRegister, CheckIdentity, SaveIdentity, NotVerified
<1>2. ASSUME NEW c \in Calls, OpenAgent(c) PROVE CallsFit'
  BY <1>2, CallGoesOn DEF OpenAgent
<1>3. ASSUME NEW c \in Calls, Register(c) PROVE CallsFit'
  BY <1>3, CallGoesOn DEF Register
<1>4. ASSUME NEW c \in Calls, AskKeyState(c) \/ AskActivate(c) PROVE CallsFit'
  BY <1>4, CallGoesOn DEF AskKeyState, AskActivate, AskVault
<1>5. ASSUME NEW c \in Calls, KeyState(c) PROVE CallsFit'
  BY <1>5, CallGoesOn DEF KeyState
<1>6. ASSUME NEW c \in Calls, LoadVault(c) PROVE CallsFit'
  BY <1>6, CallGoesOn DEF LoadVault
<1>7. ASSUME NEW c \in Calls, SaveVault(c) \/ ReadBack(c) \/ SetActiveKey(c) PROVE CallsFit'
  BY <1>7, CallGoesOn DEF SaveVault, ReadBack, SetActiveKey
<1>8. ASSUME NEW c \in Calls, Census(c) \/ RevokeSuperseded(c) \/ RevokeKey(c) PROVE CallsFit'
  BY <1>8, CallGoesOn DEF Census, RevokeSuperseded, RevokeKey
<1>9. ASSUME NEW c \in Calls, Mint(c) PROVE CallsFit'
  BY <1>9, CallGoesOn DEF Mint, AskVault
<1> QED BY <1>1, <1>2, <1>3, <1>4, <1>5, <1>6, <1>7, <1>8, <1>9 DEF AgentNext

LEMMA CallsFitStep == ASSUME CallsFit, [Next]_vars PROVE CallsFit'
<1>1. ASSUME NEW c \in Calls, RequestNext(c) PROVE CallsFit'
  <2>1. CASE Request(c) \/ Answered(c) \/ Ends(c)
    BY <2>1, CallGoesOn DEF Request, Answered, Ends
  <2>2. CASE FailsForNow(c)
    BY <2>2, CallGoesOn, CallsStay DEF FailsForNow
  <2>3. CASE Unauthorized(c) \/ Renewed(c)
    BY <2>3, CallGoesOn DEF Unauthorized, Renewed
  <2>4. CASE ReadSituation(c) \/ SetPreference(c)
    BY <2>4, CallGoesOn DEF ReadSituation, SetPreference
  <2> QED BY <1>1, <2>1, <2>2, <2>3, <2>4 DEF RequestNext
<1>2. CASE Crash
  <2>1. /\ pc' = [c \in Calls |-> IF kind[c] \in ServedBy /\ Running(c) THEN "failed" ELSE pc[c]]
        /\ kind' = kind
    BY <1>2 DEF Crash
  <2> QED BY <2>1 DEF CallsFit, Running
<1>3. CASE Boot BY <1>3, CallsStay DEF Boot
<1>4. CASE UNCHANGED vars BY <1>4, CallsStay DEF vars, processVars
<1> QED BY <1>1, <1>2, <1>3, <1>4, OwnerCallsFit, AgentCallsFit DEF Next

\* One more fault, where the bound leaves one.
LEMMA FaultsStayBounded ==
  ASSUME faults \in 0..MaxFaults, faults' = faults \/ (faults < MaxFaults /\ faults' = faults + 1)
  PROVE  faults' \in 0..MaxFaults
BY MaxFaultsAssumption

LEMMA ProcessStays ==
  ASSUME ProcessFits, UNCHANGED <<up, envKey, selection, selected>>,
         faults' = faults \/ (faults < MaxFaults /\ faults' = faults + 1)
  PROVE  ProcessFits'
BY FaultsStayBounded DEF ProcessFits

LEMMA OwnerProcessFits == ASSUME ProcessFits, OwnerNext PROVE ProcessFits'
<1>1. CASE LoadSession BY <1>1, ProcessStays DEF LoadSession
<1>2. CASE PostRefresh BY <1>2, ProcessStays DEF PostRefresh
<1>3. CASE SaveSession BY <1>3, ProcessStays DEF SaveSession
<1>4. ASSUME NEW c \in Calls, BindListener(c) \/ CannotLogIn(c) \/ OpenBrowser(c) \/ Redirect(c)
      PROVE ProcessFits'
  BY <1>4, ProcessStays DEF BindListener, CannotLogIn, OpenBrowser, Redirect, processVars
<1>5. ASSUME NEW c \in Calls, ReadCallback(c) \/ ExchangeCode(c) \/ AbandonLogin(c) PROVE ProcessFits'
  BY <1>5, ProcessStays DEF ReadCallback, ExchangeCode, AbandonLogin
<1>6. ASSUME NEW c \in Calls, SaveLogin(c) PROVE ProcessFits'
  BY <1>6, ProcessStays DEF SaveLogin
<1>7. ASSUME NEW c \in Calls, ClearSession(c) PROVE ProcessFits'
  BY <1>7, ProcessStays DEF ClearSession
<1>8. ASSUME NEW c \in Calls, ClearPreference(c) PROVE ProcessFits'
  BY <1>8 DEF ClearPreference, ProcessFits
<1>9. ASSUME NEW t \in accepted, ExpireAccess(t) PROVE ProcessFits'
  BY <1>9, ProcessStays DEF ExpireAccess, processVars
<1> QED BY <1>1, <1>2, <1>3, <1>4, <1>5, <1>6, <1>7, <1>8, <1>9 DEF OwnerNext

LEMMA AgentProcessFits == ASSUME ProcessFits, AgentNext PROVE ProcessFits'
<1> USE DEF Fault
<1>1. ASSUME NEW c \in Calls, CannotRegister(c) \/ CheckIdentity(c) \/ SaveIdentity(c) \/ NotVerified(c)
      PROVE ProcessFits'
  BY <1>1, ProcessStays DEF CannotRegister, CheckIdentity, SaveIdentity, NotVerified
<1>2. ASSUME NEW c \in Calls, OpenAgent(c) PROVE ProcessFits'
  BY <1>2, ProcessStays DEF OpenAgent
<1>3. ASSUME NEW c \in Calls, Register(c) PROVE ProcessFits'
  BY <1>3, ProcessStays DEF Register
<1>4. ASSUME NEW c \in Calls, AskKeyState(c) \/ AskActivate(c) PROVE ProcessFits'
  BY <1>4, ProcessStays DEF AskKeyState, AskActivate
<1>5. ASSUME NEW c \in Calls, KeyState(c) PROVE ProcessFits'
  BY <1>5, ProcessStays DEF KeyState
<1>6. ASSUME NEW c \in Calls, LoadVault(c) PROVE ProcessFits'
  BY <1>6, ProcessStays DEF LoadVault
<1>7. ASSUME NEW c \in Calls, SaveVault(c) \/ ReadBack(c) \/ SetActiveKey(c) PROVE ProcessFits'
  BY <1>7, ProcessStays DEF SaveVault, ReadBack, SetActiveKey
<1>8. ASSUME NEW c \in Calls, Census(c) \/ RevokeSuperseded(c) \/ RevokeKey(c) PROVE ProcessFits'
  BY <1>8, ProcessStays DEF Census, RevokeSuperseded, RevokeKey
<1>9. ASSUME NEW c \in Calls, Mint(c) PROVE ProcessFits'
  BY <1>9, ProcessStays DEF Mint
<1> QED BY <1>1, <1>2, <1>3, <1>4, <1>5, <1>6, <1>7, <1>8, <1>9 DEF AgentNext

LEMMA ProcessFitsStep == ASSUME ProcessFits, [Next]_vars PROVE ProcessFits'
<1> USE DEF Fault
<1>1. ASSUME NEW c \in Calls, RequestNext(c) PROVE ProcessFits'
  <2>1. CASE Request(c) \/ Answered(c) \/ Ends(c) \/ FailsForNow(c)
    BY <2>1, ProcessStays DEF Request, Answered, Ends, FailsForNow
  <2>2. CASE Unauthorized(c) \/ Renewed(c) \/ ReadSituation(c)
    BY <2>2, ProcessStays DEF Unauthorized, Renewed, ReadSituation
  <2>3. CASE SetPreference(c)
    BY <2>3 DEF SetPreference, Wanted, Personas, ProcessFits
  <2> QED BY <1>1, <2>1, <2>2, <2>3 DEF RequestNext
<1>2. CASE Crash BY <1>2, FaultsStayBounded DEF Crash, ProcessFits
<1>3. CASE Boot BY <1>3, FaultsStayBounded DEF Boot, ProcessFits
<1>4. CASE UNCHANGED vars BY <1>4, ProcessStays DEF vars, processVars
<1> QED BY <1>1, <1>2, <1>3, <1>4, OwnerProcessFits, AgentProcessFits DEF Next

\* Attempts are counted from one.
AttemptsFit == attempt \in [Calls -> Nat \ {0}]

LEMMA AttemptsFitStep == ASSUME AttemptsFit, [Next]_vars PROVE AttemptsFit'
<1>1. ASSUME NEW c \in Calls, RequestNext(c)
      PROVE  attempt' = attempt \/ attempt' = [attempt EXCEPT ![c] = @ + 1]
  <2>1. CASE Request(c) \/ Answered(c) \/ Ends(c) \/ FailsForNow(c)
    BY <2>1 DEF Request, Answered, Ends, FailsForNow
  <2>2. CASE Unauthorized(c) \/ Renewed(c) \/ ReadSituation(c) \/ SetPreference(c)
    BY <2>2 DEF Unauthorized, Renewed, ReadSituation, SetPreference, requestVars
  <2> QED BY <1>1, <2>1, <2>2 DEF RequestNext
<1>2. (\E c \in Calls : RequestNext(c)) \/ attempt' = attempt
  BY DEF Next, Crash, Boot, vars, requestVars
<1> QED BY <1>1, <1>2 DEF AttemptsFit

\* The loopback port, the browsers and the answers to those who await a renewal.
LoginFits ==
  /\ answer \in [Calls -> {"none", "renewed", "expired"}]
  /\ port \in Calls \cup {None} /\ redirects \subseteq Calls
  /\ reply \in [Calls -> Calls \cup {None}]

LEMMA LoginStays == ASSUME LoginFits, UNCHANGED <<answer, loginVars>> PROVE LoginFits'
BY DEF LoginFits, loginVars

LEMMA AnswersFit ==
  ASSUME LoginFits, NEW outcome \in {"renewed", "expired"}, Settle(outcome),
         UNCHANGED <<port, redirects, reply>>
  PROVE  LoginFits'
BY DEF LoginFits, Settle

LEMMA OwnerLoginFits == ASSUME LoginFits, OwnerNext PROVE LoginFits'
<1> USE DEF loginVars
<1>1. CASE LoadSession BY <1>1, AnswersFit, LoginStays DEF LoadSession
<1>2. CASE PostRefresh BY <1>2, AnswersFit, LoginStays DEF PostRefresh
<1>3. CASE SaveSession BY <1>3, AnswersFit DEF SaveSession
<1>4. ASSUME NEW c \in Calls, BindListener(c) PROVE LoginFits'
  BY <1>4 DEF BindListener, sessionVars, LoginFits
<1>5. ASSUME NEW c \in Calls, OpenBrowser(c) PROVE LoginFits'
  BY <1>5 DEF OpenBrowser, sessionVars, LoginFits
<1>6. ASSUME NEW c \in Calls, Redirect(c) PROVE LoginFits'
  <2>1. /\ port \in Calls \cup {None} /\ reply \in [Calls -> Calls \cup {None}]
        /\ reply' = reply \/ (port # None /\ reply' = [reply EXCEPT ![port] = c])
    BY <1>6 DEF Redirect, LoginFits
  <2>2. reply' \in [Calls -> Calls \cup {None}] BY <2>1
  <2> QED BY <1>6, <2>2 DEF Redirect, sessionVars, LoginFits
<1>7. ASSUME NEW c \in Calls, ReadCallback(c) PROVE LoginFits'
  BY <1>7 DEF ReadCallback, Release, sessionVars, LoginFits
<1>8. ASSUME NEW c \in Calls, ExchangeCode(c) \/ AbandonLogin(c) PROVE LoginFits'
  BY <1>8 DEF ExchangeCode, AbandonLogin, Release, sessionVars, LoginFits
<1>9. ASSUME NEW c \in Calls, SaveLogin(c) PROVE LoginFits'
  BY <1>9 DEF SaveLogin, LoginFits
<1>10. ASSUME NEW c \in Calls, CannotLogIn(c) \/ ClearSession(c) \/ ClearPreference(c) PROVE LoginFits'
  BY <1>10, LoginStays DEF CannotLogIn, ClearSession, ClearPreference, ownerVars, sessionVars
<1>11. ASSUME NEW t \in accepted, ExpireAccess(t) PROVE LoginFits'
  BY <1>11, LoginStays DEF ExpireAccess
<1> QED BY <1>1, <1>2, <1>3, <1>4, <1>5, <1>6, <1>7, <1>8, <1>9, <1>10, <1>11 DEF OwnerNext

LEMMA LoginFitsStep == ASSUME LoginFits, [Next]_vars PROVE LoginFits'
<1> USE DEF ownerVars, sessionVars, loginVars
<1>1. ASSUME NEW c \in Calls, RequestNext(c) PROVE LoginFits'
  <2>1. CASE Request(c) \/ Answered(c) \/ Ends(c) \/ FailsForNow(c)
    BY <2>1, LoginStays DEF Request, Answered, Ends, FailsForNow
  <2>2. CASE Unauthorized(c) \/ Renewed(c) \/ ReadSituation(c) \/ SetPreference(c)
    BY <2>2, LoginStays DEF Unauthorized, Renewed, ReadSituation, SetPreference
  <2> QED BY <1>1, <2>1, <2>2 DEF RequestNext
<1>2. CASE Crash BY <1>2, LoginStays DEF Crash
<1>3. CASE Boot BY <1>3, LoginStays DEF Boot
<1>4. CASE UNCHANGED ownerVars BY <1>4, LoginStays
<1> QED BY <1>1, <1>2, <1>3, <1>4, OwnerLoginFits DEF Next, vars

\* The tokens. Every one that is remembered is of a login that was made.
TokensFit ==
  /\ live \in Seq(Nat \ {0}) /\ ownerToken \in Sessions
  /\ accepted \subseteq Tokens /\ renewable \subseteq 1..Len(live)
  /\ lost \subseteq Tokens /\ twice \subseteq Tokens

LEMMA TokensStay ==
  ASSUME TokensFit, live' = live, renewable' = renewable, accepted' \subseteq Tokens,
         ownerToken' \in Sessions, lost' \subseteq Tokens, twice' \subseteq Tokens
  PROVE  TokensFit'
BY DEF TokensFit, Sessions, Tokens

LEMMA RotationFits ==
  ASSUME TokensFit, NEW t \in Tokens, live' = [live EXCEPT ![t[1]] = t[2] + 1],
         accepted' = accepted \cup {<<t[1], t[2] + 1>>}, UNCHANGED <<renewable, ownerToken, twice>>,
         lost' \subseteq Tokens
  PROVE  TokensFit'
<1>1. t[1] \in 1..Len(live) /\ t[2] + 1 \in Nat \ {0} BY DEF Tokens
<1>2. live' \in Seq(Nat \ {0}) /\ Len(live') = Len(live) BY <1>1 DEF TokensFit
<1>3. Tokens' = Tokens BY <1>2 DEF Tokens
<1>4. <<t[1], t[2] + 1>> \in Tokens BY <1>1 DEF Tokens
<1> QED BY <1>2, <1>3, <1>4 DEF TokensFit, Sessions

LEMMA LoginMakesTokens ==
  ASSUME TokensFit, NEW c \in Calls, ExchangeCode(c) PROVE TokensFit'
<1> DEFINE f == Len(live) + 1
<1>1. UNCHANGED <<ownerToken, lost, twice>> BY DEF ExchangeCode, historyVars
<1>2. CASE UNCHANGED <<live, accepted, renewable>>
  BY <1>1, <1>2, TokensStay DEF TokensFit
<1>3. CASE /\ live' = Append(live, 1) /\ accepted' = accepted \cup {<<f, 1>>}
           /\ renewable' = renewable \/ renewable' = renewable \cup {f}
  <2>1. live' \in Seq(Nat \ {0}) /\ Len(live') = f /\ Len(live) \in Nat BY <1>3 DEF TokensFit
  <2>2. Tokens \subseteq Tokens' /\ <<f, 1>> \in Tokens' BY <2>1 DEF Tokens
  <2>3. 1..Len(live) \subseteq 1..Len(live') /\ f \in 1..Len(live') BY <2>1
  <2>4. ownerToken \in Sessions' BY <2>2 DEF TokensFit, Sessions
  <2> QED BY <1>1, <1>3, <2>1, <2>2, <2>3, <2>4 DEF TokensFit
<1> QED BY <1>2, <1>3 DEF ExchangeCode

LEMMA OwnerTokensFit == ASSUME TokensFit, SessionInv, OwnerNext PROVE TokensFit'
<1>0. /\ lost \subseteq Tokens /\ twice \subseteq Tokens /\ accepted \subseteq Tokens
      /\ ownerToken \in Sessions /\ flight.fresh \in Sessions
      /\ flight.phase \in {"post", "save"} => flight.loaded \in Tokens
  BY DEF TokensFit, SessionInv, SessionTypes, InFlight
<1>1. CASE LoadSession BY <1>0, <1>1, TokensStay DEF LoadSession, historyVars
<1>2. CASE PostRefresh
  <2>1. UNCHANGED <<renewable, ownerToken>> /\ flight.phase = "post" BY <1>2 DEF PostRefresh
  <2>2. CASE /\ live' = [live EXCEPT ![flight.loaded[1]] = flight.loaded[2] + 1]
             /\ accepted' = accepted \cup {<<flight.loaded[1], flight.loaded[2] + 1>>}
             /\ lost' \in {lost, lost \cup {flight.loaded}} /\ twice' = twice
    BY <1>0, <2>1, <2>2, RotationFits
  <2>3. CASE UNCHANGED <<live, accepted, lost>> /\ twice' \in {twice, twice \cup {flight.loaded}}
    BY <1>0, <2>1, <2>3, TokensStay
  <2> QED BY <1>2, <2>2, <2>3 DEF PostRefresh
<1>3. CASE SaveSession BY <1>0, <1>3, TokensStay DEF SaveSession
<1>4. ASSUME NEW c \in Calls, BindListener(c) \/ CannotLogIn(c) \/ OpenBrowser(c) \/ Redirect(c)
      PROVE TokensFit'
  BY <1>0, <1>4, TokensStay
     DEF BindListener, CannotLogIn, OpenBrowser, Redirect, ownerVars, sessionVars, historyVars
<1>5. ASSUME NEW c \in Calls, ReadCallback(c) \/ SaveLogin(c) \/ AbandonLogin(c) PROVE TokensFit'
  BY <1>0, <1>5, TokensStay DEF ReadCallback, SaveLogin, AbandonLogin, sessionVars, historyVars
<1>6. ASSUME NEW c \in Calls, ClearSession(c) \/ ClearPreference(c) PROVE TokensFit'
  BY <1>0, <1>6, TokensStay DEF ClearSession, ClearPreference, ownerVars, sessionVars, historyVars
<1>7. ASSUME NEW t \in accepted, ExpireAccess(t) PROVE TokensFit'
  BY <1>0, <1>7, TokensStay DEF ExpireAccess, historyVars
<1> QED BY <1>1, <1>2, <1>3, <1>4, <1>5, <1>6, <1>7, LoginMakesTokens DEF OwnerNext

LEMMA TokensFitStep == ASSUME TokensFit, SessionInv, [Next]_vars PROVE TokensFit'
<1>0. /\ lost \subseteq Tokens /\ twice \subseteq Tokens /\ accepted \subseteq Tokens
      /\ ownerToken \in Sessions /\ file \in Sessions /\ NoSession \in Sessions
      /\ flight.phase \in {"post", "save"} => flight.loaded \in Tokens
  BY DEF TokensFit, SessionInv, SessionTypes, InFlight, Sessions
<1>1. CASE UNCHANGED <<ownerToken, live, accepted, renewable, lost, twice>>
  BY <1>0, <1>1, TokensStay
<1>2. ASSUME NEW c \in Calls, RequestNext(c)
      PROVE  UNCHANGED <<ownerToken, live, accepted, renewable, lost, twice>>
  <2> USE DEF ownerVars, sessionVars, historyVars
  <2>1. CASE Request(c) \/ Answered(c) \/ Ends(c) \/ FailsForNow(c)
    BY <2>1 DEF Request, Answered, Ends, FailsForNow
  <2>2. CASE Unauthorized(c) \/ Renewed(c) \/ ReadSituation(c) \/ SetPreference(c)
    BY <2>2 DEF Unauthorized, Renewed, ReadSituation, SetPreference
  <2> QED BY <1>2, <2>1, <2>2 DEF RequestNext
<1>3. CASE Crash BY <1>0, <1>3, TokensStay DEF Crash, LoseFlight
<1>4. CASE Boot BY <1>0, <1>4, TokensStay DEF Boot, SeedOwner, historyVars
<1>5. CASE UNCHANGED ownerVars BY <1>1, <1>5 DEF ownerVars, sessionVars, historyVars
<1> QED BY <1>1, <1>2, <1>3, <1>4, <1>5, OwnerTokensFit DEF Next, vars

\* The keys. Those anybody remembers were minted, and whoever has opened an
\* identity holds one that was created: keys are minted for no other.
Holders == Calls \cup {Earlier}
Acting == {"registering", "verifying", "choosing", "looking", "counting", "minting"}

KeysFit ==
  /\ accounts \subseteq Holders /\ minted \in Seq([mode: Modes, of: Holders])
  /\ revoked \subseteq KeyIds /\ storeKey \in KeyIds \cup {None} /\ staleKey \in BOOLEAN
  /\ \A c \in Calls : arg[c].census \subseteq KeyIds
  /\ \A c \in Calls : pc[c] \in Acting => arg[c].agent \in Holders

\* The step of one tool, that only adds keys.
KeysStep(c, where) ==
  /\ Goto(c, where) /\ \A d \in Calls \ {c} : arg'[d] = arg[d]
  /\ accounts' \subseteq Holders
  /\ minted' \in Seq([mode: Modes, of: Holders]) /\ Len(minted) <= Len(minted')
  /\ revoked' \subseteq KeyIds /\ storeKey' \in KeyIds \cup {None} /\ staleKey' \in BOOLEAN
  /\ arg'[c].census \subseteq KeyIds
  /\ where \in Acting => arg'[c].agent \in Holders

LEMMA KeysGrow ==
  ASSUME KeysFit, VaultTypes, NEW c \in Calls, NEW where, KeysStep(c, where) PROVE KeysFit'
<1>1. KeyIds \subseteq KeyIds' BY DEF KeysFit, KeysStep, KeyIds
<1>2. pc'[c] = where /\ \A d \in Calls \ {c} : pc'[d] = pc[d] /\ arg'[d] = arg[d]
  BY DEF VaultTypes, KeysStep, Goto
<1> QED BY <1>1, <1>2 DEF KeysFit, KeysStep

\* A tool that leaves the keys as they are, and its own identity and count too.
LEMMA KeysStay ==
  ASSUME KeysFit, VaultTypes, NEW c \in Calls, NEW where, Goto(c, where),
         UNCHANGED <<accounts, minted, storeKey, staleKey>>, revoked' \subseteq KeyIds,
         \A d \in Calls : arg'[d].agent = arg[d].agent /\ arg'[d].census = arg[d].census,
         where \in Acting => pc[c] \in Acting
  PROVE  KeysFit'
<1>1. KeyIds' = KeyIds BY DEF KeyIds
<1>2. pc'[c] = where /\ \A d \in Calls \ {c} : pc'[d] = pc[d]
  BY DEF VaultTypes, Goto
<1> QED BY <1>1, <1>2 DEF KeysFit

LEMMA NoKeysMove == ASSUME KeysFit, UNCHANGED <<pc, agentVars>> PROVE KeysFit'
BY DEF KeysFit, agentVars, KeyIds

LEMMA KeysBeside ==
  ASSUME KeysFit, VaultTypes, UNCHANGED agentVars, NEW c \in Calls, NEW where, Goto(c, where),
         where \notin Acting
  PROVE  KeysFit'
BY KeysStay DEF agentVars, KeysFit

\* What is presented after a write is a key of the vault that was written.
LEMMA ServedIsMinted ==
  ASSUME VaultInv, NEW c \in Calls, pc[c] = "presenting"
  PROVE  ActiveKey(arg[c].loaded) \in KeyIds \cup {None}
<1>1. arg[c].loaded = vault BY DEF VaultInv, HeadIsCurrent, Operating
<1>2. Held(vault) \subseteq KeyIds BY DEF VaultInv, KeysAreKnown
<1> QED BY <1>1, <1>2 DEF ActiveKey, Held

LEMMA AgentKeysFit == ASSUME KeysFit, VaultInv, AgentNext PROVE KeysFit'
<1>0. /\ VaultTypes /\ arg \in [Calls -> Args]
      /\ revoked \subseteq KeyIds /\ \A c \in Calls : arg[c].census \subseteq KeyIds
  BY DEF VaultInv, VaultTypes, KeysFit
<1> USE DEF Acting
<1>1. ASSUME NEW c \in Calls, CannotRegister(c) \/ CheckIdentity(c) \/ NotVerified(c) PROVE KeysFit'
  BY <1>0, <1>1, KeysBeside DEF CannotRegister, CheckIdentity, NotVerified
<1>2. ASSUME NEW c \in Calls, OpenAgent(c) PROVE KeysFit'
  <2>1. CASE ~IdentityStored
    <3>1. UNCHANGED agentVars /\ (Goto(c, "absent") \/ Goto(c, "failed"))
      BY <1>2, <2>1 DEF OpenAgent, agentVars
    <3> QED BY <1>0, <3>1, KeysBeside
  <2>2. CASE IdentityStored
    <3>1. identity \in Holders BY <1>0, <2>2 DEF VaultTypes, IdentityStored, Owners, Holders
    <3>2. /\ arg'[c].agent = identity /\ arg'[c].census = arg[c].census
          /\ \A d \in Calls \ {c} : arg'[d] = arg[d]
      BY <1>0, <1>2, <2>2 DEF OpenAgent, Set, Args
    <3>3. UNCHANGED <<accounts, minted, revoked, storeKey, staleKey>> BY <1>2 DEF OpenAgent
    <3>4. PICK w \in {"registering", "verifying", "choosing", "confirmed", "absent", "failed"} : Goto(c, w)
      BY <1>2 DEF OpenAgent
    <3>5. KeysStep(c, w) BY <1>0, <3>1, <3>2, <3>3, <3>4 DEF KeysFit, KeysStep
    <3> QED BY <1>0, <3>5, KeysGrow
  <2> QED BY <2>1, <2>2
<1>3. ASSUME NEW c \in Calls, SaveIdentity(c) PROVE KeysFit'
  <2>1. /\ arg'[c].agent = c /\ arg'[c].census = arg[c].census
        /\ \A d \in Calls \ {c} : arg'[d] = arg[d]
    BY <1>0, <1>3 DEF SaveIdentity, Set, Args
  <2>2. KeysStep(c, "registering")
    BY <1>0, <1>3, <2>1 DEF SaveIdentity, Holders, KeysFit, KeysStep
  <2> QED BY <1>0, <2>2, KeysGrow
<1>4. ASSUME NEW c \in Calls, Register(c) PROVE KeysFit'
  <2> DEFINE a == arg[c].agent
             pair == <<[mode |-> "test", of |-> a], [mode |-> "live", of |-> a]>>
  <2>1. a \in Holders /\ pc[c] = "registering" BY <1>4 DEF Register, KeysFit
  <2>2. /\ minted \o pair \in Seq([mode: Modes, of: Holders]) /\ minted \in Seq([mode: Modes, of: Holders])
        /\ Len(minted) <= Len(minted \o pair) /\ Len(minted) <= Len(minted)
    <3>1. pair \in Seq([mode: Modes, of: Holders]) /\ Len(pair) = 2 BY <2>1 DEF Modes
    <3> QED BY <3>1 DEF KeysFit
  <2>3. /\ \A d \in Calls \ {c} : arg'[d] = arg[d]
        /\ arg'[c].census = arg[c].census
    <3>1. CASE arg' = arg BY <3>1
    <3>2. CASE \E m \in Modes : arg' = [arg EXCEPT ![c].key = Len(minted) + 1, ![c].mode = m]
      BY <1>0, <3>2 DEF Args
    <3> QED BY <1>4, <3>1, <3>2 DEF Register
  <2>4. PICK w \in {"storing", "failed"} : Goto(c, w) BY <1>4 DEF Register
  <2>5. minted' \in {minted, minted \o pair} /\ accounts' \in {accounts, accounts \cup {a}}
    BY <1>4 DEF Register
  <2>6. UNCHANGED <<revoked, storeKey, staleKey>> BY <1>4 DEF Register
  <2>7. minted' \in Seq([mode: Modes, of: Holders]) /\ Len(minted) <= Len(minted')
    BY <2>2, <2>5
  <2>8. KeysStep(c, w)
    BY <1>0, <2>1, <2>3, <2>4, <2>5, <2>6, <2>7 DEF KeysFit, KeysStep
  <2> QED BY <1>0, <2>8, KeysGrow
<1>5. ASSUME NEW c \in Calls, AskKeyState(c) PROVE KeysFit'
  <2>1. \A d \in Calls : arg'[d].agent = arg[d].agent /\ arg'[d].census = arg[d].census
    <3>1. CASE arg' = arg BY <3>1
    <3>2. CASE \E m \in Modes, a \in BOOLEAN : arg' = [arg EXCEPT ![c].mode = m, ![c].activate = a]
      BY <1>0, <3>2 DEF Args
    <3> QED BY <1>5, <3>1, <3>2 DEF AskKeyState
  <2> QED BY <1>0, <1>5, <2>1, KeysStay DEF AskKeyState, AskVault
<1>6. ASSUME NEW c \in Calls, AskActivate(c) PROVE KeysFit'
  <2>1. \A d \in Calls : arg'[d].agent = arg[d].agent /\ arg'[d].census = arg[d].census
    BY <1>0, <1>6 DEF AskActivate, Set, Args
  <2> QED BY <1>0, <1>6, <2>1, KeysStay DEF AskActivate, AskVault
<1>7. ASSUME NEW c \in Calls, KeyState(c) PROVE KeysFit'
  <2>1. \A d \in Calls : arg'[d].agent = arg[d].agent /\ arg'[d].census = arg[d].census
    <3>1. CASE arg' = arg BY <3>1
    <3>2. CASE arg' = [arg EXCEPT ![c]["mode"] = vault.active] BY <1>0, <3>2 DEF Args
    <3> QED BY <1>7, <3>1, <3>2 DEF KeyState, Set
  <2>2. PICK w \in {"counting", "minting", "failed"} : Goto(c, w) BY <1>7 DEF KeyState
  <2>3. UNCHANGED <<accounts, minted, revoked, storeKey, staleKey>> /\ pc[c] = "looking"
    BY <1>7 DEF KeyState
  <2> QED BY <1>0, <2>1, <2>2, <2>3, KeysStay
<1>8. ASSUME NEW c \in Calls, LoadVault(c) PROVE KeysFit'
  <2>1. \A d \in Calls : arg'[d].agent = arg[d].agent /\ arg'[d].census = arg[d].census
    <3>1. CASE arg' = arg BY <3>1
    <3>2. CASE arg' = [arg EXCEPT ![c]["loaded"] = vault] BY <1>0, <3>2 DEF Args
    <3> QED BY <1>8, <3>1, <3>2 DEF LoadVault, Set
  <2>2. PICK w \in {"writing", "failed"} : Goto(c, w) BY <1>8 DEF LoadVault
  <2>3. UNCHANGED <<accounts, minted, revoked, storeKey, staleKey>> BY <1>8 DEF LoadVault
  <2> QED BY <1>0, <2>1, <2>2, <2>3, KeysStay
<1>9. ASSUME NEW c \in Calls, SaveVault(c) \/ ReadBack(c) \/ SetActiveKey(c) PROVE KeysFit'
  <2>1. UNCHANGED <<accounts, minted, revoked>> /\ pc[c] \in {"writing", "checking", "presenting"}
    BY <1>9 DEF SaveVault, ReadBack, SetActiveKey
  <2>2. storeKey' \in KeyIds \cup {None} /\ staleKey' \in BOOLEAN
    <3>1. CASE SaveVault(c) BY <3>1 DEF SaveVault, KeysFit
    <3>2. CASE ReadBack(c) BY <3>2 DEF ReadBack, KeysFit
    <3>3. CASE SetActiveKey(c) BY <3>3, ServedIsMinted DEF SetActiveKey
    <3> QED BY <1>9, <3>1, <3>2, <3>3
  <2>3. PICK w \in {"checking", "presenting", "revoking", "done", "failed"} : Goto(c, w)
    BY <1>9 DEF SaveVault, ReadBack, SetActiveKey
  <2>4. /\ \A d \in Calls \ {c} : arg'[d] = arg[d]
        /\ arg'[c].agent = arg[c].agent /\ arg'[c].census = arg[c].census
    <3>1. CASE arg' = arg BY <3>1
    <3>2. CASE arg' = [arg EXCEPT ![c]["loaded"] = vault] BY <1>0, <3>2 DEF Args
    <3> QED BY <1>9, <3>1, <3>2 DEF SaveVault, ReadBack, SetActiveKey, Set
  <2>5. KeysStep(c, w) BY <1>0, <2>1, <2>2, <2>3, <2>4 DEF KeysFit, KeysStep
  <2> QED BY <1>0, <2>5, KeysGrow
<1>10. ASSUME NEW c \in Calls, Census(c) PROVE KeysFit'
  <2>1. UNCHANGED <<accounts, minted, revoked, storeKey, staleKey>> /\ Goto(c, "minting") /\ pc[c] = "counting"
    BY <1>10 DEF Census
  <2>2. /\ arg'[c].agent = arg[c].agent /\ arg'[c].census \subseteq KeyIds
        /\ \A d \in Calls \ {c} : arg'[d] = arg[d]
    <3>1. CASE arg' = arg BY <1>0, <3>1
    <3>2. CASE arg' = [arg EXCEPT ![c]["census"] = LiveKeysOf(c)]
      BY <1>0, <3>2 DEF Args, LiveKeysOf
    <3> QED BY <1>10, <3>1, <3>2 DEF Census, Set
  <2>3. KeysStep(c, "minting") BY <1>0, <2>1, <2>2 DEF KeysFit, KeysStep
  <2> QED BY <1>0, <2>3, KeysGrow
<1>11. ASSUME NEW c \in Calls, Mint(c) PROVE KeysFit'
  <2> DEFINE new == [mode |-> arg[c].mode, of |-> arg[c].agent]
  <2>1. new \in [mode: Modes, of: Holders] BY <1>0, <1>11 DEF Mint, KeysFit, Args
  <2>2. /\ Append(minted, new) \in Seq([mode: Modes, of: Holders])
        /\ minted \in Seq([mode: Modes, of: Holders])
        /\ Len(minted) <= Len(Append(minted, new)) /\ Len(minted) <= Len(minted)
    BY <2>1 DEF KeysFit
  <2>3. arg'[c].census = arg[c].census /\ \A d \in Calls \ {c} : arg'[d] = arg[d]
    <3>1. CASE arg' = arg BY <3>1
    <3>2. CASE arg' = [arg EXCEPT ![c]["key"] = Len(minted) + 1] BY <1>0, <3>2 DEF Args
    <3> QED BY <1>11, <3>1, <3>2 DEF Mint, Set
  <2>4. PICK w \in {"storing", "failed"} : Goto(c, w) BY <1>11 DEF Mint, AskVault
  <2>5. minted' \in {minted, Append(minted, new)} BY <1>11 DEF Mint
  <2>6. UNCHANGED <<accounts, revoked, storeKey, staleKey>> BY <1>11 DEF Mint
  <2>7. minted' \in Seq([mode: Modes, of: Holders]) /\ Len(minted) <= Len(minted') BY <2>2, <2>5
  <2>8. KeysStep(c, w) BY <1>0, <2>3, <2>4, <2>6, <2>7 DEF KeysFit, KeysStep
  <2> QED BY <1>0, <2>8, KeysGrow
<1>12. ASSUME NEW c \in Calls, RevokeSuperseded(c) PROVE KeysFit'
  BY <1>0, <1>12, KeysStay DEF RevokeSuperseded
<1>13. ASSUME NEW c \in Calls, RevokeKey(c) PROVE KeysFit'
  BY <1>0, <1>13, KeysStay DEF RevokeKey
<1> QED BY <1>1, <1>2, <1>3, <1>4, <1>5, <1>6, <1>7, <1>8, <1>9, <1>10, <1>11, <1>12, <1>13
        DEF AgentNext

LEMMA OwnerKeysFit == ASSUME KeysFit, VaultTypes, OwnerNext, UNCHANGED agentVars PROVE KeysFit'
<1> USE DEF Acting
<1>1. CASE LoadSession \/ PostRefresh \/ SaveSession \/ \E t \in accepted : ExpireAccess(t)
  BY <1>1, NoKeysMove DEF LoadSession, PostRefresh, SaveSession, ExpireAccess, processVars
<1>2. ASSUME NEW c \in Calls, BindListener(c) \/ CannotLogIn(c) \/ OpenBrowser(c) \/ Redirect(c)
      PROVE KeysFit'
  BY <1>2, NoKeysMove, KeysBeside DEF BindListener, CannotLogIn, OpenBrowser, Redirect, processVars
<1>3. ASSUME NEW c \in Calls, ReadCallback(c) \/ ExchangeCode(c) PROVE KeysFit'
  BY <1>3, KeysBeside DEF ReadCallback, ExchangeCode
<1>4. ASSUME NEW c \in Calls, SaveLogin(c) \/ AbandonLogin(c) \/ ClearPreference(c) PROVE KeysFit'
  BY <1>4, KeysBeside DEF SaveLogin, AbandonLogin, ClearPreference
<1>5. ASSUME NEW c \in Calls, ClearSession(c) PROVE KeysFit'
  BY <1>5, KeysBeside DEF ClearSession
<1> QED BY <1>1, <1>2, <1>3, <1>4, <1>5 DEF OwnerNext

LEMMA KeysFitStep == ASSUME KeysFit, VaultInv, [Next]_vars PROVE KeysFit'
<1>0. VaultTypes /\ Held(vault) \subseteq KeyIds BY DEF VaultInv, KeysAreKnown
<1> USE DEF Acting
<1>1. ASSUME NEW c \in Calls, RequestNext(c) PROVE KeysFit'
  <2>1. CASE Request(c) \/ Answered(c) \/ Ends(c)
    BY <1>0, <2>1, KeysBeside DEF Request, Answered, Ends
  <2>2. CASE FailsForNow(c) BY <1>0, <2>2, KeysBeside, NoKeysMove DEF FailsForNow
  <2>3. CASE Unauthorized(c) \/ Renewed(c)
    BY <1>0, <2>3, KeysBeside DEF Unauthorized, Renewed
  <2>4. CASE ReadSituation(c) \/ SetPreference(c)
    BY <1>0, <2>4, KeysBeside DEF ReadSituation, SetPreference
  <2> QED BY <1>1, <2>1, <2>2, <2>3, <2>4 DEF RequestNext
<1>2. CASE Crash
  <2>1. /\ UNCHANGED <<accounts, minted, revoked, arg>> /\ storeKey' = None /\ staleKey' = FALSE
        /\ pc' = [c \in Calls |-> IF kind[c] \in ServedBy /\ Running(c) THEN "failed" ELSE pc[c]]
    BY <1>2 DEF Crash
  <2> QED BY <2>1 DEF KeysFit, KeyIds
<1>3. CASE Boot
  <2>1. UNCHANGED <<pc, accounts, minted, revoked, arg, staleKey>> BY <1>3 DEF Boot
  <2>2. storeKey' = None \/ storeKey' = ActiveKey(vault) BY <1>3 DEF Boot, SeedAgent, SeedOwner, Fault
  <2>3. storeKey' \in KeyIds \cup {None} BY <1>0, <2>2 DEF VaultTypes, Vaults, ActiveKey, Held
  <2> QED BY <2>1, <2>3 DEF KeysFit, KeyIds
<1>4. CASE UNCHANGED vars BY <1>4, NoKeysMove DEF vars, processVars
<1> QED BY <1>0, <1>1, <1>2, <1>3, <1>4, AgentKeysFit, OwnerKeysFit DEF Next

AccountsInv ==
  /\ VaultInv /\ SessionInv /\ RenewalInv
  /\ CallsFit /\ ProcessFits /\ AttemptsFit /\ LoginFits /\ TokensFit /\ KeysFit

LEMMA TypesInit == Init => CallsFit /\ ProcessFits /\ AttemptsFit /\ LoginFits /\ TokensFit /\ KeysFit
<1> SUFFICES ASSUME Init PROVE CallsFit /\ ProcessFits /\ AttemptsFit /\ LoginFits /\ TokensFit /\ KeysFit
  OBVIOUS
<1>1. PICK w \in Workloads : /\ kind = w.kind /\ envKey = w.envKey /\ selection = w.selection
                             /\ OwnerInit(w) /\ AgentInit(w)
  BY DEF Init
<1>2. Machine(w) /\ w.kind \in [Calls -> Kinds] BY WorkloadsAssumption, KindsAssumption
<1>3. CallsFit BY <1>1, <1>2 DEF Init, CallsFit
<1>4. ProcessFits BY <1>1, <1>2, MaxFaultsAssumption DEF Init, Machine, ProcessFits
<1>5. AttemptsFit BY DEF Init, AttemptsFit
<1>6. LoginFits BY <1>1 DEF OwnerInit, LoginFits
<1>7. TokensFit
  <2>1. lost = {} /\ twice = {} BY <1>1 DEF OwnerInit
  <2>2. CASE w.signedIn
    <3>1. /\ live = <<1>> /\ ownerToken = <<1, 1>> /\ accepted = {<<1, 1>>} /\ renewable = {1}
      BY <1>1, <2>2 DEF OwnerInit
    <3>2. <<1, 1>> \in Tokens BY <3>1 DEF Tokens
    <3> QED BY <2>1, <3>1, <3>2 DEF TokensFit, Sessions
  <2>3. CASE ~w.signedIn
    <3>1. live = <<>> /\ ownerToken = NoSession /\ accepted = {} /\ renewable = {}
      BY <1>1, <2>3 DEF OwnerInit
    <3> QED BY <2>1, <3>1 DEF TokensFit, Sessions
  <2> QED BY <2>2, <2>3
<1>8. KeysFit
  <2>1. /\ revoked = {} /\ staleKey = FALSE /\ accounts \subseteq Holders
        /\ \A c \in Calls : arg[c].census = {} /\ pc[c] \notin Acting
    BY <1>1 DEF AgentInit, Init, NoArg, Holders, Acting
  <2>2. minted \in Seq([mode: Modes, of: Holders])
    <3>1. <<[mode |-> "test", of |-> Earlier], [mode |-> "live", of |-> Earlier]>>
            \in Seq([mode: Modes, of: Holders])
      BY DEF Modes, Holders
    <3>2. CASE w.registered
      <4>1. minted = <<[mode |-> "test", of |-> Earlier], [mode |-> "live", of |-> Earlier]>>
        BY <1>1, <3>2 DEF AgentInit
      <4> QED BY <3>1, <4>1
    <3>3. CASE ~w.registered
      <4>1. minted = <<>> BY <1>1, <3>3 DEF AgentInit
      <4> QED BY <4>1
    <3> QED BY <3>2, <3>3
  <2>3. storeKey \in KeyIds \cup {None}
    <3>1. vault \in Vaults /\ Held(vault) \subseteq KeyIds BY VaultInit DEF VaultInv, VaultTypes, KeysAreKnown
    <3>2. storeKey \in {None, ActiveKey(vault)} BY <1>1 DEF AgentInit
    <3> QED BY <3>1, <3>2 DEF Vaults, ActiveKey, Held
  <2> QED BY <2>1, <2>2, <2>3 DEF KeysFit
<1> QED BY <1>3, <1>4, <1>5, <1>6, <1>7, <1>8

LEMMA IdentityFits == ASSUME VaultTypes PROVE identity \in Calls \cup {None, Earlier}
BY DEF VaultTypes, Owners

\* Everything a server, its operator and the API keep is of its type. Read with
\* its parts: no request is sent more often than its attempts and its one renewal
\* allow, what the server presents, the vault holds or a count finds was minted,
\* and a token anybody has is of a login that was made.
THEOREM AccountsTypeCorrect == Spec => []TypeOK
<1>1. AccountsInv => TypeOK
  <2> SUFFICES ASSUME AccountsInv PROVE TypeOK OBVIOUS
  <2> USE DEF AccountsInv
  <2>1. OwnerTypeOK
    BY DEF SessionInv, SessionTypes, LoginFits, TokensFit, OwnerTypeOK
  <2>2. AgentTypeOK
    <3>1. vault \in [test: KeyIds \cup {None}, live: KeyIds \cup {None}, active: Modes]
      <4>1. vault \in Vaults /\ Held(vault) \subseteq KeyIds
        BY DEF VaultInv, VaultTypes, KeysAreKnown
      <4> QED BY <4>1 DEF Vaults, Held
    <3>2. vaultOp \in Seq(Calls) /\ overwritten \subseteq KeyIds /\ identity \in Calls \cup {None, Earlier}
      BY IdentityFits DEF VaultInv, VaultTypes, KeysAreKnown
    <3> QED BY <3>1, <3>2 DEF KeysFit, Holders, AgentTypeOK
  <2>3. ASSUME NEW c \in Calls PROVE attempt[c] \in 1..(MaxAttempts + (IF refreshed[c] THEN 1 ELSE 0))
    <3>1. attempt[c] \in Nat \ {0} BY DEF AttemptsFit
    <3>2. RenewalFits(c) BY DEF RenewalInv
    <3>3. attempt[c] <= MaxAttempts + (IF refreshed[c] THEN 1 ELSE 0)
      BY <3>2, MaxAttemptsAssumption DEF RenewalFits
    <3> QED BY <3>1, <3>3, MaxAttemptsAssumption
  <2> QED BY <2>1, <2>2, <2>3 DEF CallsFit, ProcessFits, TypeOK
<1>2. Init => AccountsInv
  <2>1. Init => RenewalInv
    BY RenewalInit
  <2> QED BY <2>1, VaultInit, SessionInit, TypesInit DEF AccountsInv
<1>3. AccountsInv /\ [Next]_vars => AccountsInv'
  BY VaultStep, SessionStep, RenewalStep, CallsFitStep, ProcessFitsStep, AttemptsFitStep,
     LoginFitsStep, TokensFitStep, KeysFitStep DEF AccountsInv
<1> QED BY <1>1, <1>2, <1>3, PTL DEF Spec

=============================================================================
