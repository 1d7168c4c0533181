----------------------------- MODULE MCAccounts -----------------------------
(* Machines, and the calls that meet on them: two or three at a time.       *)
EXTENDS Accounts

CONSTANTS c1, c2, c3

Together(a, b, d) == [c \in Calls |-> IF c = c1 THEN a ELSE IF c = c2 THEN b ELSE d]

OwnerMachine ==
  [kind |-> Together("get", "post", "none"), envKey |-> FALSE, selection |-> "owner",
   signedIn |-> TRUE, registered |-> FALSE]
AgentMachine ==
  [kind |-> Together("upgrade", "none", "none"), envKey |-> FALSE, selection |-> "none",
   signedIn |-> FALSE, registered |-> TRUE]
EmptyMachine ==
  [kind |-> Together("register", "post", "none"), envKey |-> FALSE, selection |-> "none",
   signedIn |-> FALSE, registered |-> FALSE]
BothMachine == [OwnerMachine EXCEPT !.registered = TRUE]

On(machine, kinds) == {[machine EXCEPT !.kind = k] : k \in kinds}

MCWorkloads ==
  On(OwnerMachine, {Together("get", "keyedPost", "none"), Together("post", "keyedPost", "none"),
                    Together("post", "login", "none"), Together("keyedPost", "logout", "none"),
                    Together("login", "login", "none")})
  \cup On(BothMachine, {Together("post", "logout", "useAgent"), Together("post", "activate", "none")})
  \cup On(AgentMachine, {Together("upgrade", "create", "none"), Together("upgrade", "activate", "none"),
                         Together("create", "activate", "none"), Together("upgrade", "upgrade", "revoke"),
                         Together("post", "login", "useOwner"), Together("get", "revoke", "none")})
  \cup On([AgentMachine EXCEPT !.envKey = TRUE], {Together("get", "create", "none")})
  \cup On(EmptyMachine, {Together("register", "register", "activate"), Together("register", "post", "none")})
=============================================================================
