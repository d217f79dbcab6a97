------------------------------ MODULE Tenancy ------------------------------
(***************************************************************************)
(* Organizations, workflows, memberships and role grants of src/platform:  *)
(* createOrganization, deleteOrganization, createWorkflow, deleteWorkflow, *)
(* addMembership, issueMemberCredential and assignRole of provisioning,    *)
(* behind resolveTenantContext of authn and authorize of the PDP.          *)
(*                                                                         *)
(* Every function awaits the database between its statements and only the  *)
(* two cascades are transactions, so requests interleave between all other *)
(* statements, and a failure or a restart ends a request anywhere.         *)
(* Memberships, grants and the tenant registry have no foreign key to the  *)
(* organization; environments, workspaces and workflows have one along     *)
(* their chain.  Find-then-create helpers are one step: the unique keys    *)
(* make the loser of a race throw, and the row is there either way.        *)
(*                                                                         *)
(* Left out: groups, markings and sharing grants (nothing in src/ writes   *)
(* them), names and slugs, audit entries (AuditChain), the model and the   *)
(* tables of a workflow (ModelApply), language-model settings.             *)
(***************************************************************************)
EXTENDS Naturals

CONSTANTS Ids,      \* identities: people who may sign in
          Admins,   \* the platform admins among them, seeded at boot
          Boss,     \* owner of the organization the system starts with
          Orgs,     \* organization ids; newId never repeats one
          Home,     \* the organization the system starts with
          Flows,    \* workflow ids
          Clients,  \* concurrent requests
          MaxOps,   \* bound: requests and restarts in one behaviour
          None      \* no organization, workflow, identity or request

ASSUME TenancyAssumption ==
    /\ Admins \subseteq Ids /\ Boss \in Ids
    /\ Home \in Orgs /\ MaxOps \in Nat
    /\ None \notin Orgs \cup Flows \cup Ids \cup Clients

VARIABLES
    accounts,    \* organizations whose dedicated customer account exists
    orgs,        \* organization rows
    registry,    \* organizations with a row in the tenant registry
    workspaces,  \* organizations with their environments and workspace
    members,     \* membership rows <<identity, organization>>
    owners,      \* administering grants <<identity, organization>>
    flows,       \* flows[f]: the organization of workflow row f, or None
    pw,          \* identities with a password
    used,        \* organization and workflow ids handed out so far
    made,        \* history: organizations whose creation has returned
    late,        \* history: memberships added when their organization was gone
    alone,       \* a request that nothing has overlapped, or None
    client,      \* client[c]: where request c stands
    ops          \* requests and restarts so far

rowVars == <<accounts, orgs, registry, workspaces, members, owners, flows, pw>>
vars == <<rowVars, used, made, late, alone, client, ops>>

\* A request: its step, its identity, the organization it selects, is bound to
\* or creates, what it acts on, and the memberships or workflows it has read.
Req(at, who, org, on, seen) ==
    [at |-> at, who |-> who, org |-> org, on |-> on, seen |-> seen]
Idle == Req("idle", None, None, None, {})

Steps == {"idle", "auth", "bound", "free",
          "invite", "issue", "join", "grant", "flow", "drop", "list", "delete", "account",
          "newAccount", "newOrg", "newRegistry", "newWorkspace", "newMember", "newOwner"}

TypeOK ==
    /\ accounts \subseteq Orgs /\ orgs \subseteq Orgs
    /\ registry \subseteq Orgs /\ workspaces \subseteq Orgs
    /\ members \subseteq Ids \X Orgs /\ owners \subseteq Ids \X Orgs
    /\ flows \in [Flows -> Orgs \cup {None}] /\ pw \subseteq Ids
    /\ used \subseteq Orgs \cup Flows /\ made \subseteq Orgs /\ late \subseteq Ids \X Orgs
    /\ alone \in Clients \cup {None}
    /\ client \in [Clients -> [at : Steps, who : Ids \cup {None}, org : Orgs \cup {None},
                               on : Ids \cup Flows \cup {None},
                               seen : SUBSET (Orgs \cup Flows)]]
    /\ ops \in 0..MaxOps

Init ==
    /\ accounts = {Home} /\ orgs = {Home} /\ registry = {Home} /\ workspaces = {Home}
    /\ members = {<<Boss, Home>>} /\ owners = {<<Boss, Home>>}
    /\ flows = [f \in Flows |-> None]
    /\ pw = Admins \cup {Boss}
    /\ used = {Home} /\ made = {Home} /\ late = {}
    /\ alone = None
    /\ client = [c \in Clients |-> Idle]
    /\ ops = 0

Count == ops < MaxOps /\ ops' = ops + 1
Go(c, at) == client' = [client EXCEPT ![c].at = at]
End(c) == client' = [client EXCEPT ![c] = Idle]
Reads(c) == UNCHANGED <<rowVars, used, made, late>>

-----------------------------------------------------------------------------
(* Authentication and authorization.                                       *)

\* A signed-in identity (the header shim of development is off in production)
\* sends a request, with or without X-Org-Id; its memberships are read.
Request(c, who, org) ==
    /\ client[c].at = "idle"
    /\ who \in pw
    /\ Count
    /\ client' = [client EXCEPT ![c] =
           Req("auth", who, org, None, {o \in Orgs : <<who, o>> \in members})]
    /\ Reads(c)

\* The organizations a request may be bound to: the one it selected, if that
\* is a member's or the caller is a platform admin, else its only membership's.
Bindable(q) ==
    {o \in orgs : \/ q.org = o /\ (o \in q.seen \/ q.who \in Admins)
                  \/ q.org = None /\ q.seen = {o}}

\* A caller with no membership and no selection is bound to no organization.
IdentityOnly(q) == q.org = None /\ q.seen = {}

\* resolveTenantContext.
Resolve(c) ==
    LET q == client[c] IN
    /\ q.at = "auth"
    /\ \/ \E o \in Bindable(q) : client' = [client EXCEPT ![c].at = "bound", ![c].org = o]
       \/ IdentityOnly(q) /\ Go(c, "free")
       \/ Bindable(q) = {} /\ ~IdentityOnly(q) /\ End(c)
    /\ Reads(c) /\ UNCHANGED ops

\* authorize: an administering grant on the organization, or break-glass of a
\* platform admin in an organization it is no member of.
MayAdminister(q) == q.org \notin q.seen \/ <<q.who, q.org>> \in owners

\* ensureAllowed at the head of a handler.
Handle(c, at, on) ==
    LET q == client[c] IN
    /\ q.at = "bound"
    /\ IF MayAdminister(q)
         THEN client' = [client EXCEPT ![c] = Req(at, q.who, q.org, on, {})]
         ELSE End(c)
    /\ Reads(c) /\ UNCHANGED ops

-----------------------------------------------------------------------------
(* Members and grants.                                                     *)

\* Mutant: an identity that already holds a grant is taken to have a password.
Invite_IfStranger(c) ==
    /\ client[c].at = "invite"
    /\ Go(c, IF \E o \in Orgs : <<client[c].on, o>> \in owners THEN "join" ELSE "issue")
    /\ Reads(c) /\ UNCHANGED ops

\* POST /v1/memberships: ensureIdentity returns the identity, and only one
\* without a password is issued a temporary one.
Invite(c) ==
    /\ client[c].at = "invite"
    /\ Go(c, IF client[c].on \in pw THEN "join" ELSE "issue")
    /\ Reads(c) /\ UNCHANGED ops

\* issueMemberCredential.
Issue(c) ==
    /\ client[c].at = "issue"
    /\ pw' = pw \cup {client[c].on}
    /\ Go(c, "join")
    /\ UNCHANGED <<accounts, orgs, registry, workspaces, members, owners, flows,
                   used, made, late, ops>>

\* addMembership.
AddMembership(i, o) ==
    /\ members' = members \cup {<<i, o>>}
    /\ late' = IF o \in orgs THEN late ELSE late \cup {<<i, o>>}

Join(c) ==
    /\ client[c].at = "join"
    /\ AddMembership(client[c].on, client[c].org)
    /\ End(c)
    /\ UNCHANGED <<accounts, orgs, registry, workspaces, owners, flows, pw, used, made, ops>>

\* POST /v1/role-assignments: assignRole asks for no membership.
Grant(c) ==
    /\ client[c].at = "grant"
    /\ owners' = owners \cup {<<client[c].on, client[c].org>>}
    /\ End(c)
    /\ UNCHANGED <<accounts, orgs, registry, workspaces, members, flows, pw,
                   used, made, late, ops>>

-----------------------------------------------------------------------------
(* Workflows.                                                              *)

\* createWorkflow: its workspace lookup and the foreign key agree, so a row is
\* created exactly when the workspace is there.
CreateWorkflow(c, f) ==
    LET o == client[c].org IN
    /\ client[c].at = "flow"
    /\ f \notin used
    /\ IF o \in workspaces
         THEN flows' = [flows EXCEPT ![f] = o] /\ used' = used \cup {f}
         ELSE UNCHANGED <<flows, used>>
    /\ End(c)
    /\ UNCHANGED <<accounts, orgs, registry, workspaces, members, owners, pw, made, late, ops>>

\* Mutant of Theirs: the lookup does not ask for the caller's organization.
Theirs_AnyOrg(f, o) == flows[f] # None

\* deleteWorkflow finds the row by its id and the caller's organization.
Theirs(f, o) == flows[f] = o

\* deleteWorkflow: the lookup and its transaction; no other writer of the row
\* can make the transaction fail, so they are one step.
DeleteWorkflow(c) ==
    LET f == client[c].on IN
    /\ client[c].at = "drop"
    /\ flows' = IF Theirs(f, client[c].org) THEN [flows EXCEPT ![f] = None] ELSE flows
    /\ End(c)
    /\ UNCHANGED <<accounts, orgs, registry, workspaces, members, owners, pw,
                   used, made, late, ops>>

-----------------------------------------------------------------------------
(* deleteOrganization.                                                     *)

\* Mutant: the memberships and grants go first.
ListWorkflows_Eager(c) ==
    LET o == client[c].org IN
    /\ client[c].at = "list"
    /\ IF o \in orgs
         THEN /\ client' = [client EXCEPT ![c].at = "delete", ![c].seen = {f \in Flows : flows[f] = o}]
              /\ members' = {m \in members : m[2] # o}
         ELSE End(c) /\ UNCHANGED members
    /\ UNCHANGED <<accounts, orgs, registry, workspaces, owners, flows, pw, used, made, late, ops>>

\* The organization is read, then the list of its workflows.
ListWorkflows(c) ==
    LET o == client[c].org IN
    /\ client[c].at = "list"
    /\ IF o \in orgs
         THEN client' = [client EXCEPT ![c].at = "delete", ![c].seen = {f \in Flows : flows[f] = o}]
         ELSE End(c)
    /\ Reads(c) /\ UNCHANGED ops

\* One listed workflow after the other; a workflow that somebody else has
\* deleted meanwhile makes deleteWorkflow throw, and the deletion ends.
DeleteListed(c, f) ==
    LET o == client[c].org IN
    /\ client[c].at = "delete"
    /\ f \in client[c].seen
    /\ IF Theirs(f, o)
         THEN /\ flows' = [flows EXCEPT ![f] = None]
              /\ client' = [client EXCEPT ![c].seen = @ \ {f}]
         ELSE UNCHANGED flows /\ End(c)
    /\ UNCHANGED <<accounts, orgs, registry, workspaces, members, owners, pw,
                   used, made, late, ops>>

\* Mutants of Cascade: the registry row is forgotten, the memberships are.
Cascade_KeepsRegistry(o) ==
    /\ orgs' = orgs \ {o} /\ workspaces' = workspaces \ {o}
    /\ members' = {m \in members : m[2] # o} /\ owners' = {g \in owners : g[2] # o}
    /\ flows' = [f \in Flows |-> IF flows[f] = o THEN None ELSE flows[f]]
    /\ UNCHANGED registry

Cascade_KeepsMembers(o) ==
    /\ orgs' = orgs \ {o} /\ registry' = registry \ {o} /\ workspaces' = workspaces \ {o}
    /\ owners' = {g \in owners : g[2] # o}
    /\ flows' = [f \in Flows |-> IF flows[f] = o THEN None ELSE flows[f]]
    /\ UNCHANGED members

\* The transaction over everything that carries the organization's id.
Cascade(o) ==
    /\ orgs' = orgs \ {o} /\ registry' = registry \ {o} /\ workspaces' = workspaces \ {o}
    /\ members' = {m \in members : m[2] # o} /\ owners' = {g \in owners : g[2] # o}
    /\ flows' = [f \in Flows |-> IF flows[f] = o THEN None ELSE flows[f]]

DeleteRows(c) ==
    /\ client[c].at = "delete" /\ client[c].seen = {}
    /\ Cascade(client[c].org)
    /\ Go(c, "account")
    /\ UNCHANGED <<accounts, pw, used, made, late, ops>>

\* The customer account, which no other organization shares (createOrganization
\* is never called with an account of another one).
DeleteAccount(c) ==
    /\ client[c].at = "account"
    /\ accounts' = accounts \ {client[c].org}
    /\ End(c)
    /\ UNCHANGED <<orgs, registry, workspaces, members, owners, flows, pw,
                   used, made, late, ops>>

-----------------------------------------------------------------------------
(* createOrganization, one statement per step.                             *)

\* POST /v1/organizations needs an identity and no organization.
NewAccount(c, o) ==
    /\ client[c].at \in {"bound", "free"}
    /\ o \in Orgs \ used
    /\ used' = used \cup {o}
    /\ accounts' = accounts \cup {o}
    /\ client' = [client EXCEPT ![c] = Req("newOrg", @.who, o, None, {})]
    /\ UNCHANGED <<orgs, registry, workspaces, members, owners, flows, pw, made, late, ops>>

NewOrg(c) ==
    /\ client[c].at = "newOrg"
    /\ orgs' = orgs \cup {client[c].org}
    /\ Go(c, "newRegistry")
    /\ UNCHANGED <<accounts, registry, workspaces, members, owners, flows, pw,
                   used, made, late, ops>>

NewRegistry(c) ==
    /\ client[c].at = "newRegistry"
    /\ registry' = registry \cup {client[c].org}
    /\ Go(c, "newWorkspace")
    /\ UNCHANGED <<accounts, orgs, workspaces, members, owners, flows, pw,
                   used, made, late, ops>>

\* Both environments and the workspace; the foreign key refuses them when the
\* organization is gone.
NewWorkspace(c) ==
    LET o == client[c].org IN
    /\ client[c].at = "newWorkspace"
    /\ IF o \in orgs
         THEN workspaces' = workspaces \cup {o} /\ Go(c, "newMember")
         ELSE UNCHANGED workspaces /\ End(c)
    /\ UNCHANGED <<accounts, orgs, registry, members, owners, flows, pw,
                   used, made, late, ops>>

NewMember(c) ==
    /\ client[c].at = "newMember"
    /\ AddMembership(client[c].who, client[c].org)
    /\ Go(c, "newOwner")
    /\ UNCHANGED <<accounts, orgs, registry, workspaces, owners, flows, pw, used, made, ops>>

NewOwner(c) ==
    LET o == client[c].org IN
    /\ client[c].at = "newOwner"
    /\ owners' = owners \cup {<<client[c].who, o>>}
    /\ made' = made \cup {o}
    /\ End(c)
    /\ UNCHANGED <<accounts, orgs, registry, workspaces, members, flows, pw, used, late, ops>>

-----------------------------------------------------------------------------

Step(c) ==
    \/ \E who \in Ids, org \in Orgs \cup {None} : Request(c, who, org)
    \/ Resolve(c)
    \/ \E at \in {"invite", "grant"}, i \in Ids : Handle(c, at, i)
    \/ \E f \in Flows : Handle(c, "drop", f)
    \/ \E at \in {"flow", "list"} : Handle(c, at, None)
    \/ Invite(c) \/ Issue(c) \/ Join(c) \/ Grant(c)
    \/ \E f \in Flows : CreateWorkflow(c, f)
    \/ DeleteWorkflow(c)
    \/ ListWorkflows(c)
    \/ \E f \in Flows : DeleteListed(c, f)
    \/ DeleteRows(c) \/ DeleteAccount(c)
    \/ \E o \in Orgs : NewAccount(c, o)
    \/ NewOrg(c) \/ NewRegistry(c) \/ NewWorkspace(c) \/ NewMember(c) \/ NewOwner(c)

\* A request that starts while no other is under way is alone until another starts.
Alone(c) ==
    alone' = IF client[c].at = "idle"
               THEN IF \A d \in Clients : client[d].at = "idle" THEN c ELSE None
               ELSE IF alone = c THEN c ELSE None

\* A statement fails, and the handler answers with the error.
Throws(c) ==
    /\ client[c].at # "idle"
    /\ End(c)
    /\ alone' = None
    /\ Reads(c) /\ UNCHANGED ops

\* The process dies; the database stays.
Restart ==
    /\ Count
    /\ client' = [c \in Clients |-> Idle]
    /\ alone' = None
    /\ UNCHANGED <<rowVars, used, made, late>>

Next ==
    \/ \E c \in Clients : Step(c) /\ Alone(c)
    \/ \E c \in Clients : Throws(c)
    \/ Restart

Spec == Init /\ [][Next]_vars

-----------------------------------------------------------------------------
(* What tenancy promises.                                                  *)

\* Every member can sign in: whoever holds a membership has a password, also
\* after invitations that were aborted half-way or ran at the same time ("a
\* member needs a credential to sign in", control-routes.ts).
MembersCanSignIn == \A m \in members : m[1] \in pw

\* An organization whose creation returned keeps its account, its registry row,
\* its workspace and a member who administers it until it goes as a whole,
\* also when its deletion is aborted between two workflows.
OrgsStayWhole ==
    \A o \in made \cap orgs :
        /\ o \in accounts \cap registry \cap workspaces
        /\ \E i \in Ids : <<i, o>> \in members \cap owners

\* A membership outlives its organization only if it was added when that was
\* already gone.  (Its holder can no longer get in without a selector.)
DanglingOnlyLate == \A m \in members : m[2] \in orgs \/ m \in late

\* Nothing of the organization is left.
Gone(o) ==
    /\ o \notin accounts \cup orgs \cup registry \cup workspaces
    /\ \A i \in Ids : <<i, o>> \notin members \cup owners
    /\ \A f \in Flows : flows[f] # o

\* A deletion that no other request overlapped leaves nothing behind, also of
\* an organization whose creation had stopped half-way ("CASCADE everything it
\* owns", deleteOrganization).
LoneDeletionCascades ==
    [][\A c \in Clients, o \in Orgs :
          client[c].at = "account" /\ client[c].org = o /\ client'[c].at = "idle" /\ alone' = c
              => Gone(o)']_vars

RowsOf(o) == <<o \in orgs, o \in accounts, o \in registry, o \in workspaces,
               {m \in members : m[2] = o}, {g \in owners : g[2] = o},
               {f \in Flows : flows[f] = o}>>

\* Rows of an organization change only in a step of a request that is bound to
\* it or creates it, whatever ids callers name ("organization_id is DERIVED
\* from a verified membership", authn).
TenantsIsolated ==
    [][\A o \in Orgs : RowsOf(o)' # RowsOf(o)
          => \E c \in Clients : client[c] # client'[c] /\ o \in {client[c].org, client'[c].org}]_vars
=============================================================================
