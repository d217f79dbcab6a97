--------------------------- MODULE TenancyProofs ---------------------------
(***************************************************************************)
(* For any number of organizations, identities, workflows and overlapping  *)
(* requests: members can sign in, organizations stay whole, memberships    *)
(* dangle only when they came too late, requests change the rows of their  *)
(* own organization only, and a deletion nobody overlaps leaves nothing.   *)
(*                                                                         *)
(* OrgsStayWhole is not inductive.  It needs what a creation under way has *)
(* already made (Rising), that nobody deletes an organization before its   *)
(* row is there (NewIsNew), and that an account goes only after the row    *)
(* (AccountLast).                                                          *)
(***************************************************************************)
EXTENDS Tenancy, TLAPS

\* The database.
RowTypes ==
    /\ accounts \subseteq Orgs /\ orgs \subseteq Orgs
    /\ registry \subseteq Orgs /\ workspaces \subseteq Orgs
    /\ members \subseteq Ids \X Orgs /\ owners \subseteq Ids \X Orgs
    /\ flows \in [Flows -> Orgs \cup {None}] /\ pw \subseteq Ids
    /\ used \subseteq Orgs \cup Flows /\ made \subseteq Orgs /\ late \subseteq Ids \X Orgs
    /\ ops \in 0..MaxOps

\* The requests.
ReqTypes ==
    client \in [Clients -> [at : Steps, who : Ids \cup {None}, org : Orgs \cup {None},
                            on : Ids \cup Flows \cup {None},
                            seen : SUBSET (Orgs \cup Flows)]]

\* A request under way has an identity that can sign in, and past the binding
\* an organization whose id is taken; whom it joins can sign in.
Formed ==
    \A c \in Clients :
        LET q == client[c] IN
        /\ q.at # "idle" => q.who \in pw
        /\ q.at \notin {"idle", "auth", "free"} => q.org \in Orgs \cap used
        /\ q.at \in {"invite", "issue", "join", "grant"} => q.on \in Ids
        /\ q.at = "join" => q.on \in pw

\* Until its row is there, only its creator works on a new organization.
NewIsNew ==
    \A c \in Clients :
        client[c].at = "newOrg" =>
            /\ client[c].org \in accounts \ (orgs \cup made)
            /\ \A d \in Clients \ {c} :
                  client[d].org = client[c].org => client[d].at \in {"idle", "auth", "free"}

\* What a creation has done is still there while the organization is.
Rising ==
    \A c \in Clients :
        LET q == client[c] IN
        q.org \in orgs =>
            /\ q.at \in {"newRegistry", "newWorkspace", "newMember", "newOwner"} => q.org \in accounts
            /\ q.at \in {"newWorkspace", "newMember", "newOwner"} => q.org \in registry
            /\ q.at \in {"newMember", "newOwner"} => q.org \in workspaces
            /\ q.at = "newOwner" => <<q.who, q.org>> \in members

\* The account of an organization goes after its row.
AccountLast == \A c \in Clients : client[c].at = "account" => client[c].org \notin orgs

\* An id in use has been handed out.
UsedOnce == orgs \cup made \subseteq used /\ \A f \in Flows : flows[f] # None => f \in used

\* The inductive invariant.
TenancyInv ==
    /\ RowTypes /\ ReqTypes /\ Formed /\ NewIsNew /\ Rising /\ AccountLast /\ UsedOnce
    /\ MembersCanSignIn /\ OrgsStayWhole /\ DanglingOnlyLate

-----------------------------------------------------------------------------

LEMMA TenancyInit == Init => TenancyInv
<1> SUFFICES ASSUME Init PROVE TenancyInv OBVIOUS
<1> USE TenancyAssumption DEF Init
<1>1. RowTypes BY DEF RowTypes
<1>2. ReqTypes BY DEF ReqTypes, Idle, Req, Steps
<1>3. Formed BY DEF Formed, Idle, Req
<1>4. NewIsNew BY DEF NewIsNew, Idle, Req
<1>5. Rising BY DEF Rising, Idle, Req
<1>6. AccountLast BY DEF AccountLast, Idle, Req
<1>7. UsedOnce BY DEF UsedOnce
<1>8. MembersCanSignIn BY DEF MembersCanSignIn
<1>9. OrgsStayWhole BY DEF OrgsStayWhole
<1>10. DanglingOnlyLate BY DEF DanglingOnlyLate
<1> QED
  BY <1>1, <1>2, <1>3, <1>4, <1>5, <1>6, <1>7, <1>8, <1>9, <1>10 DEF TenancyInv

\* One step of one request: a step of the proof per action, and under it one per conjunct.
LEMMA StepKeeps ==
    ASSUME TenancyInv, NEW c \in Clients, Step(c)
    PROVE  TenancyInv'
<1> USE TenancyAssumption DEF TenancyInv, Steps, Idle, Req
<1>1. ASSUME NEW who \in Ids, NEW org \in Orgs \cup {None}, Request(c, who, org) PROVE TenancyInv'
  <2>1. RowTypes' BY <1>1 DEF Request, Count, Reads, rowVars, RowTypes, ReqTypes, Formed
  <2>2. ReqTypes' BY <1>1 DEF Request, Count, Reads, rowVars, RowTypes, ReqTypes, Formed
  <2>3. Formed' BY <1>1 DEF Request, Count, Reads, rowVars, RowTypes, ReqTypes, Formed, UsedOnce
  <2>4. NewIsNew' BY <1>1 DEF Request, Count, Reads, rowVars, RowTypes, ReqTypes, Formed, NewIsNew, UsedOnce
  <2>5. Rising' BY <1>1 DEF Request, Count, Reads, rowVars, RowTypes, ReqTypes, Formed, Rising, NewIsNew
  <2>6. AccountLast' BY <1>1 DEF Request, Count, Reads, rowVars, RowTypes, ReqTypes, Formed, AccountLast, NewIsNew
  <2>7. UsedOnce' BY <1>1 DEF Request, Count, Reads, rowVars, RowTypes, ReqTypes, Formed, UsedOnce
  <2>8. MembersCanSignIn' BY <1>1 DEF Request, Count, Reads, rowVars, RowTypes, ReqTypes, Formed, MembersCanSignIn
  <2>9. OrgsStayWhole' BY <1>1 DEF Request, Count, Reads, rowVars, RowTypes, ReqTypes, Formed, Rising, NewIsNew, AccountLast, OrgsStayWhole
  <2>10. DanglingOnlyLate' BY <1>1 DEF Request, Count, Reads, rowVars, RowTypes, ReqTypes, DanglingOnlyLate
  <2> QED BY <2>1, <2>2, <2>3, <2>4, <2>5, <2>6, <2>7, <2>8, <2>9, <2>10
<1>2. ASSUME Resolve(c) PROVE TenancyInv'
  <2>1. RowTypes' BY <1>2 DEF Resolve, Bindable, IdentityOnly, Go, End, Reads, rowVars, RowTypes, ReqTypes, Formed
  <2>2. ReqTypes' BY <1>2 DEF Resolve, Bindable, IdentityOnly, Go, End, Reads, rowVars, RowTypes, ReqTypes, Formed
  <2>3. Formed' BY <1>2 DEF Resolve, Bindable, IdentityOnly, Go, End, Reads, rowVars, RowTypes, ReqTypes, Formed, UsedOnce
  <2>4. NewIsNew' BY <1>2 DEF Resolve, Bindable, IdentityOnly, Go, End, Reads, rowVars, RowTypes, ReqTypes, Formed, NewIsNew, UsedOnce
  <2>5. Rising' BY <1>2 DEF Resolve, Bindable, IdentityOnly, Go, End, Reads, rowVars, RowTypes, ReqTypes, Formed, Rising, NewIsNew
  <2>6. AccountLast' BY <1>2 DEF Resolve, Bindable, IdentityOnly, Go, End, Reads, rowVars, RowTypes, ReqTypes, Formed, AccountLast, NewIsNew
  <2>7. UsedOnce' BY <1>2 DEF Resolve, Bindable, IdentityOnly, Go, End, Reads, rowVars, RowTypes, ReqTypes, Formed, UsedOnce
  <2>8. MembersCanSignIn' BY <1>2 DEF Resolve, Bindable, IdentityOnly, Go, End, Reads, rowVars, RowTypes, ReqTypes, Formed, MembersCanSignIn
  <2>9. OrgsStayWhole' BY <1>2 DEF Resolve, Bindable, IdentityOnly, Go, End, Reads, rowVars, RowTypes, ReqTypes, Formed, Rising, NewIsNew, AccountLast, OrgsStayWhole
  <2>10. DanglingOnlyLate' BY <1>2 DEF Resolve, Bindable, IdentityOnly, Go, End, Reads, rowVars, RowTypes, ReqTypes, DanglingOnlyLate
  <2> QED BY <2>1, <2>2, <2>3, <2>4, <2>5, <2>6, <2>7, <2>8, <2>9, <2>10
<1>3. ASSUME NEW at \in {"invite", "grant", "drop", "flow", "list"}, NEW on \in Ids \cup Flows \cup {None},
               at \in {"invite", "grant"} => on \in Ids, Handle(c, at, on) PROVE TenancyInv'
  <2>1. RowTypes' BY <1>3 DEF Handle, End, Reads, rowVars, RowTypes, ReqTypes, Formed
  <2>2. ReqTypes' BY <1>3 DEF Handle, End, Reads, rowVars, RowTypes, ReqTypes, Formed
  <2>3. Formed' BY <1>3 DEF Handle, End, Reads, rowVars, RowTypes, ReqTypes, Formed, UsedOnce
  <2>4. NewIsNew' BY <1>3 DEF Handle, End, Reads, rowVars, RowTypes, ReqTypes, Formed, NewIsNew, UsedOnce
  <2>5. Rising' BY <1>3 DEF Handle, End, Reads, rowVars, RowTypes, ReqTypes, Formed, Rising, NewIsNew
  <2>6. AccountLast' BY <1>3 DEF Handle, End, Reads, rowVars, RowTypes, ReqTypes, Formed, AccountLast, NewIsNew
  <2>7. UsedOnce' BY <1>3 DEF Handle, End, Reads, rowVars, RowTypes, ReqTypes, Formed, UsedOnce
  <2>8. MembersCanSignIn' BY <1>3 DEF Handle, End, Reads, rowVars, RowTypes, ReqTypes, Formed, MembersCanSignIn
  <2>9. OrgsStayWhole' BY <1>3 DEF Handle, End, Reads, rowVars, RowTypes, ReqTypes, Formed, Rising, NewIsNew, AccountLast, OrgsStayWhole
  <2>10. DanglingOnlyLate' BY <1>3 DEF Handle, End, Reads, rowVars, RowTypes, ReqTypes, DanglingOnlyLate
  <2> QED BY <2>1, <2>2, <2>3, <2>4, <2>5, <2>6, <2>7, <2>8, <2>9, <2>10
<1>4. ASSUME Invite(c) PROVE TenancyInv'
  <2>1. RowTypes' BY <1>4 DEF Invite, Go, Reads, rowVars, RowTypes, ReqTypes, Formed
  <2>2. ReqTypes' BY <1>4 DEF Invite, Go, Reads, rowVars, RowTypes, ReqTypes, Formed
  <2>3. Formed' BY <1>4 DEF Invite, Go, Reads, rowVars, RowTypes, ReqTypes, Formed, UsedOnce
  <2>4. NewIsNew' BY <1>4 DEF Invite, Go, Reads, rowVars, RowTypes, ReqTypes, Formed, NewIsNew, UsedOnce
  <2>5. Rising' BY <1>4 DEF Invite, Go, Reads, rowVars, RowTypes, ReqTypes, Formed, Rising, NewIsNew
  <2>6. AccountLast' BY <1>4 DEF Invite, Go, Reads, rowVars, RowTypes, ReqTypes, Formed, AccountLast, NewIsNew
  <2>7. UsedOnce' BY <1>4 DEF Invite, Go, Reads, rowVars, RowTypes, ReqTypes, Formed, UsedOnce
  <2>8. MembersCanSignIn' BY <1>4 DEF Invite, Go, Reads, rowVars, RowTypes, ReqTypes, Formed, MembersCanSignIn
  <2>9. OrgsStayWhole' BY <1>4 DEF Invite, Go, Reads, rowVars, RowTypes, ReqTypes, Formed, Rising, NewIsNew, AccountLast, OrgsStayWhole
  <2>10. DanglingOnlyLate' BY <1>4 DEF Invite, Go, Reads, rowVars, RowTypes, ReqTypes, DanglingOnlyLate
  <2> QED BY <2>1, <2>2, <2>3, <2>4, <2>5, <2>6, <2>7, <2>8, <2>9, <2>10
<1>5. ASSUME Issue(c) PROVE TenancyInv'
  <2>1. RowTypes' BY <1>5 DEF Issue, Go, RowTypes, ReqTypes, Formed
  <2>2. ReqTypes' BY <1>5 DEF Issue, Go, RowTypes, ReqTypes, Formed
  <2>3. Formed' BY <1>5 DEF Issue, Go, RowTypes, ReqTypes, Formed, UsedOnce
  <2>4. NewIsNew' BY <1>5 DEF Issue, Go, RowTypes, ReqTypes, Formed, NewIsNew, UsedOnce
  <2>5. Rising' BY <1>5 DEF Issue, Go, RowTypes, ReqTypes, Formed, Rising, NewIsNew
  <2>6. AccountLast' BY <1>5 DEF Issue, Go, RowTypes, ReqTypes, Formed, AccountLast, NewIsNew
  <2>7. UsedOnce' BY <1>5 DEF Issue, Go, RowTypes, ReqTypes, Formed, UsedOnce
  <2>8. MembersCanSignIn' BY <1>5 DEF Issue, Go, RowTypes, ReqTypes, Formed, MembersCanSignIn
  <2>9. OrgsStayWhole' BY <1>5 DEF Issue, Go, RowTypes, ReqTypes, Formed, Rising, NewIsNew, AccountLast, OrgsStayWhole
  <2>10. DanglingOnlyLate' BY <1>5 DEF Issue, Go, RowTypes, ReqTypes, DanglingOnlyLate
  <2> QED BY <2>1, <2>2, <2>3, <2>4, <2>5, <2>6, <2>7, <2>8, <2>9, <2>10
<1>6. ASSUME Join(c) PROVE TenancyInv'
  <2>1. RowTypes' BY <1>6 DEF Join, AddMembership, End, RowTypes, ReqTypes, Formed
  <2>2. ReqTypes' BY <1>6 DEF Join, AddMembership, End, RowTypes, ReqTypes, Formed
  <2>3. Formed' BY <1>6 DEF Join, AddMembership, End, RowTypes, ReqTypes, Formed, UsedOnce
  <2>4. NewIsNew' BY <1>6 DEF Join, AddMembership, End, RowTypes, ReqTypes, Formed, NewIsNew, UsedOnce
  <2>5. Rising' BY <1>6 DEF Join, AddMembership, End, RowTypes, ReqTypes, Formed, Rising, NewIsNew
  <2>6. AccountLast' BY <1>6 DEF Join, AddMembership, End, RowTypes, ReqTypes, Formed, AccountLast, NewIsNew
  <2>7. UsedOnce' BY <1>6 DEF Join, AddMembership, End, RowTypes, ReqTypes, Formed, UsedOnce
  <2>8. MembersCanSignIn' BY <1>6 DEF Join, AddMembership, End, RowTypes, ReqTypes, Formed, MembersCanSignIn
  <2>9. OrgsStayWhole' BY <1>6 DEF Join, AddMembership, End, RowTypes, ReqTypes, Formed, Rising, NewIsNew, AccountLast, OrgsStayWhole
  <2>10. DanglingOnlyLate' BY <1>6 DEF Join, AddMembership, End, RowTypes, ReqTypes, DanglingOnlyLate
  <2> QED BY <2>1, <2>2, <2>3, <2>4, <2>5, <2>6, <2>7, <2>8, <2>9, <2>10
<1>7. ASSUME Grant(c) PROVE TenancyInv'
  <2>1. RowTypes' BY <1>7 DEF Grant, End, RowTypes, ReqTypes, Formed
  <2>2. ReqTypes' BY <1>7 DEF Grant, End, RowTypes, ReqTypes, Formed
  <2>3. Formed' BY <1>7 DEF Grant, End, RowTypes, ReqTypes, Formed, UsedOnce
  <2>4. NewIsNew' BY <1>7 DEF Grant, End, RowTypes, ReqTypes, Formed, NewIsNew, UsedOnce
  <2>5. Rising' BY <1>7 DEF Grant, End, RowTypes, ReqTypes, Formed, Rising, NewIsNew
  <2>6. AccountLast' BY <1>7 DEF Grant, End, RowTypes, ReqTypes, Formed, AccountLast, NewIsNew
  <2>7. UsedOnce' BY <1>7 DEF Grant, End, RowTypes, ReqTypes, Formed, UsedOnce
  <2>8. MembersCanSignIn' BY <1>7 DEF Grant, End, RowTypes, ReqTypes, Formed, MembersCanSignIn
  <2>9. OrgsStayWhole' BY <1>7 DEF Grant, End, RowTypes, ReqTypes, Formed, Rising, NewIsNew, AccountLast, OrgsStayWhole
  <2>10. DanglingOnlyLate' BY <1>7 DEF Grant, End, RowTypes, ReqTypes, DanglingOnlyLate
  <2> QED BY <2>1, <2>2, <2>3, <2>4, <2>5, <2>6, <2>7, <2>8, <2>9, <2>10
<1>8. ASSUME NEW f \in Flows, CreateWorkflow(c, f) PROVE TenancyInv'
  <2>1. RowTypes' BY <1>8 DEF CreateWorkflow, End, RowTypes, ReqTypes, Formed
  <2>2. ReqTypes' BY <1>8 DEF CreateWorkflow, End, RowTypes, ReqTypes, Formed
  <2>3. Formed' BY <1>8 DEF CreateWorkflow, End, RowTypes, ReqTypes, Formed, UsedOnce
  <2>4. NewIsNew' BY <1>8 DEF CreateWorkflow, End, RowTypes, ReqTypes, Formed, NewIsNew, UsedOnce
  <2>5. Rising' BY <1>8 DEF CreateWorkflow, End, RowTypes, ReqTypes, Formed, Rising, NewIsNew
  <2>6. AccountLast' BY <1>8 DEF CreateWorkflow, End, RowTypes, ReqTypes, Formed, AccountLast, NewIsNew
  <2>7. UsedOnce' BY <1>8 DEF CreateWorkflow, End, RowTypes, ReqTypes, Formed, UsedOnce
  <2>8. MembersCanSignIn' BY <1>8 DEF CreateWorkflow, End, RowTypes, ReqTypes, Formed, MembersCanSignIn
  <2>9. OrgsStayWhole' BY <1>8 DEF CreateWorkflow, End, RowTypes, ReqTypes, Formed, Rising, NewIsNew, AccountLast, OrgsStayWhole
  <2>10. DanglingOnlyLate' BY <1>8 DEF CreateWorkflow, End, RowTypes, ReqTypes, DanglingOnlyLate
  <2> QED BY <2>1, <2>2, <2>3, <2>4, <2>5, <2>6, <2>7, <2>8, <2>9, <2>10
<1>9. ASSUME DeleteWorkflow(c) PROVE TenancyInv'
  <2>1. RowTypes' BY <1>9 DEF DeleteWorkflow, End, RowTypes, ReqTypes, Formed
  <2>2. ReqTypes' BY <1>9 DEF DeleteWorkflow, End, RowTypes, ReqTypes, Formed
  <2>3. Formed' BY <1>9 DEF DeleteWorkflow, End, RowTypes, ReqTypes, Formed, UsedOnce
  <2>4. NewIsNew' BY <1>9 DEF DeleteWorkflow, End, RowTypes, ReqTypes, Formed, NewIsNew, UsedOnce
  <2>5. Rising' BY <1>9 DEF DeleteWorkflow, End, RowTypes, ReqTypes, Formed, Rising, NewIsNew
  <2>6. AccountLast' BY <1>9 DEF DeleteWorkflow, End, RowTypes, ReqTypes, Formed, AccountLast, NewIsNew
  <2>7. UsedOnce' BY <1>9 DEF DeleteWorkflow, End, RowTypes, ReqTypes, Formed, UsedOnce
  <2>8. MembersCanSignIn' BY <1>9 DEF DeleteWorkflow, End, RowTypes, ReqTypes, Formed, MembersCanSignIn
  <2>9. OrgsStayWhole' BY <1>9 DEF DeleteWorkflow, End, RowTypes, ReqTypes, Formed, Rising, NewIsNew, AccountLast, OrgsStayWhole
  <2>10. DanglingOnlyLate' BY <1>9 DEF DeleteWorkflow, End, RowTypes, ReqTypes, DanglingOnlyLate
  <2> QED BY <2>1, <2>2, <2>3, <2>4, <2>5, <2>6, <2>7, <2>8, <2>9, <2>10
<1>10. ASSUME ListWorkflows(c) PROVE TenancyInv'
  <2>1. RowTypes' BY <1>10 DEF ListWorkflows, End, Reads, rowVars, RowTypes, ReqTypes, Formed
  <2>2. ReqTypes' BY <1>10 DEF ListWorkflows, End, Reads, rowVars, RowTypes, ReqTypes, Formed
  <2>3. Formed' BY <1>10 DEF ListWorkflows, End, Reads, rowVars, RowTypes, ReqTypes, Formed, UsedOnce
  <2>4. NewIsNew' BY <1>10 DEF ListWorkflows, End, Reads, rowVars, RowTypes, ReqTypes, Formed, NewIsNew, UsedOnce
  <2>5. Rising' BY <1>10 DEF ListWorkflows, End, Reads, rowVars, RowTypes, ReqTypes, Formed, Rising, NewIsNew
  <2>6. AccountLast' BY <1>10 DEF ListWorkflows, End, Reads, rowVars, RowTypes, ReqTypes, Formed, AccountLast, NewIsNew
  <2>7. UsedOnce' BY <1>10 DEF ListWorkflows, End, Reads, rowVars, RowTypes, ReqTypes, Formed, UsedOnce
  <2>8. MembersCanSignIn' BY <1>10 DEF ListWorkflows, End, Reads, rowVars, RowTypes, ReqTypes, Formed, MembersCanSignIn
  <2>9. OrgsStayWhole' BY <1>10 DEF ListWorkflows, End, Reads, rowVars, RowTypes, ReqTypes, Formed, Rising, NewIsNew, AccountLast, OrgsStayWhole
  <2>10. DanglingOnlyLate' BY <1>10 DEF ListWorkflows, End, Reads, rowVars, RowTypes, ReqTypes, DanglingOnlyLate
  <2> QED BY <2>1, <2>2, <2>3, <2>4, <2>5, <2>6, <2>7, <2>8, <2>9, <2>10
<1>11. ASSUME NEW f \in Flows, DeleteListed(c, f) PROVE TenancyInv'
  <2>1. RowTypes' BY <1>11 DEF DeleteListed, End, RowTypes, ReqTypes, Formed
  <2>2. ReqTypes' BY <1>11 DEF DeleteListed, End, RowTypes, ReqTypes, Formed
  <2>3. Formed' BY <1>11 DEF DeleteListed, End, RowTypes, ReqTypes, Formed, UsedOnce
  <2>4. NewIsNew' BY <1>11 DEF DeleteListed, End, RowTypes, ReqTypes, Formed, NewIsNew, UsedOnce
  <2>5. Rising' BY <1>11 DEF DeleteListed, End, RowTypes, ReqTypes, Formed, Rising, NewIsNew
  <2>6. AccountLast' BY <1>11 DEF DeleteListed, End, RowTypes, ReqTypes, Formed, AccountLast, NewIsNew
  <2>7. UsedOnce' BY <1>11 DEF DeleteListed, End, RowTypes, ReqTypes, Formed, UsedOnce
  <2>8. MembersCanSignIn' BY <1>11 DEF DeleteListed, End, RowTypes, ReqTypes, Formed, MembersCanSignIn
  <2>9. OrgsStayWhole' BY <1>11 DEF DeleteListed, End, RowTypes, ReqTypes, Formed, Rising, NewIsNew, AccountLast, OrgsStayWhole
  <2>10. DanglingOnlyLate' BY <1>11 DEF DeleteListed, End, RowTypes, ReqTypes, DanglingOnlyLate
  <2> QED BY <2>1, <2>2, <2>3, <2>4, <2>5, <2>6, <2>7, <2>8, <2>9, <2>10
<1>12. ASSUME DeleteRows(c) PROVE TenancyInv'
  <2>1. RowTypes' BY <1>12 DEF DeleteRows, Cascade, Go, RowTypes, ReqTypes, Formed
  <2>2. ReqTypes' BY <1>12 DEF DeleteRows, Cascade, Go, RowTypes, ReqTypes, Formed
  <2>3. Formed' BY <1>12 DEF DeleteRows, Cascade, Go, RowTypes, ReqTypes, Formed, UsedOnce
  <2>4. NewIsNew' BY <1>12 DEF DeleteRows, Cascade, Go, RowTypes, ReqTypes, Formed, NewIsNew, UsedOnce
  <2>5. Rising' BY <1>12 DEF DeleteRows, Cascade, Go, RowTypes, ReqTypes, Formed, Rising, NewIsNew
  <2>6. AccountLast' BY <1>12 DEF DeleteRows, Cascade, Go, RowTypes, ReqTypes, Formed, AccountLast, NewIsNew
  <2>7. UsedOnce' BY <1>12 DEF DeleteRows, Cascade, Go, RowTypes, ReqTypes, Formed, UsedOnce
  <2>8. MembersCanSignIn' BY <1>12 DEF DeleteRows, Cascade, Go, RowTypes, ReqTypes, Formed, MembersCanSignIn
  <2>9. OrgsStayWhole' BY <1>12 DEF DeleteRows, Cascade, Go, RowTypes, ReqTypes, Formed, Rising, NewIsNew, AccountLast, OrgsStayWhole
  <2>10. DanglingOnlyLate' BY <1>12 DEF DeleteRows, Cascade, Go, RowTypes, ReqTypes, DanglingOnlyLate
  <2> QED BY <2>1, <2>2, <2>3, <2>4, <2>5, <2>6, <2>7, <2>8, <2>9, <2>10
<1>13. ASSUME DeleteAccount(c) PROVE TenancyInv'
  <2>1. RowTypes' BY <1>13 DEF DeleteAccount, End, RowTypes, ReqTypes, Formed
  <2>2. ReqTypes' BY <1>13 DEF DeleteAccount, End, RowTypes, ReqTypes, Formed
  <2>3. Formed' BY <1>13 DEF DeleteAccount, End, RowTypes, ReqTypes, Formed, UsedOnce
  <2>4. NewIsNew' BY <1>13 DEF DeleteAccount, End, RowTypes, ReqTypes, Formed, NewIsNew, UsedOnce
  <2>5. Rising' BY <1>13 DEF DeleteAccount, End, RowTypes, ReqTypes, Formed, Rising, AccountLast
  <2>6. AccountLast' BY <1>13 DEF DeleteAccount, End, RowTypes, ReqTypes, Formed, AccountLast, NewIsNew
  <2>7. UsedOnce' BY <1>13 DEF DeleteAccount, End, RowTypes, ReqTypes, Formed, UsedOnce
  <2>8. MembersCanSignIn' BY <1>13 DEF DeleteAccount, End, RowTypes, ReqTypes, Formed, MembersCanSignIn
  <2>9. OrgsStayWhole'
    <3> SUFFICES ASSUME NEW o \in made' \cap orgs'
                 PROVE  /\ o \in accounts' \cap registry' \cap workspaces'
                        /\ \E i \in Ids : <<i, o>> \in members' \cap owners'
        BY DEF OrgsStayWhole
    <3>1. o \in made \cap orgs /\ o # client[c].org
        BY <1>13 DEF DeleteAccount, AccountLast
    <3> QED BY <1>13, <3>1 DEF DeleteAccount, OrgsStayWhole
  <2>10. DanglingOnlyLate' BY <1>13 DEF DeleteAccount, End, RowTypes, ReqTypes, DanglingOnlyLate
  <2> QED BY <2>1, <2>2, <2>3, <2>4, <2>5, <2>6, <2>7, <2>8, <2>9, <2>10
<1>14. ASSUME NEW o \in Orgs, NewAccount(c, o) PROVE TenancyInv'
  <2>1. RowTypes' BY <1>14 DEF NewAccount, RowTypes, ReqTypes, Formed
  <2>2. ReqTypes' BY <1>14 DEF NewAccount, RowTypes, ReqTypes, Formed
  <2>3. Formed' BY <1>14 DEF NewAccount, RowTypes, ReqTypes, Formed, UsedOnce
  <2>4. NewIsNew' BY <1>14 DEF NewAccount, RowTypes, ReqTypes, Formed, NewIsNew, UsedOnce
  <2>5. Rising' BY <1>14 DEF NewAccount, RowTypes, ReqTypes, Formed, Rising, NewIsNew
  <2>6. AccountLast' BY <1>14 DEF NewAccount, RowTypes, ReqTypes, Formed, AccountLast, NewIsNew
  <2>7. UsedOnce' BY <1>14 DEF NewAccount, RowTypes, ReqTypes, Formed, UsedOnce
  <2>8. MembersCanSignIn' BY <1>14 DEF NewAccount, RowTypes, ReqTypes, Formed, MembersCanSignIn
  <2>9. OrgsStayWhole' BY <1>14 DEF NewAccount, RowTypes, ReqTypes, Formed, Rising, NewIsNew, AccountLast, OrgsStayWhole
  <2>10. DanglingOnlyLate' BY <1>14 DEF NewAccount, RowTypes, ReqTypes, DanglingOnlyLate
  <2> QED BY <2>1, <2>2, <2>3, <2>4, <2>5, <2>6, <2>7, <2>8, <2>9, <2>10
<1>15. ASSUME NewOrg(c) PROVE TenancyInv'
  <2>1. RowTypes' BY <1>15 DEF NewOrg, Go, RowTypes, ReqTypes, Formed
  <2>2. ReqTypes' BY <1>15 DEF NewOrg, Go, RowTypes, ReqTypes, Formed
  <2>3. Formed' BY <1>15 DEF NewOrg, Go, RowTypes, ReqTypes, Formed, UsedOnce
  <2>4. NewIsNew' BY <1>15 DEF NewOrg, Go, RowTypes, ReqTypes, Formed, NewIsNew, UsedOnce
  <2>5. Rising' BY <1>15 DEF NewOrg, Go, RowTypes, ReqTypes, Formed, Rising, NewIsNew
  <2>6. AccountLast' BY <1>15 DEF NewOrg, Go, RowTypes, ReqTypes, Formed, AccountLast, NewIsNew
  <2>7. UsedOnce' BY <1>15 DEF NewOrg, Go, RowTypes, ReqTypes, Formed, UsedOnce
  <2>8. MembersCanSignIn' BY <1>15 DEF NewOrg, Go, RowTypes, ReqTypes, Formed, MembersCanSignIn
  <2>9. OrgsStayWhole'
    <3> SUFFICES ASSUME NEW o \in made' \cap orgs'
                 PROVE  /\ o \in accounts' \cap registry' \cap workspaces'
                        /\ \E i \in Ids : <<i, o>> \in members' \cap owners'
        BY DEF OrgsStayWhole
    <3>1. o \in made \cap orgs BY <1>15 DEF NewOrg, NewIsNew
    <3> QED BY <1>15, <3>1 DEF NewOrg, OrgsStayWhole
  <2>10. DanglingOnlyLate' BY <1>15 DEF NewOrg, Go, RowTypes, ReqTypes, DanglingOnlyLate
  <2> QED BY <2>1, <2>2, <2>3, <2>4, <2>5, <2>6, <2>7, <2>8, <2>9, <2>10
<1>16. ASSUME NewRegistry(c) PROVE TenancyInv'
  <2>1. RowTypes' BY <1>16 DEF NewRegistry, Go, RowTypes, ReqTypes, Formed
  <2>2. ReqTypes' BY <1>16 DEF NewRegistry, Go, RowTypes, ReqTypes, Formed
  <2>3. Formed' BY <1>16 DEF NewRegistry, Go, RowTypes, ReqTypes, Formed, UsedOnce
  <2>4. NewIsNew' BY <1>16 DEF NewRegistry, Go, RowTypes, ReqTypes, Formed, NewIsNew, UsedOnce
  <2>5. Rising' BY <1>16 DEF NewRegistry, Go, RowTypes, ReqTypes, Formed, Rising, NewIsNew
  <2>6. AccountLast' BY <1>16 DEF NewRegistry, Go, RowTypes, ReqTypes, Formed, AccountLast, NewIsNew
  <2>7. UsedOnce' BY <1>16 DEF NewRegistry, Go, RowTypes, ReqTypes, Formed, UsedOnce
  <2>8. MembersCanSignIn' BY <1>16 DEF NewRegistry, Go, RowTypes, ReqTypes, Formed, MembersCanSignIn
  <2>9. OrgsStayWhole' BY <1>16 DEF NewRegistry, Go, RowTypes, ReqTypes, Formed, Rising, NewIsNew, AccountLast, OrgsStayWhole
  <2>10. DanglingOnlyLate' BY <1>16 DEF NewRegistry, Go, RowTypes, ReqTypes, DanglingOnlyLate
  <2> QED BY <2>1, <2>2, <2>3, <2>4, <2>5, <2>6, <2>7, <2>8, <2>9, <2>10
<1>17. ASSUME NewWorkspace(c) PROVE TenancyInv'
  <2>1. RowTypes' BY <1>17 DEF NewWorkspace, Go, End, RowTypes, ReqTypes, Formed
  <2>2. ReqTypes' BY <1>17 DEF NewWorkspace, Go, End, RowTypes, ReqTypes, Formed
  <2>3. Formed' BY <1>17 DEF NewWorkspace, Go, End, RowTypes, ReqTypes, Formed, UsedOnce
  <2>4. NewIsNew' BY <1>17 DEF NewWorkspace, Go, End, RowTypes, ReqTypes, Formed, NewIsNew, UsedOnce
  <2>5. Rising' BY <1>17 DEF NewWorkspace, Go, End, RowTypes, ReqTypes, Formed, Rising, NewIsNew
  <2>6. AccountLast' BY <1>17 DEF NewWorkspace, Go, End, RowTypes, ReqTypes, Formed, AccountLast, NewIsNew
  <2>7. UsedOnce' BY <1>17 DEF NewWorkspace, Go, End, RowTypes, ReqTypes, Formed, UsedOnce
  <2>8. MembersCanSignIn' BY <1>17 DEF NewWorkspace, Go, End, RowTypes, ReqTypes, Formed, MembersCanSignIn
  <2>9. OrgsStayWhole'
    <3> SUFFICES ASSUME NEW o \in made' \cap orgs'
                 PROVE  /\ o \in accounts' \cap registry' \cap workspaces'
                        /\ \E i \in Ids : <<i, o>> \in members' \cap owners'
        BY DEF OrgsStayWhole
    <3>1. o \in made \cap orgs BY <1>17 DEF NewWorkspace
    <3> QED BY <1>17, <3>1 DEF NewWorkspace, OrgsStayWhole
  <2>10. DanglingOnlyLate' BY <1>17 DEF NewWorkspace, Go, End, RowTypes, ReqTypes, DanglingOnlyLate
  <2> QED BY <2>1, <2>2, <2>3, <2>4, <2>5, <2>6, <2>7, <2>8, <2>9, <2>10
<1>18. ASSUME NewMember(c) PROVE TenancyInv'
  <2>1. RowTypes' BY <1>18 DEF NewMember, AddMembership, Go, RowTypes, ReqTypes, Formed
  <2>2. ReqTypes' BY <1>18 DEF NewMember, AddMembership, Go, RowTypes, ReqTypes, Formed
  <2>3. Formed' BY <1>18 DEF NewMember, AddMembership, Go, RowTypes, ReqTypes, Formed, UsedOnce
  <2>4. NewIsNew' BY <1>18 DEF NewMember, AddMembership, Go, RowTypes, ReqTypes, Formed, NewIsNew, UsedOnce
  <2>5. Rising' BY <1>18 DEF NewMember, AddMembership, Go, RowTypes, ReqTypes, Formed, Rising, NewIsNew
  <2>6. AccountLast' BY <1>18 DEF NewMember, AddMembership, Go, RowTypes, ReqTypes, Formed, AccountLast, NewIsNew
  <2>7. UsedOnce' BY <1>18 DEF NewMember, AddMembership, Go, RowTypes, ReqTypes, Formed, UsedOnce
  <2>8. MembersCanSignIn' BY <1>18 DEF NewMember, AddMembership, Go, RowTypes, ReqTypes, Formed, MembersCanSignIn
  <2>9. OrgsStayWhole' BY <1>18 DEF NewMember, AddMembership, Go, RowTypes, ReqTypes, Formed, Rising, NewIsNew, AccountLast, OrgsStayWhole
  <2>10. DanglingOnlyLate' BY <1>18 DEF NewMember, AddMembership, Go, RowTypes, ReqTypes, DanglingOnlyLate
  <2> QED BY <2>1, <2>2, <2>3, <2>4, <2>5, <2>6, <2>7, <2>8, <2>9, <2>10
<1>19. ASSUME NewOwner(c) PROVE TenancyInv'
  <2>1. RowTypes' BY <1>19 DEF NewOwner, End, RowTypes, ReqTypes, Formed
  <2>2. ReqTypes' BY <1>19 DEF NewOwner, End, RowTypes, ReqTypes, Formed
  <2>3. Formed' BY <1>19 DEF NewOwner, End, RowTypes, ReqTypes, Formed, UsedOnce
  <2>4. NewIsNew' BY <1>19 DEF NewOwner, End, RowTypes, ReqTypes, Formed, NewIsNew, UsedOnce
  <2>5. Rising' BY <1>19 DEF NewOwner, End, RowTypes, ReqTypes, Formed, Rising, NewIsNew
  <2>6. AccountLast' BY <1>19 DEF NewOwner, End, RowTypes, ReqTypes, Formed, AccountLast, NewIsNew
  <2>7. UsedOnce' BY <1>19 DEF NewOwner, End, RowTypes, ReqTypes, Formed, UsedOnce
  <2>8. MembersCanSignIn' BY <1>19 DEF NewOwner, End, RowTypes, ReqTypes, Formed, MembersCanSignIn
  <2>9. OrgsStayWhole'
    <3> SUFFICES ASSUME NEW o \in made' \cap orgs'
                 PROVE  /\ o \in accounts' \cap registry' \cap workspaces'
                        /\ \E i \in Ids : <<i, o>> \in members' \cap owners'
        BY DEF OrgsStayWhole
    <3>1. CASE o \in made
        BY <1>19, <3>1 DEF NewOwner, OrgsStayWhole
    <3>2. CASE o \notin made
      <4>1. o = client[c].org /\ o \in orgs BY <1>19, <3>2 DEF NewOwner
      <4>2. client[c].who \in Ids BY <1>19 DEF NewOwner, Formed, RowTypes
      <4>3. <<client[c].who, o>> \in members' \cap owners'
          BY <1>19, <4>1 DEF NewOwner, Rising
      <4> QED BY <1>19, <4>1, <4>2, <4>3 DEF NewOwner, Rising
    <3> QED BY <3>1, <3>2
  <2>10. DanglingOnlyLate' BY <1>19 DEF NewOwner, End, RowTypes, ReqTypes, DanglingOnlyLate
  <2> QED BY <2>1, <2>2, <2>3, <2>4, <2>5, <2>6, <2>7, <2>8, <2>9, <2>10
<1>20. ASSUME NEW at \in {"invite", "grant"}, NEW i \in Ids, Handle(c, at, i) PROVE TenancyInv'
  BY <1>3, <1>20
<1>21. ASSUME NEW f \in Flows, Handle(c, "drop", f) PROVE TenancyInv'
  BY <1>3, <1>21
<1>22. ASSUME NEW at \in {"flow", "list"}, Handle(c, at, None) PROVE TenancyInv'
  BY <1>3, <1>22
<1> HIDE DEF TenancyInv
<1> QED
  BY <1>1, <1>2, <1>4, <1>5, <1>6, <1>7, <1>8, <1>9, <1>10, <1>11, <1>12, <1>13, <1>14,
     <1>15, <1>16, <1>17, <1>18, <1>19, <1>20, <1>21, <1>22 DEF Step

\* Requests that end because a statement failed or the process died.
LEMMA EndsKeep ==
    ASSUME TenancyInv, UNCHANGED <<rowVars, used, made, late>>, ops' \in 0..MaxOps,
           client' \in [Clients -> {Idle} \cup {client[c] : c \in Clients}],
           \A c \in Clients : client'[c] \in {client[c], Idle}
    PROVE  TenancyInv'
<1> USE TenancyAssumption DEF TenancyInv, rowVars
<1>1. RowTypes' BY DEF RowTypes
<1>2. \A c \in Clients : client[c] \in [at : Steps, who : Ids \cup {None}, org : Orgs \cup {None},
                            on : Ids \cup Flows \cup {None}, seen : SUBSET (Orgs \cup Flows)]
    BY DEF ReqTypes
<1>3. Idle \in [at : Steps, who : Ids \cup {None}, org : Orgs \cup {None},
                on : Ids \cup Flows \cup {None}, seen : SUBSET (Orgs \cup Flows)]
      /\ Idle.at = "idle" /\ Idle.org = None
    BY DEF Idle, Req, Steps
<1>4. ReqTypes' BY <1>2, <1>3 DEF ReqTypes
<1>5. Formed' BY <1>3 DEF Formed
<1>6. NewIsNew' BY <1>3 DEF NewIsNew
<1>7. Rising' BY <1>3 DEF Rising
<1>8. AccountLast' BY <1>3 DEF AccountLast
<1>9. UsedOnce' BY DEF UsedOnce
<1>10. MembersCanSignIn' BY DEF MembersCanSignIn
<1>11. OrgsStayWhole' BY DEF OrgsStayWhole
<1>12. DanglingOnlyLate' BY DEF DanglingOnlyLate
<1> QED
  BY <1>1, <1>4, <1>5, <1>6, <1>7, <1>8, <1>9, <1>10, <1>11, <1>12

-----------------------------------------------------------------------------
(* Theorems.                                                               *)

\* The inductive invariant holds.
THEOREM TenancyInvHolds == Spec => []TenancyInv
<1>1. Init => TenancyInv BY TenancyInit
<1>2. TenancyInv /\ [Next]_vars => TenancyInv'
  <2> SUFFICES ASSUME TenancyInv, [Next]_vars PROVE TenancyInv' OBVIOUS
  <2>1. ops \in 0..MaxOps /\ DOMAIN client = Clients
        /\ client = [c \in Clients |-> client[c]]
      BY DEF TenancyInv, RowTypes, ReqTypes
  <2>2. CASE UNCHANGED vars
      BY <2>1, <2>2, EndsKeep DEF vars
  <2>3. ASSUME NEW c \in Clients, Step(c) PROVE TenancyInv'
      BY <2>3, StepKeeps
  <2>4. ASSUME NEW c \in Clients, Throws(c) PROVE TenancyInv'
      BY <2>1, <2>4, EndsKeep DEF Throws, End, Reads
  <2>5. CASE Restart
      BY <2>1, <2>5, TenancyAssumption, EndsKeep DEF Restart, Count
  <2> QED BY <2>2, <2>3, <2>4, <2>5 DEF Next
<1> QED BY <1>1, <1>2, PTL DEF Spec

\* Type correctness.
THEOREM TenancyTyped == Spec => []TypeOK
<1> DEFINE AloneType == alone \in Clients \cup {None}
<1>1. Init => AloneType BY DEF Init
<1>2. AloneType /\ [Next]_vars => AloneType' BY DEF Next, Alone, Throws, Restart, vars
<1>3. AloneType /\ TenancyInv => TypeOK
    BY DEF TypeOK, TenancyInv, RowTypes, ReqTypes
<1> QED BY <1>1, <1>2, <1>3, TenancyInvHolds, PTL DEF Spec

\* Every member can sign in, however invitations overlap or stop half-way.
THEOREM MembersSignIn == Spec => []MembersCanSignIn
<1>1. TenancyInv => MembersCanSignIn BY DEF TenancyInv
<1> QED BY <1>1, TenancyInvHolds, PTL

\* An organization whose creation returned is whole until it goes.
THEOREM OrgsWhole == Spec => []OrgsStayWhole
<1>1. TenancyInv => OrgsStayWhole BY DEF TenancyInv
<1> QED BY <1>1, TenancyInvHolds, PTL

\* A membership without its organization was added after the organization had gone.
THEOREM DanglingLate == Spec => []DanglingOnlyLate
<1>1. TenancyInv => DanglingOnlyLate BY DEF TenancyInv
<1> QED BY <1>1, TenancyInvHolds, PTL

\* A step of a request changes the rows of the organization it is bound to, or creates.
LEMMA StepIsolated ==
    ASSUME TenancyInv, NEW c \in Clients, Step(c), NEW o \in Orgs, RowsOf(o)' # RowsOf(o)
    PROVE  client[c] # client'[c] /\ o \in {client[c].org, client'[c].org}
<1> USE DEF TenancyInv
<1>1. c \in DOMAIN client /\ client[c].at \in Steps BY DEF ReqTypes
<1>2. ~ UNCHANGED <<orgs, accounts, registry, workspaces, members, owners, flows>>
    BY DEF RowsOf
<1>3. CASE Issue(c)
    BY <1>1, <1>3, TenancyAssumption DEF Issue, RowsOf, Req, Idle, RowTypes, ReqTypes
<1>4. CASE Join(c)
    BY <1>1, <1>4, TenancyAssumption DEF Join, AddMembership, End, RowsOf, Req, Idle, RowTypes, ReqTypes
<1>5. CASE Grant(c)
    BY <1>1, <1>5, TenancyAssumption DEF Grant, End, RowsOf, Req, Idle, RowTypes, ReqTypes
<1>6. CASE \E f \in Flows : CreateWorkflow(c, f)
  <2>1. PICK f \in Flows : CreateWorkflow(c, f) BY <1>6
  <2>2. flows[f] = None /\ o # None /\ flows \in [Flows -> Orgs \cup {None}]
      BY <2>1, TenancyAssumption DEF CreateWorkflow, UsedOnce, RowTypes
  <2>3. flows' = [flows EXCEPT ![f] = client[c].org]
      BY <1>2, <2>1 DEF CreateWorkflow
  <2>4. ASSUME o # client[c].org PROVE FALSE
    <3>1. \A g \in Flows : flows'[g] = o <=> flows[g] = o BY <2>2, <2>3, <2>4
    <3> QED BY <2>1, <3>1 DEF CreateWorkflow, RowsOf
  <2> QED BY <1>1, <2>1, <2>4 DEF CreateWorkflow, End, Idle, Req
<1>7. CASE DeleteWorkflow(c)
    BY <1>1, <1>7, TenancyAssumption DEF DeleteWorkflow, Theirs, End, RowsOf, Req, Idle, RowTypes, ReqTypes
<1>8. CASE \E f \in Flows : DeleteListed(c, f)
    BY <1>1, <1>8, TenancyAssumption DEF DeleteListed, Theirs, End, RowsOf, Req, Idle, RowTypes, ReqTypes
<1>9. CASE DeleteRows(c)
    BY <1>1, <1>9, TenancyAssumption DEF DeleteRows, Cascade, Go, RowsOf, Req, Idle, RowTypes, ReqTypes
<1>10. CASE DeleteAccount(c)
    BY <1>1, <1>10, TenancyAssumption DEF DeleteAccount, End, RowsOf, Req, Idle, RowTypes, ReqTypes
<1>11. CASE \E o2 \in Orgs : NewAccount(c, o2)
    BY <1>1, <1>11, TenancyAssumption DEF NewAccount, RowsOf, Req, Idle, RowTypes, ReqTypes
<1>12. CASE NewOrg(c)
    BY <1>1, <1>12, TenancyAssumption DEF NewOrg, Go, RowsOf, Req, Idle, RowTypes, ReqTypes
<1>13. CASE NewRegistry(c)
    BY <1>1, <1>13, TenancyAssumption DEF NewRegistry, Go, RowsOf, Req, Idle, RowTypes, ReqTypes
<1>14. CASE NewWorkspace(c)
    BY <1>1, <1>14, TenancyAssumption DEF NewWorkspace, Go, End, RowsOf, Req, Idle, RowTypes, ReqTypes
<1>15. CASE NewMember(c)
    BY <1>1, <1>15, TenancyAssumption DEF NewMember, AddMembership, Go, RowsOf, Req, Idle, RowTypes, ReqTypes
<1>16. CASE NewOwner(c)
    BY <1>1, <1>16, TenancyAssumption DEF NewOwner, End, RowsOf, Req, Idle, RowTypes, ReqTypes
<1>17. CASE \/ \E who \in Ids, org \in Orgs \cup {None} : Request(c, who, org)
           \/ Resolve(c) \/ Invite(c) \/ ListWorkflows(c)
           \/ \E at \in Steps, on \in Ids \cup Flows \cup {None} : Handle(c, at, on)
    BY <1>2, <1>17 DEF Request, Resolve, Invite, ListWorkflows, Handle, Reads, rowVars
<1> QED BY <1>3, <1>4, <1>5, <1>6, <1>7, <1>8, <1>9, <1>10, <1>11, <1>12, <1>13, <1>14, <1>15, <1>16, <1>17 DEF Step, Steps

\* A step changes rows of an organization only for a request that is bound to it or creates it.
THEOREM TenantsStayIsolated == Spec => TenantsIsolated
<1>1. TenancyInv /\ [Next]_vars =>
        [\A o \in Orgs : RowsOf(o)' # RowsOf(o)
          => \E c \in Clients : client[c] # client'[c] /\ o \in {client[c].org, client'[c].org}]_vars
  <2> SUFFICES ASSUME TenancyInv, Next, NEW o \in Orgs, RowsOf(o)' # RowsOf(o)
               PROVE  \E c \in Clients : client[c] # client'[c] /\ o \in {client[c].org, client'[c].org}
      OBVIOUS
  <2>1. ASSUME NEW c \in Clients, Step(c)
        PROVE  \E d \in Clients : client[d] # client'[d] /\ o \in {client[d].org, client'[d].org}
      BY <2>1, StepIsolated
  <2>2. ASSUME NEW c \in Clients, Throws(c) PROVE FALSE
      BY <2>2 DEF Throws, Reads, rowVars, RowsOf
  <2>3. CASE Restart BY <2>3 DEF Restart, rowVars, RowsOf
  <2> QED BY <2>1, <2>2, <2>3 DEF Next
<1> QED BY <1>1, TenancyInvHolds, PTL DEF Spec, TenantsIsolated

-----------------------------------------------------------------------------
(* A deletion that runs alone.                                             *)

\* While a request is alone the others rest, and when it has come to the account of a
\* deleted organization the account is all that is left.
AloneSeen ==
    \A c \in Clients : alone = c =>
        /\ \A d \in Clients \ {c} : client[d].at = "idle"
        /\ client[c].at = "account" =>
              LET o == client[c].org IN
              /\ o \notin orgs \cup registry \cup workspaces
              /\ \A i \in Ids : <<i, o>> \notin members \cup owners
              /\ \A f \in Flows : flows[f] # o

\* A step of a request leaves the other requests where they are.
LEMMA OthersStay ==
    ASSUME TenancyInv, NEW c \in Clients, Step(c), NEW d \in Clients \ {c}
    PROVE  client'[d] = client[d]
<1> USE DEF TenancyInv, ReqTypes
<1>1. CASE \/ \E who \in Ids, org \in Orgs \cup {None} : Request(c, who, org)
           \/ Resolve(c) \/ Invite(c) \/ ListWorkflows(c)
           \/ \E at \in Steps, on \in Ids \cup Flows \cup {None} : Handle(c, at, on)
    BY <1>1 DEF Request, Resolve, Invite, ListWorkflows, Handle, Go, End
<1>2. CASE \/ Issue(c) \/ Join(c) \/ Grant(c) \/ DeleteWorkflow(c) \/ DeleteRows(c)
           \/ DeleteAccount(c) \/ NewOrg(c) \/ NewRegistry(c) \/ NewWorkspace(c)
           \/ NewMember(c) \/ NewOwner(c)
    BY <1>2 DEF Issue, Join, Grant, DeleteWorkflow, DeleteRows, DeleteAccount, NewOrg,
                NewRegistry, NewWorkspace, NewMember, NewOwner, Go, End
<1>3. CASE \/ \E f \in Flows : CreateWorkflow(c, f) \/ DeleteListed(c, f)
           \/ \E o \in Orgs : NewAccount(c, o)
    BY <1>3 DEF CreateWorkflow, DeleteListed, NewAccount, Go, End
<1> QED BY <1>1, <1>2, <1>3 DEF Step, Steps

\* Only DeleteRows brings a request to the account.
LEMMA ReachesAccount ==
    ASSUME TenancyInv, NEW c \in Clients, Step(c), client'[c].at = "account"
    PROVE  DeleteRows(c)
<1> USE DEF TenancyInv, ReqTypes
<1>1. CASE \/ \E who \in Ids, org \in Orgs \cup {None} : Request(c, who, org)
           \/ Resolve(c) \/ Invite(c) \/ ListWorkflows(c)
    BY <1>1 DEF Request, Resolve, Invite, ListWorkflows, Go, End, Req, Idle
<1>2. CASE \/ \E at \in {"invite", "grant"}, i \in Ids : Handle(c, at, i)
           \/ \E f \in Flows : Handle(c, "drop", f)
           \/ \E at \in {"flow", "list"} : Handle(c, at, None)
    BY <1>2 DEF Handle, End, Req, Idle
<1>3. CASE \/ Issue(c) \/ Join(c) \/ Grant(c) \/ DeleteWorkflow(c)
           \/ DeleteAccount(c) \/ NewOrg(c) \/ NewRegistry(c) \/ NewWorkspace(c)
           \/ NewMember(c) \/ NewOwner(c)
    BY <1>3 DEF Issue, Join, Grant, DeleteWorkflow, DeleteAccount, NewOrg,
                NewRegistry, NewWorkspace, NewMember, NewOwner, Go, End, Req, Idle
<1>4. CASE \/ \E f \in Flows : CreateWorkflow(c, f) \/ DeleteListed(c, f)
           \/ \E o \in Orgs : NewAccount(c, o)
    BY <1>4 DEF CreateWorkflow, DeleteListed, NewAccount, Go, End, Req, Idle
<1> QED BY <1>1, <1>2, <1>3, <1>4 DEF Step

\* From the account a request only ends, and with it the account goes.
LEMMA LeavesAccount ==
    ASSUME TenancyInv, NEW c \in Clients, Step(c), client[c].at = "account"
    PROVE  DeleteAccount(c)
BY DEF Step, Request, Resolve, Handle, Invite, Issue, Join, Grant, CreateWorkflow, DeleteWorkflow,
       ListWorkflows, DeleteListed, DeleteRows, NewAccount, NewOrg, NewRegistry, NewWorkspace,
       NewMember, NewOwner

LEMMA AloneStep == TenancyInv /\ AloneSeen /\ [Next]_vars => AloneSeen'
<1> SUFFICES ASSUME TenancyInv, AloneSeen, [Next]_vars PROVE AloneSeen' OBVIOUS
<1>1. ASSUME NEW c \in Clients, Step(c), Alone(c) PROVE AloneSeen'
  <2>1. \A d \in Clients : alone' = d => d = c BY <1>1, TenancyAssumption DEF Alone
  <2>2. ASSUME alone' = c, NEW d \in Clients \ {c} PROVE client'[d].at = "idle"
    <3>1. client[d].at = "idle" BY <1>1, <2>2, TenancyAssumption DEF Alone, AloneSeen
    <3> QED BY <1>1, <3>1, OthersStay
  <2>3. ASSUME client'[c].at = "account"
        PROVE  LET o == client'[c].org IN
               /\ o \notin orgs' \cup registry' \cup workspaces'
               /\ \A i \in Ids : <<i, o>> \notin members' \cup owners'
               /\ \A f \in Flows : flows'[f] # o
    <3>1. DeleteRows(c) BY <1>1, <2>3, ReachesAccount
    <3>2. client'[c].org = client[c].org BY <3>1 DEF DeleteRows, Go, TenancyInv, ReqTypes
    <3>3. client[c].org \in Orgs BY <3>1 DEF DeleteRows, TenancyInv, Formed
    <3> QED BY <3>1, <3>2, <3>3, TenancyAssumption DEF DeleteRows, Cascade
  <2> QED BY <2>1, <2>2, <2>3 DEF AloneSeen
<1>2. ASSUME NEW c \in Clients, Throws(c) PROVE AloneSeen'
    BY <1>2, TenancyAssumption DEF Throws, AloneSeen
<1>3. CASE Restart BY <1>3, TenancyAssumption DEF Restart, AloneSeen
<1>4. CASE UNCHANGED vars BY <1>4 DEF vars, rowVars, AloneSeen
<1> QED BY <1>1, <1>2, <1>3, <1>4 DEF Next

\* A deletion that no other request overlapped leaves nothing of its organization.
THEOREM LoneDeletionsCascade == Spec => LoneDeletionCascades
<1>1. Init => AloneSeen BY TenancyAssumption DEF Init, AloneSeen
<1>2. TenancyInv /\ AloneSeen /\ [Next]_vars =>
        [\A c \in Clients, o \in Orgs :
          client[c].at = "account" /\ client[c].org = o /\ client'[c].at = "idle" /\ alone' = c
              => Gone(o)']_vars
  <2> SUFFICES ASSUME TenancyInv, AloneSeen, Next, NEW c \in Clients, NEW o \in Orgs,
                      client[c].at = "account", client[c].org = o, alone' = c
               PROVE  Gone(o)'
      OBVIOUS
  <2>1. PICK d \in Clients : Step(d) /\ Alone(d)
      BY TenancyAssumption DEF Next, Throws, Restart
  <2>2. d = c BY <2>1, TenancyAssumption DEF Alone
  <2>3. alone = c BY <2>1, <2>2, TenancyAssumption DEF Alone
  <2>4. DeleteAccount(c) BY <2>1, <2>2, LeavesAccount
  <2> QED BY <2>3, <2>4 DEF DeleteAccount, Gone, AloneSeen
<1> QED BY <1>1, <1>2, AloneStep, TenancyInvHolds, PTL DEF Spec, LoneDeletionCascades
=============================================================================
