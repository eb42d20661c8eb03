-------------------------- MODULE Workspaces_proofs --------------------------
(***************************************************************************)
(* Proofs about Workspaces, for any number of accounts, requests, invites  *)
(* and rows: type correctness, that the workspace keeps its one owner,     *)
(* that what was announced of an invite is what its row says, that cached  *)
(* roles and pages go stale only for a cause, the bound on open invites,   *)
(* and that joins and accepted events match one to one.                    *)
(***************************************************************************)
EXTENDS Workspaces, SequenceTheorems, FiniteSetTheorems, TLAPS

RequestRecord ==
    [op : Operation \cup {"none"}, by : Accounts, at : Step, todo : Seq(Fact),
     held : Role \cup {None, "fresh", "stale"}, target : Accounts, subject : Nat,
     grant : AssignableRole \cup {None}, reply : Nat]

(* The operations that get to a step.                                      *)
OpsAt(at) ==
    CASE at \in {"lookup", "query", "store"}            -> Operation
      [] at = "done" -> {"getWorkspace", "getMembership", "listWorkspaces", "listMyInvites"}
      [] at \in {"getPage", "queryPage", "storePage"}   -> {"listMembers", "listInvites"}
      [] at \in {"exists", "pending", "insert"}         -> {"invite"}
      [] at = "findInvite"                              -> {"accept", "reject"}
      [] at \in {"findMember", "pages", "roles"}        -> {"remove", "updateRole"}
      [] at = "write"  -> {"accept", "reject", "remove", "updateRole"}
      [] at = "commit" -> {"invite", "accept", "reject"}
      [] OTHER         -> Operation \cup {"none"}

Good(req) ==
    /\ req \in RequestRecord
    /\ req.op \in OpsAt(req.at)
    /\ req.at \in {"lookup", "query", "store"} => req.todo # <<>>
    /\ req.at = "store" => req.held \in Role \cup {None}
    /\ req.at = "storePage" => req.held \in {"fresh", "stale"}
    /\ req.op \in {"accept", "reject"} => req.subject \in Invites

(* Past its checks a removal or change of role is not the owner's, and     *)
(* neither is an invite that is being accepted.                            *)
SparesOwner(req) ==
    /\ req.op \in {"remove", "updateRole"} /\ req.at \in {"write", "pages", "roles"} =>
          req.target # Owner
    /\ req.op = "accept" /\ req.at = "commit" => req.by # Owner

RequestsOK ==
    /\ request \in [Requests -> RequestRecord]
    /\ \A r \in Requests : Good(request[r]) /\ SparesOwner(request[r])

RolesOK ==
    /\ accountRole \in [Accounts -> Role \cup {None}]
    /\ rowId \in [Accounts -> Nat]
    /\ cached \in [Fact -> [Accounts -> Role \cup {None, Miss}]]

InvitesOK ==
    /\ invite \in [Invites ->
         [status : {"unsent", "pending", "accepted", "rejected"}, to : Accounts,
          role : AssignableRole \cup {None}, expired : BOOLEAN]]
    /\ sent \in [RoutingKey -> [Invites -> Nat]]

PagesOK ==
    /\ page \in [Pages -> {Miss, "fresh", "stale"}]
    /\ raced \subseteq Accounts \cup Pages

WorkspaceInv == RolesOK /\ OneOwner /\ InvitesOK /\ PagesOK /\ RequestsOK

LEMMA InvIsTyped == WorkspaceInv => TypeOK
BY DEF WorkspaceInv, RolesOK, InvitesOK, PagesOK, RequestsOK, RequestRecord, TypeOK

-----------------------------------------------------------------------------
(* Requests.                                                               *)

LEMMA Operations ==
  Operation = {"getWorkspace", "getMembership", "listWorkspaces", "listMyInvites", "listMembers",
               "listInvites", "invite", "accept", "reject", "remove", "updateRole"}
BY DEF Operation, ControllerOf

LEMMA IdleGood ==
  ASSUME NEW n \in Nat
  PROVE  Good([Idle EXCEPT !.reply = n]) /\ SparesOwner([Idle EXCEPT !.reply = n])
<1> DEFINE new == [Idle EXCEPT !.reply = n]
<1>1. <<>> \in Seq(Fact)
  OBVIOUS
<1>2. new \in RequestRecord
  BY <1>1, OwnerAssumption DEF Idle, RequestRecord, Step
<1>3. new.at = "idle" /\ new.op = "none"
  BY DEF Idle
<1> HIDE DEF new
<1>4. Good(new) /\ SparesOwner(new)
  BY <1>2, <1>3 DEF Good, OpsAt, SparesOwner
<1> QED BY <1>4 DEF new

(* One slot gets a good request, the others stay.                          *)
LEMMA SetGood ==
  ASSUME RequestsOK, NEW r \in Requests, NEW x, Good(x), SparesOwner(x),
         request' = [request EXCEPT ![r] = x]
  PROVE  RequestsOK'
<1>1. request' \in [Requests -> RequestRecord]
  BY DEF RequestsOK, Good
<1>2. \A q \in Requests : Good(request'[q]) /\ SparesOwner(request'[q])
  BY DEF RequestsOK
<1> QED BY <1>1, <1>2 DEF RequestsOK, Good, SparesOwner

LEMMA RefuseGood ==
  ASSUME RequestsOK, NEW r \in Requests, NEW n \in Nat, Refuse(r, n)
  PROVE  RequestsOK'
BY IdleGood, SetGood DEF Refuse

(* The statuses the handlers' results are answered with.                   *)
Statuses ==
    [invite |-> {"ok", "AlreadyAMember", "InviteAlreadyPending"},
     accept |-> {"ok", "InviteNotFound", "InviteExpired", "InviteAlreadyUsed",
                 "InviteEmailMismatch", "AlreadyAMember"},
     reject |-> {"ok", "InviteNotFound", "InviteExpired", "InviteAlreadyUsed",
                 "InviteEmailMismatch", "AlreadyAMember"},
     remove |-> {"ok", "MemberNotFound", "CannotRemoveSelf", "CannotRemoveOwner"},
     updateRole |-> {"ok", "MemberNotFound", "CannotUpdateOwnerRole"}]

LEMMA StatusType ==
  /\ \A op \in Operation : ControllerOf[op].status["ok"] \in Nat
  /\ \A op \in {"invite", "accept", "reject", "remove", "updateRole"} :
        \A result \in Statuses[op] : ControllerOf[op].status[result] \in Nat
<1>1. \A op \in Operation : ControllerOf[op].status["ok"] \in Nat
  BY Operations DEF ControllerOf, GetWorkspaceController, GetMyWorkspaceMembershipController,
     ListMyWorkspacesController, ListMyInvitesController, ListWorkspaceMembersController,
     ListWorkspaceInvitesController, InviteMemberController, RespondToInviteController,
     RemoveWorkspaceMemberController, UpdateWorkspaceMemberRoleController
<1>2. \A result \in Statuses["invite"] : ControllerOf["invite"].status[result] \in Nat
  BY DEF Statuses, ControllerOf, InviteMemberController
<1>3. \A result \in Statuses["accept"] : ControllerOf["accept"].status[result] \in Nat
  BY DEF Statuses, ControllerOf, RespondToInviteController
<1>4. \A result \in Statuses["reject"] : ControllerOf["reject"].status[result] \in Nat
  BY DEF Statuses, ControllerOf, RespondToInviteController
<1>5. \A result \in Statuses["remove"] : ControllerOf["remove"].status[result] \in Nat
  BY DEF Statuses, ControllerOf, RemoveWorkspaceMemberController
<1>6. \A result \in Statuses["updateRole"] : ControllerOf["updateRole"].status[result] \in Nat
  BY DEF Statuses, ControllerOf, UpdateWorkspaceMemberRoleController
<1> QED BY <1>1, <1>2, <1>3, <1>4, <1>5, <1>6

LEMMA ReplyGood ==
  ASSUME RequestsOK, NEW r \in Requests, NEW result,
         \/ result = "ok" /\ request[r].op \in Operation
         \/ /\ request[r].op \in {"invite", "accept", "reject", "remove", "updateRole"}
            /\ result \in Statuses[request[r].op],
         Reply(r, result)
  PROVE  RequestsOK'
<1>1. ControllerOf[request[r].op].status[result] \in Nat
  BY StatusType
<1> QED BY <1>1, IdleGood, SetGood DEF Reply

(* A handler goes on.                                                      *)
LEMMA GotoGood ==
  ASSUME RequestsOK, NEW r \in Requests, NEW at \in Step \ {"lookup", "query", "store", "storePage"},
         Goto(r, at), request[r].op \in OpsAt(at), SparesOwner([request[r] EXCEPT !.at = at])
  PROVE  RequestsOK'
<1> DEFINE new == [request[r] EXCEPT !.at = at]
<1>1. request[r] \in RequestRecord /\ Good(request[r])
  BY DEF RequestsOK
<1>2. new \in RequestRecord
  BY <1>1 DEF RequestRecord
<1>3. new.at = at /\ new.op = request[r].op /\ new.subject = request[r].subject
  BY <1>1 DEF RequestRecord
<1>4. request' = [request EXCEPT ![r] = new] /\ SparesOwner(new)
  BY DEF Goto
<1> HIDE DEF new
<1>5. Good(new)
  BY <1>1, <1>2, <1>3 DEF Good
<1> QED BY <1>4, <1>5, SetGood

(* The readers of a page learn that it has changed.                        *)
LEMMA AgedGood ==
  ASSUME RequestsOK, NEW ps
  PROVE  /\ AgedReaders(ps) \in [Requests -> RequestRecord]
         /\ \A q \in Requests : /\ Good(AgedReaders(ps)[q]) /\ SparesOwner(AgedReaders(ps)[q])
                                /\ request[q].at # "storePage" =>
                                     AgedReaders(ps)[q] = request[q]
<1> DEFINE old(q) == [request[q] EXCEPT !.held = "stale"]
<1>1. \A q \in Requests : request[q].at = "storePage" => Good(old(q)) /\ SparesOwner(old(q))
  <2> SUFFICES ASSUME NEW q \in Requests, request[q].at = "storePage"
               PROVE  Good(old(q)) /\ SparesOwner(old(q))
    OBVIOUS
  <2>1. request[q] \in RequestRecord /\ Good(request[q])
    BY DEF RequestsOK
  <2>2. old(q) \in RequestRecord
    BY <2>1 DEF RequestRecord
  <2>3. /\ old(q).at = "storePage" /\ old(q).op = request[q].op /\ old(q).held = "stale"
        /\ old(q).subject = request[q].subject
    BY <2>1 DEF RequestRecord
  <2> HIDE DEF old
  <2> QED BY <2>1, <2>2, <2>3 DEF Good, SparesOwner
<1>2. \A q \in Requests :
        \/ AgedReaders(ps)[q] = request[q]
        \/ request[q].at = "storePage" /\ AgedReaders(ps)[q] = old(q)
  BY DEF AgedReaders
<1> HIDE DEF old
<1>3. \A q \in Requests : Good(AgedReaders(ps)[q]) /\ SparesOwner(AgedReaders(ps)[q])
  BY <1>1, <1>2 DEF RequestsOK
<1>4. AgedReaders(ps) \in [Requests -> RequestRecord]
  BY <1>3 DEF AgedReaders, Good
<1> QED BY <1>2, <1>3, <1>4

-----------------------------------------------------------------------------
(* Arrival and the middlewares.                                            *)

CheckLists ==
    {<<>>, <<"membership">>, <<"role">>, <<"membership", "permissions">>,
     <<"membership", "role", "permissions">>}

LEMMA ChecksType ==
  ASSUME NEW op \in Operation
  PROVE  ControllerOf[op].checks \in Seq(Fact)
<1>1. ControllerOf[op].checks \in CheckLists
  BY Operations DEF CheckLists, ControllerOf, GetWorkspaceController,
     GetMyWorkspaceMembershipController, ListMyWorkspacesController, ListMyInvitesController,
     ListWorkspaceMembersController, ListWorkspaceInvitesController, InviteMemberController,
     RespondToInviteController, RemoveWorkspaceMemberController,
     UpdateWorkspaceMemberRoleController
<1>2. "membership" \in Fact /\ "role" \in Fact /\ "permissions" \in Fact
  BY DEF Fact
<1>3. <<>> \in Seq(Fact) /\ <<"membership">> \in Seq(Fact) /\ <<"role">> \in Seq(Fact)
  BY <1>2
<1>4. <<"membership", "permissions">> \in Seq(Fact)
  BY <1>2
<1>5. <<"membership", "role", "permissions">> \in Seq(Fact)
  BY <1>2
<1> QED BY <1>1, <1>3, <1>4, <1>5 DEF CheckLists

LEMMA FirstStepType ==
  \A op \in Operation :
     /\ FirstStep[op] \in {"done", "getPage", "exists", "findInvite", "findMember"}
     /\ op \in OpsAt(FirstStep[op])
BY Operations DEF FirstStep, OpsAt

LEMMA ArriveGood ==
  ASSUME RequestsOK, NEW r \in Requests, NEW op \in Operation, NEW a \in Accounts,
         NEW fields \in RequestRecord,
         op \in {"accept", "reject"} => fields.subject \in Invites,
         Arrive(r, op, a, fields)
  PROVE  RequestsOK'
<1> DEFINE checks == ControllerOf[op].checks
           at == IF checks = <<>> THEN FirstStep[op] ELSE "lookup"
           new == [fields EXCEPT !.op = op, !.by = a, !.todo = checks, !.at = at]
<1>0. checks \in Seq(Fact)
  BY ChecksType
<1>1. at = FirstStep[op] \/ (at = "lookup" /\ checks # <<>>)
  OBVIOUS
<1>2. /\ at \in {"done", "getPage", "exists", "findInvite", "findMember", "lookup"}
      /\ op \in OpsAt(at)
  BY <1>1, FirstStepType DEF OpsAt
<1>3. request' = [request EXCEPT ![r] = new]
  BY DEF Arrive, Begin
<1> HIDE DEF checks, at
<1>4. new \in RequestRecord
  BY <1>0, <1>2 DEF RequestRecord, Step
<1>5. new.op = op /\ new.at = at /\ new.todo = checks /\ new.subject = fields.subject
  BY DEF RequestRecord
<1> HIDE DEF new
<1>6. at = "lookup" => checks # <<>>
  BY <1>1, FirstStepType
<1>7. Good(new) /\ SparesOwner(new)
  BY <1>2, <1>4, <1>5, <1>6 DEF Good, SparesOwner
<1> QED BY <1>3, <1>7, SetGood

LEMMA ClientStep ==
  ASSUME WorkspaceInv, NEW r \in Requests, Client(r)
  PROVE  WorkspaceInv'
<1>1. Idle \in RequestRecord
  <2>1. [Idle EXCEPT !.reply = 0] = Idle
    BY DEF Idle
  <2> QED BY <2>1, IdleGood DEF Good
<1>2. /\ \A b \in Accounts, g \in AssignableRole :
           [Idle EXCEPT !.target = b, !.grant = g] \in RequestRecord
      /\ \A i \in Nat : /\ [Idle EXCEPT !.subject = i] \in RequestRecord
                        /\ [Idle EXCEPT !.subject = i].subject = i
      /\ \A b \in Accounts, g \in AssignableRole \cup {None}, i \in Nat :
           [Idle EXCEPT !.target = b, !.subject = i, !.grant = g] \in RequestRecord
  BY <1>1 DEF RequestRecord
<1>3. /\ \A b \in Accounts : rowId[b] \in Nat
      /\ Grants \subseteq AssignableRole /\ Invites \subseteq Nat
  BY GrantsAssumption, BoundsAssumption DEF WorkspaceInv, RolesOK, Invites
<1>4. PICK a \in Accounts : Ask(r, a) \/ AskToInvite(r, a) \/ AskToRespond(r, a) \/ AskAboutMember(r, a)
  BY DEF Client
<1>5. PICK op \in Operation, fields \in RequestRecord :
        /\ op \in {"accept", "reject"} => fields.subject \in Invites
        /\ Arrive(r, op, a, fields)
  <2>1. CASE Ask(r, a)
    BY <1>1, <2>1, Operations DEF Ask
  <2>2. CASE AskToInvite(r, a)
    BY <1>2, <1>3, <2>2, Operations DEF AskToInvite
  <2>3. CASE AskToRespond(r, a)
    BY <1>2, <1>3, <2>3, Operations DEF AskToRespond
  <2>4. CASE AskAboutMember(r, a)
    BY <1>2, <1>3, <2>4, Operations DEF AskAboutMember
  <2> QED BY <1>4, <2>1, <2>2, <2>3, <2>4
<1>6. RequestsOK' /\ UNCHANGED <<roleVars, raced, inviteVars, page>>
  BY <1>5, ArriveGood DEF WorkspaceInv, Arrive
<1> QED BY <1>6 DEF WorkspaceInv, RolesOK, OneOwner, InvitesOK, PagesOK, roleVars, inviteVars

LEMMA LookedGood ==
  ASSUME RequestsOK, NEW r \in Requests, NEW fact, NEW role,
         request[r].at \in {"lookup", "query", "store"}, Looked(r, fact, role)
  PROVE  RequestsOK'
<1> DEFINE req  == request[r]
           rest == Tail(req.todo)
           at   == IF rest = <<>> THEN FirstStep[req.op] ELSE "lookup"
           new  == [req EXCEPT !.todo = rest, !.held = None, !.at = at]
<1>1. \/ \E n \in {403, 404} : Refuse(r, n)
      \/ request' = [request EXCEPT ![r] = new]
  BY DEF Looked
<1>2. /\ req \in RequestRecord /\ Good(req) /\ req.op \in Operation
      /\ req.todo \in Seq(Fact) /\ req.todo # <<>>
  BY DEF RequestsOK, Good, OpsAt, RequestRecord
<1>3. rest \in Seq(Fact)
  BY <1>2
<1>4. /\ at \in {"done", "getPage", "exists", "findInvite", "findMember", "lookup"}
      /\ req.op \in OpsAt(at) /\ (at = "lookup" => rest # <<>>)
  BY <1>2, FirstStepType DEF OpsAt
<1> HIDE DEF rest, at
<1>5. new \in RequestRecord
  BY <1>2, <1>3, <1>4 DEF RequestRecord, Step
<1>6. new.op = req.op /\ new.at = at /\ new.todo = rest /\ new.subject = req.subject
  BY <1>2 DEF RequestRecord
<1> HIDE DEF new
<1>7. Good(new) /\ SparesOwner(new)
  BY <1>2, <1>4, <1>5, <1>6 DEF Good, SparesOwner
<1>8. 403 \in Nat /\ 404 \in Nat
  OBVIOUS
<1> QED BY <1>1, <1>7, <1>8, RefuseGood, SetGood

LEMMA MiddlewaresStep ==
  ASSUME WorkspaceInv, NEW r \in Requests, Middlewares(r)
  PROVE  WorkspaceInv'
<1> DEFINE req == request[r]
<1>1. /\ req \in RequestRecord /\ Good(req) /\ RequestsOK
      /\ req.at \in {"lookup", "query", "store"} => req.op \in Operation
  BY DEF WorkspaceInv, RequestsOK, Good, OpsAt
<1>2. /\ UNCHANGED <<accountRole, rowId, raced, inviteVars, page>>
      /\ accountRole[req.by] \in Role \cup {None}
  BY <1>1 DEF Middlewares, CacheGet, RowQuery, CacheSet, roleVars, WorkspaceInv, RolesOK, RequestRecord
<1>3. RequestsOK'
  <2>1. CASE CacheGet(r)
    <3>1. CASE Goto(r, "query") /\ req.at = "lookup"
      <4> DEFINE new == [req EXCEPT !.at = "query"]
      <4>1. new \in RequestRecord
        BY <1>1 DEF RequestRecord, Step
      <4>2. new.op = req.op /\ new.at = "query" /\ new.todo = req.todo /\ new.subject = req.subject
        BY <1>1 DEF RequestRecord
      <4>3. request' = [request EXCEPT ![r] = new]
        BY <3>1 DEF Goto
      <4> HIDE DEF new
      <4>4. Good(new) /\ SparesOwner(new)
        BY <1>1, <3>1, <4>1, <4>2 DEF Good, SparesOwner, OpsAt
      <4> QED BY <1>1, <4>3, <4>4, SetGood
    <3> QED BY <1>1, <2>1, <3>1, LookedGood DEF CacheGet
  <2>2. CASE RowQuery(r)
    <3>1. CASE /\ request' = [request EXCEPT ![r].at = "store", ![r].held = accountRole[req.by]]
               /\ req.at = "query"
      <4> DEFINE new == [req EXCEPT !.at = "store", !.held = accountRole[req.by]]
      <4>1. new \in RequestRecord
        BY <1>1, <1>2 DEF RequestRecord, Step
      <4>2. /\ new.op = req.op /\ new.at = "store" /\ new.todo = req.todo
            /\ new.subject = req.subject /\ new.held = accountRole[req.by]
        BY <1>1 DEF RequestRecord
      <4>3. request' = [request EXCEPT ![r] = new]
        BY <1>1, <3>1 DEF RequestsOK
      <4> HIDE DEF new
      <4>4. Good(new) /\ SparesOwner(new)
        BY <1>1, <1>2, <3>1, <4>1, <4>2 DEF Good, SparesOwner, OpsAt
      <4> QED BY <1>1, <4>3, <4>4, SetGood
    <3> QED BY <1>1, <2>2, <3>1, LookedGood DEF RowQuery
  <2>3. CASE CacheSet(r)
    BY <1>1, <2>3, LookedGood DEF CacheSet
  <2> QED BY <2>1, <2>2, <2>3 DEF Middlewares
<1>4. cached' \in [Fact -> [Accounts -> Role \cup {None, Miss}]]
  <2>1. CASE CacheSet(r)
    <3>1. req.held \in Role \cup {None}
      BY <1>1, <2>1 DEF CacheSet, Good
    <3>2. \/ cached' = cached
          \/ cached' = [cached EXCEPT ![Head(req.todo)][req.by] = req.held]
      BY <2>1 DEF CacheSet
    <3> QED BY <3>1, <3>2 DEF WorkspaceInv, RolesOK
  <2>2. CASE UNCHANGED cached
    BY <2>2 DEF WorkspaceInv, RolesOK
  <2> QED BY <2>1, <2>2 DEF Middlewares, CacheGet, RowQuery, roleVars
<1> QED BY <1>2, <1>3, <1>4 DEF WorkspaceInv, RolesOK, OneOwner, InvitesOK, PagesOK, inviteVars

-----------------------------------------------------------------------------
(* The handlers.  What a step leaves alone stays as it is.                 *)

LEMMA Framed ==
  ASSUME WorkspaceInv, RequestsOK', UNCHANGED <<roleVars, inviteVars>>, PagesOK'
  PROVE  WorkspaceInv'
BY DEF WorkspaceInv, RolesOK, OneOwner, InvitesOK, PagesOK, roleVars, inviteVars

LEMMA InvalidateType ==
  ASSUME PagesOK, NEW ps \in SUBSET Pages, InvalidatePages(ps)
  PROVE  PagesOK'
<1>1. PICK left \in SUBSET ps :
        /\ page' = [p \in Pages |-> IF p \in ps \ left THEN Miss ELSE page[p]]
        /\ raced' = (raced \ ps) \cup left \cup PagesInFlight(ps)
  BY DEF InvalidatePages
<1>2. PagesInFlight(ps) \subseteq ps
  BY DEF PagesInFlight
<1> QED BY <1>1, <1>2 DEF PagesOK

LEMMA AgedType ==
  ASSUME PagesOK, NEW ps
  PROVE  Aged(ps) \in [Pages -> {Miss, "fresh", "stale"}]
BY DEF PagesOK, Aged

(* The steps that only answer or go on.                                    *)
LEMMA QueriesStep ==
  ASSUME WorkspaceInv, NEW r \in Requests,
         \/ GetWorkspace(r) \/ GetMyMembership(r) \/ ListMyWorkspaces(r) \/ ListMyInvites(r)
         \/ GetPage(r) \/ QueryPage(r) \/ StorePage(r)
  PROVE  WorkspaceInv'
<1> DEFINE req == request[r]
<1>1. /\ req \in RequestRecord /\ Good(req) /\ RequestsOK /\ PagesOK
      /\ UNCHANGED <<roleVars, inviteVars>>
  BY DEF WorkspaceInv, RequestsOK, GetWorkspace, GetMyMembership, ListMyWorkspaces, ListMyInvites,
     Answer, GetPage, QueryPage, StorePage
<1>2. CASE GetWorkspace(r) \/ GetMyMembership(r) \/ ListMyWorkspaces(r) \/ ListMyInvites(r)
  <2>1. Reply(r, "ok") /\ req.op \in Operation /\ UNCHANGED <<raced, page>>
    BY <1>2, Operations DEF GetWorkspace, GetMyMembership, ListMyWorkspaces, ListMyInvites, Answer, At
  <2> QED BY <1>1, <2>1, ReplyGood, Framed DEF PagesOK
<1>3. CASE GetPage(r)
  <2>1. req.op \in {"listMembers", "listInvites"} /\ UNCHANGED <<raced, page>>
    BY <1>1, <1>3 DEF GetPage, Good, OpsAt
  <2>2. SparesOwner([req EXCEPT !.at = "queryPage"])
    BY <1>1, <2>1 DEF SparesOwner, RequestRecord
  <2>3. RequestsOK'
    BY <1>1, <1>3, <2>1, <2>2, ReplyGood, GotoGood, Operations DEF GetPage, OpsAt, Step
  <2> QED BY <1>1, <2>1, <2>3, Framed DEF PagesOK
<1>4. CASE QueryPage(r)
  <2> DEFINE new == [req EXCEPT !.at = "storePage", !.held = "fresh"]
  <2>1. req.op \in {"listMembers", "listInvites"}
    BY <1>1, <1>4 DEF QueryPage, Good, OpsAt
  <2>2. new \in RequestRecord
    BY <1>1 DEF RequestRecord, Step
  <2>3. /\ new.op = req.op /\ new.at = "storePage" /\ new.held = "fresh"
        /\ new.subject = req.subject
    BY <1>1 DEF RequestRecord
  <2>4. request' = [request EXCEPT ![r] = new]
    BY <1>1, <1>4 DEF QueryPage, RequestsOK
  <2> HIDE DEF new
  <2>5. Good(new) /\ SparesOwner(new)
    BY <1>1, <2>1, <2>2, <2>3 DEF Good, SparesOwner, OpsAt
  <2>6. RequestsOK'
    BY <1>1, <2>4, <2>5, SetGood
  <2>7. PageOf[req.op] \in Pages
    BY <2>1 DEF PageOf, Pages
  <2>8. PagesOK'
    BY <1>1, <1>4, <2>7 DEF QueryPage, PagesOK
  <2> QED BY <1>1, <2>6, <2>8, Framed
<1>5. CASE StorePage(r)
  <2>1. req.op \in {"listMembers", "listInvites"} /\ req.held \in {"fresh", "stale"}
    BY <1>1, <1>5 DEF StorePage, Good, OpsAt
  <2>2. RequestsOK'
    BY <1>1, <1>5, <2>1, ReplyGood, Operations DEF StorePage
  <2>3. PagesOK'
    BY <1>1, <1>5, <2>1 DEF StorePage, PagesOK
  <2> QED BY <1>1, <2>2, <2>3, Framed
<1> QED BY <1>2, <1>3, <1>4, <1>5

LEMMA InviteStep ==
  ASSUME WorkspaceInv, NEW r \in Requests,
         ExistsByEmail(r) \/ FindPending(r) \/ InsertInvite(r)
  PROVE  WorkspaceInv'
<1> DEFINE req == request[r]
<1>1. /\ req \in RequestRecord /\ Good(req) /\ RequestsOK /\ PagesOK
      /\ UNCHANGED <<roleVars, inviteVars>>
  BY DEF WorkspaceInv, RequestsOK, ExistsByEmail, FindPending, InsertInvite
<1>2. req.op = "invite"
  BY <1>1 DEF ExistsByEmail, FindPending, InsertInvite, Good, OpsAt
<1>3. /\ {"ok", "AlreadyAMember", "InviteAlreadyPending"} \subseteq Statuses[req.op]
      /\ \A at \in Step : SparesOwner([req EXCEPT !.at = at])
  BY <1>1, <1>2 DEF Statuses, SparesOwner, RequestRecord
<1>4. CASE ExistsByEmail(r)
  <2>1. (Reply(r, "AlreadyAMember") \/ Goto(r, "pending")) /\ UNCHANGED <<raced, page>>
    BY <1>4 DEF ExistsByEmail
  <2>2. RequestsOK'
    BY <1>1, <1>2, <1>3, <2>1, ReplyGood, GotoGood DEF OpsAt, Step
  <2> QED BY <1>1, <2>1, <2>2, Framed DEF PagesOK
<1>5. CASE FindPending(r)
  <2>1. (Reply(r, "InviteAlreadyPending") \/ Goto(r, "insert")) /\ UNCHANGED <<raced, page>>
    BY <1>5 DEF FindPending
  <2>2. RequestsOK'
    BY <1>1, <1>2, <1>3, <2>1, ReplyGood, GotoGood DEF OpsAt, Step
  <2> QED BY <1>1, <2>1, <2>2, Framed DEF PagesOK
<1>6. CASE InsertInvite(r)
  <2>1. RequestsOK'
    BY <1>1, <1>2, <1>3, <1>6, GotoGood DEF InsertInvite, OpsAt, Step
  <2>2. PagesOK'
    BY <1>1, <1>6, InvalidateType DEF InsertInvite, Pages
  <2> QED BY <1>1, <2>1, <2>2, Framed
<1> QED BY <1>4, <1>5, <1>6

LEMMA RespondStep ==
  ASSUME WorkspaceInv, NEW r \in Requests, FindInvite(r) \/ AcceptWrite(r) \/ RejectWrite(r)
  PROVE  WorkspaceInv'
<1> DEFINE req == request[r]
<1>1. /\ req \in RequestRecord /\ Good(req) /\ RequestsOK /\ PagesOK
      /\ UNCHANGED <<roleVars, inviteVars>>
  BY DEF WorkspaceInv, RequestsOK, FindInvite, AcceptWrite, RejectWrite
<1>2. req.op \in {"accept", "reject"}
  BY <1>1 DEF FindInvite, AcceptWrite, RejectWrite, At, Good, OpsAt
<1>3. {"InviteNotFound", "InviteAlreadyUsed", "InviteExpired", "InviteEmailMismatch",
       "AlreadyAMember"} \subseteq Statuses[req.op]
  BY <1>2 DEF Statuses
<1>4. CASE FindInvite(r)
  <2>1. /\ \/ \E result \in {"InviteNotFound", "InviteAlreadyUsed", "InviteExpired",
                             "InviteEmailMismatch"} : Reply(r, result)
           \/ Goto(r, "write")
        /\ UNCHANGED <<raced, page>>
    BY <1>4 DEF FindInvite
  <2>2. SparesOwner([req EXCEPT !.at = "write"])
    BY <1>1, <1>2 DEF SparesOwner, RequestRecord
  <2>3. RequestsOK'
    BY <1>1, <1>2, <1>3, <2>1, <2>2, ReplyGood, GotoGood DEF OpsAt, Step
  <2> QED BY <1>1, <2>1, <2>3, Framed DEF PagesOK
<1>5. CASE AcceptWrite(r)
  <2>1. CASE Reply(r, "AlreadyAMember") /\ UNCHANGED <<raced, page>>
    BY <1>1, <1>2, <1>3, <2>1, ReplyGood, Framed DEF PagesOK
  <2>2. CASE accountRole[req.by] = None /\ Goto(r, "commit") /\ InvalidatePages(Pages)
    <3>1. req.by # Owner
      BY <2>2, OwnerAssumption DEF WorkspaceInv, OneOwner, None
    <3>2. SparesOwner([req EXCEPT !.at = "commit"])
      BY <1>1, <1>2, <3>1 DEF SparesOwner, RequestRecord
    <3>3. RequestsOK'
      BY <1>1, <1>2, <2>2, <3>2, GotoGood DEF OpsAt, Step
    <3> QED BY <1>1, <2>2, <3>3, InvalidateType, Framed
  <2> QED BY <1>5, <2>1, <2>2 DEF AcceptWrite
<1>6. CASE RejectWrite(r)
  <2>1. SparesOwner([req EXCEPT !.at = "commit"])
    BY <1>1, <1>6 DEF SparesOwner, RequestRecord, RejectWrite, At
  <2>2. RequestsOK'
    BY <1>1, <1>2, <1>6, <2>1, GotoGood DEF RejectWrite, OpsAt, Step
  <2> QED BY <1>1, <1>6, <2>2, InvalidateType, Framed DEF RejectWrite, Pages
<1> QED BY <1>4, <1>5, <1>6

(* The commits: readers of the pages are told, and the request is done.    *)
LEMMA CommitGood ==
  ASSUME RequestsOK, NEW r \in Requests, NEW ps, NEW n \in Nat,
         request' = [AgedReaders(ps) EXCEPT ![r] = [Idle EXCEPT !.reply = n]]
  PROVE  RequestsOK'
<1> DEFINE new == [Idle EXCEPT !.reply = n]
<1>1. Good(new) /\ SparesOwner(new)
  BY IdleGood
<1> HIDE DEF new
<1>2. request' \in [Requests -> RequestRecord]
  BY <1>1, AgedGood DEF Good, new
<1>3. \A q \in Requests : Good(request'[q]) /\ SparesOwner(request'[q])
  BY <1>1, AgedGood DEF new
<1> QED BY <1>2, <1>3 DEF RequestsOK, Good, SparesOwner

LEMMA CommitStep ==
  ASSUME WorkspaceInv, NEW r \in Requests, CommitInvite(r) \/ CommitAccept(r) \/ CommitReject(r)
  PROVE  WorkspaceInv'
<1> DEFINE req == request[r]
<1>1. /\ req \in RequestRecord /\ Good(req) /\ SparesOwner(req) /\ RequestsOK
      /\ RolesOK /\ InvitesOK /\ PagesOK /\ OneOwner
  BY DEF WorkspaceInv, RequestsOK
<1>2. /\ InviteMemberController.status.ok \in Nat
      /\ RespondToInviteController.status.ok \in Nat
  BY DEF InviteMemberController, RespondToInviteController
<1>3. CASE CommitInvite(r)
  <2>1. PICK i \in Invites :
          /\ invite' = [invite EXCEPT ![i] = [NoInvite EXCEPT
                          !.status = "pending", !.to = req.target, !.role = req.grant]]
          /\ sent' = [sent EXCEPT !["created"][i] = @ + 1]
          /\ page' = Aged({"invites"})
          /\ request' = [AgedReaders({"invites"}) EXCEPT ![r] = [Idle EXCEPT
                           !.reply = InviteMemberController.status.ok]]
          /\ UNCHANGED <<roleVars, raced>>
    BY <1>3 DEF CommitInvite
  <2>2. RequestsOK'
    BY <1>1, <1>2, <2>1, CommitGood
  <2>3. [NoInvite EXCEPT !.status = "pending", !.to = req.target, !.role = req.grant]
          \in [status : {"unsent", "pending", "accepted", "rejected"}, to : Accounts,
               role : AssignableRole \cup {None}, expired : BOOLEAN]
    BY <1>1 DEF NoInvite, RequestRecord
  <2>4. "created" \in RoutingKey
    BY DEF RoutingKey
  <2>5. InvitesOK'
    BY <1>1, <2>1, <2>3, <2>4 DEF InvitesOK
  <2>6. PagesOK'
    BY <1>1, <2>1, AgedType DEF PagesOK
  <2> QED BY <1>1, <2>1, <2>2, <2>5, <2>6 DEF WorkspaceInv, RolesOK, OneOwner, roleVars
<1>4. CASE CommitAccept(r)
  <2> DEFINE i == req.subject
             a == req.by
  <2>1. /\ accountRole' = [accountRole EXCEPT ![a] = invite[i].role]
        /\ rowId' = [rowId EXCEPT ![a] = @ + 1]
        /\ invite' = [invite EXCEPT ![i].status = "accepted"]
        /\ sent' = [sent EXCEPT !["accepted"][i] = @ + 1]
        /\ page' = Aged(Pages)
        /\ request' = [AgedReaders(Pages) EXCEPT ![r] = [Idle EXCEPT
                         !.reply = RespondToInviteController.status.ok]]
        /\ raced' = raced \/ raced' = raced \cup {a}
        /\ UNCHANGED cached
        /\ req.op = "accept" /\ req.at = "commit"
    BY <1>4 DEF CommitAccept, At
  <2>2. i \in Invites /\ a \in Accounts /\ a # Owner
    BY <1>1, <2>1 DEF Good, SparesOwner, RequestRecord
  <2>3. RequestsOK'
    BY <1>1, <1>2, <2>1, CommitGood
  <2>4. invite[i].role \in AssignableRole \cup {None}
    BY <1>1, <2>2 DEF InvitesOK
  <2>5. RolesOK' /\ OneOwner'
    <3>1. invite[i].role \in Role \cup {None} /\ invite[i].role # "owner"
      BY <2>4 DEF AssignableRole, Role, None
    <3> HIDE DEF i, a
    <3> QED BY <1>1, <2>1, <2>2, <3>1 DEF RolesOK, OneOwner
  <2>6. InvitesOK'
    BY SMTT(30), <1>1, <2>1, <2>2 DEF InvitesOK, RoutingKey
  <2>7. PagesOK'
    BY <1>1, <2>1, <2>2, AgedType DEF PagesOK
  <2> QED BY <2>3, <2>5, <2>6, <2>7 DEF WorkspaceInv
<1>5. CASE CommitReject(r)
  <2> DEFINE i == req.subject
  <2>1. /\ invite' = [invite EXCEPT ![i].status = "rejected"]
        /\ sent' = [sent EXCEPT !["rejected"][i] = @ + 1]
        /\ page' = Aged({"invites"})
        /\ request' = [AgedReaders({"invites"}) EXCEPT ![r] = [Idle EXCEPT
                         !.reply = RespondToInviteController.status.ok]]
        /\ UNCHANGED <<roleVars, raced>>
        /\ req.op = "reject"
    BY <1>5 DEF CommitReject, At
  <2>2. i \in Invites
    BY <1>1, <2>1 DEF Good
  <2>3. RequestsOK'
    BY <1>1, <1>2, <2>1, CommitGood
  <2>4. InvitesOK'
    <3>1. invite' \in [Invites ->
            [status : {"unsent", "pending", "accepted", "rejected"}, to : Accounts,
             role : AssignableRole \cup {None}, expired : BOOLEAN]]
      BY <1>1, <2>1, <2>2 DEF InvitesOK
    <3>2. sent' \in [RoutingKey -> [Invites -> Nat]]
      BY <1>1, <2>1, <2>2 DEF InvitesOK, RoutingKey
    <3> QED BY <3>1, <3>2 DEF InvitesOK
  <2>5. PagesOK'
    BY <1>1, <2>1, AgedType DEF PagesOK
  <2> QED BY <1>1, <2>1, <2>3, <2>4, <2>5 DEF WorkspaceInv, RolesOK, OneOwner, roleVars
<1> QED BY <1>3, <1>4, <1>5

LEMMA MemberStep ==
  ASSUME WorkspaceInv, NEW r \in Requests,
         FindMember(r) \/ WriteMember(r) \/ InvalidateMembers(r) \/ InvalidateRoles(r)
  PROVE  WorkspaceInv'
<1> DEFINE req == request[r]
<1>1. /\ req \in RequestRecord /\ Good(req) /\ SparesOwner(req) /\ RequestsOK
      /\ RolesOK /\ InvitesOK /\ PagesOK /\ OneOwner
  BY DEF WorkspaceInv, RequestsOK
<1>2. req.op \in {"remove", "updateRole"}
  BY <1>1 DEF FindMember, WriteMember, InvalidateMembers, InvalidateRoles, At, Good, OpsAt
<1>3. ASSUME NEW at \in Step PROVE SparesOwner([req EXCEPT !.at = at]) <=>
        (at \in {"write", "pages", "roles"} => req.target # Owner)
  BY <1>1, <1>2 DEF SparesOwner, RequestRecord
<1>4. {"write", "pages", "roles"} \subseteq Step
  BY DEF Step
<1>5. CASE FindMember(r)
  <2>1. UNCHANGED <<roleVars, raced, inviteVars, page>>
    BY <1>5 DEF FindMember
  <2>2. CASE RowIs(req.target, req.subject) /\ accountRole[req.target] # "owner" /\ Goto(r, "write")
    <3>1. req.target # Owner
      BY <1>1, <2>2, OwnerAssumption DEF OneOwner
    <3>2. RequestsOK'
      BY <1>1, <1>2, <1>3, <1>4, <2>2, <3>1, GotoGood DEF OpsAt
    <3> QED BY <1>1, <2>1, <3>2, Framed DEF PagesOK
  <2>3. CASE \E result \in Statuses[req.op] : Reply(r, result)
    BY <1>1, <1>2, <2>1, <2>3, ReplyGood, Framed DEF PagesOK
  <2> QED BY <1>2, <1>5, <2>2, <2>3 DEF FindMember, Statuses
<1>6. CASE WriteMember(r)
  <2>1. req.target # Owner /\ req.at = "write"
    BY <1>1, <1>2, <1>6 DEF WriteMember, At, SparesOwner
  <2>2. CASE Goto(r, "roles") /\ UNCHANGED <<accountRole, page>>
    <3>1. RequestsOK'
      BY <1>1, <1>2, <1>3, <1>4, <2>1, <2>2, GotoGood DEF OpsAt
    <3> QED BY <1>1, <1>6, <2>2, <3>1, Framed DEF WriteMember, PagesOK, roleVars
  <2>3. CASE /\ accountRole' = [accountRole EXCEPT ![req.target] = req.grant]
             /\ page' = Aged({"members"})
             /\ request' = [AgedReaders({"members"}) EXCEPT ![r].at = "pages"]
    <3> DEFINE new == [req EXCEPT !.at = "pages"]
    <3>1. new \in RequestRecord
      BY <1>1, <1>4 DEF RequestRecord
    <3>2. new.op = req.op /\ new.at = "pages" /\ new.subject = req.subject
      BY <1>1 DEF RequestRecord
    <3>3. SparesOwner(new)
      BY <1>3, <1>4, <2>1
    <3>4. request' = [AgedReaders({"members"}) EXCEPT ![r] = new]
      BY <1>1, <2>1, <2>3, AgedGood
    <3> HIDE DEF new
    <3>5. Good(new)
      BY <1>1, <1>2, <3>1, <3>2 DEF Good, OpsAt
    <3>6. request' \in [Requests -> RequestRecord]
      BY <1>1, <3>1, <3>4, AgedGood
    <3>7. \A q \in Requests : Good(request'[q]) /\ SparesOwner(request'[q])
      BY <1>1, <3>3, <3>4, <3>5, AgedGood
    <3>8. RequestsOK'
      BY <3>6, <3>7 DEF RequestsOK, Good, SparesOwner
    <3>9. req.grant \in Role \cup {None} /\ req.grant # "owner" /\ req.target \in Accounts
      BY <1>1 DEF RequestRecord, AssignableRole, Role, None
    <3>10. RolesOK' /\ OneOwner'
      BY <1>1, <1>6, <2>1, <2>3, <3>9 DEF WriteMember, RolesOK, OneOwner
    <3>11. PagesOK' /\ InvitesOK'
      BY <1>1, <1>6, <2>3, AgedType DEF WriteMember, PagesOK, InvitesOK, inviteVars
    <3> QED BY <3>8, <3>10, <3>11 DEF WorkspaceInv
  <2> QED BY <1>6, <2>2, <2>3 DEF WriteMember
<1>7. CASE InvalidateMembers(r)
  <2>1. req.target # Owner
    BY <1>1, <1>2, <1>7 DEF InvalidateMembers, SparesOwner
  <2>2. RequestsOK'
    BY <1>1, <1>2, <1>3, <1>4, <1>7, <2>1, GotoGood DEF InvalidateMembers, OpsAt
  <2> QED BY <1>1, <1>7, <2>2, InvalidateType, Framed DEF InvalidateMembers, Pages
<1>8. CASE InvalidateRoles(r)
  <2>1. PICK left \in SUBSET Fact :
          /\ cached' = [f \in Fact |-> IF f \in left THEN cached[f]
                                       ELSE [cached[f] EXCEPT ![req.target] = Miss]]
          /\ raced' = raced \cup {req.target} \/ raced' = raced \ {req.target}
          /\ Reply(r, "ok")
          /\ UNCHANGED <<accountRole, rowId, inviteVars, page>>
    BY <1>8 DEF InvalidateRoles, Invalidate
  <2>2. RequestsOK'
    BY <1>1, <1>2, <2>1, ReplyGood, Operations
  <2>3. RolesOK'
    BY <1>1, <2>1 DEF RolesOK
  <2>4. PagesOK'
    BY <1>1, <2>1 DEF PagesOK, RequestRecord
  <2> QED BY <1>1, <2>1, <2>2, <2>3, <2>4 DEF WorkspaceInv, OneOwner, InvitesOK, inviteVars
<1> QED BY <1>5, <1>6, <1>7, <1>8

LEMMA OtherStep ==
  ASSUME WorkspaceInv,
         \/ \E r \in Requests : Die(r)
         \/ Expire
         \/ \E i \in Invites : Elapse(i)
         \/ UNCHANGED vars
  PROVE  WorkspaceInv'
<1>1. ASSUME NEW r \in Requests, Die(r) PROVE WorkspaceInv'
  <2>1. 500 \in Nat
    OBVIOUS
  <2>2. RequestsOK'
    BY <1>1, <2>1, RefuseGood DEF Die, WorkspaceInv
  <2>3. raced' \subseteq raced \cup {"members"} \cup {request[r].target}
    BY <1>1 DEF Die
  <2>4. PagesOK'
    BY <1>1, <2>3 DEF Die, WorkspaceInv, PagesOK, RequestsOK, RequestRecord, Pages
  <2> QED BY <1>1, <2>2, <2>4, Framed DEF Die
<1>2. ASSUME NEW f \in Fact, NEW a \in Accounts, CacheExpire(f, a), UNCHANGED <<inviteVars, page>>
      PROVE  WorkspaceInv'
  BY <1>2 DEF CacheExpire, WorkspaceInv, RolesOK, OneOwner, InvitesOK, PagesOK, RequestsOK, Good,
     SparesOwner, inviteVars
<1>3. ASSUME NEW p \in Pages, ExpirePage(p) PROVE WorkspaceInv'
  BY <1>3 DEF ExpirePage, WorkspaceInv, RolesOK, OneOwner, InvitesOK, PagesOK, RequestsOK, Good,
     SparesOwner, inviteVars, roleVars
<1>4. ASSUME NEW i \in Invites, Elapse(i) PROVE WorkspaceInv'
  BY ZenonT(30), <1>4 DEF Elapse, WorkspaceInv, RolesOK, OneOwner, InvitesOK, PagesOK, RequestsOK, Good,
     SparesOwner, roleVars
<1>5. CASE UNCHANGED vars
  BY <1>5 DEF vars, WorkspaceInv, RolesOK, OneOwner, InvitesOK, PagesOK, RequestsOK, Good,
     SparesOwner, roleVars, inviteVars
<1> QED BY <1>1, <1>2, <1>3, <1>4, <1>5 DEF Expire

-----------------------------------------------------------------------------

LEMMA InitOK == Init => WorkspaceInv
<1> SUFFICES ASSUME Init PROVE WorkspaceInv OBVIOUS
<1>1. [Idle EXCEPT !.reply = 0] = Idle
  BY DEF Idle
<1>2. Good(Idle) /\ SparesOwner(Idle)
  BY <1>1, IdleGood
<1>3. RequestsOK
  BY <1>2 DEF Init, RequestsOK, Good
<1>4. Newcomers \subseteq Role \cup {None} /\ "owner" \notin Newcomers
  BY GrantsAssumption DEF AssignableRole, Role, None
<1>5. RolesOK /\ OneOwner
  BY <1>4 DEF Init, RolesOK, OneOwner
<1>6. NoInvite \in [status : {"unsent", "pending", "accepted", "rejected"}, to : Accounts,
                    role : AssignableRole \cup {None}, expired : BOOLEAN]
  BY OwnerAssumption DEF NoInvite
<1>7. InvitesOK /\ PagesOK
  BY <1>6 DEF Init, InvitesOK, PagesOK
<1> QED BY <1>3, <1>5, <1>7 DEF WorkspaceInv

LEMMA NextOK ==
  ASSUME WorkspaceInv, [Next]_vars
  PROVE  WorkspaceInv'
<1>1. ASSUME NEW r \in Requests, Client(r) PROVE WorkspaceInv'
  BY <1>1, ClientStep
<1>2. ASSUME NEW r \in Requests, Handler(r) PROVE WorkspaceInv'
  BY <1>2, MiddlewaresStep, QueriesStep, InviteStep, RespondStep, CommitStep, MemberStep
     DEF Handler
<1> QED BY <1>1, <1>2, OtherStep DEF Next

LEMMA InvAlways == Spec => []WorkspaceInv
BY InitOK, NextOK, PTL DEF Spec

(* The variables keep their types, for every value of the constants.       *)
THEOREM TypeCorrect == Spec => []TypeOK
BY InvIsTyped, InvAlways, PTL

(* The creator of a workspace stays its one owner, whatever removals, role *)
(* changes and acceptances race on stale copies of the rows.               *)
THEOREM OwnerStays == Spec => []OneOwner
<1>1. WorkspaceInv => OneOwner
  BY DEF WorkspaceInv
<1> QED BY <1>1, InvAlways, PTL

-----------------------------------------------------------------------------
(* What is announced of an invite.                                         *)

(* An invite nobody has written yet was never announced, and no request    *)
(* answers it.                                                             *)
EventsInv ==
    /\ AnswersMatchEvents
    /\ \A i \in Invites : invite[i].status = "unsent" => sent["created"][i] = 0
    /\ \A r \in Requests :
         request[r].op \in {"accept", "reject"} => invite[request[r].subject].status # "unsent"

(* A request keeps its operation and its subject until it is done.         *)
Keeps(q) ==
    \/ request'[q].op = "none"
    \/ request'[q].op = request[q].op /\ request'[q].subject = request[q].subject

LEMMA IdleKeeps ==
  ASSUME RequestsOK, NEW r \in Requests, NEW n,
         request' = [request EXCEPT ![r] = [Idle EXCEPT !.reply = n]]
  PROVE  \A q \in Requests : Keeps(q)
BY DEF RequestsOK, Idle, Keeps

LEMMA GotoKeeps ==
  ASSUME RequestsOK, NEW r \in Requests, NEW at, Goto(r, at)
  PROVE  \A q \in Requests : Keeps(q)
BY DEF RequestsOK, RequestRecord, Goto, Keeps

LEMMA AgedKeeps ==
  ASSUME RequestsOK, NEW ps, NEW q \in Requests
  PROVE  AgedReaders(ps)[q].op = request[q].op /\ AgedReaders(ps)[q].subject = request[q].subject
BY DEF RequestsOK, RequestRecord, AgedReaders

LEMMA LookedKeeps ==
  ASSUME RequestsOK, NEW r \in Requests, NEW fact, NEW role, Looked(r, fact, role)
  PROVE  \A q \in Requests : Keeps(q)
<1> DEFINE req  == request[r]
           at   == IF Tail(req.todo) = <<>> THEN FirstStep[req.op] ELSE "lookup"
           new  == [req EXCEPT !.todo = Tail(req.todo), !.held = None, !.at = at]
<1>1. \/ \E n \in {403, 404} : Refuse(r, n)
      \/ request' = [request EXCEPT ![r] = new]
  BY DEF Looked
<1>2. req \in RequestRecord
  BY DEF RequestsOK
<1>3. new.op = req.op /\ new.subject = req.subject
  BY <1>2 DEF RequestRecord
<1> HIDE DEF new
<1> QED BY <1>1, <1>3, IdleKeeps DEF Refuse, RequestsOK, Keeps

LEMMA HandlerKeeps ==
  ASSUME RequestsOK, NEW r \in Requests, Handler(r) \/ Die(r), NEW q \in Requests
  PROVE  Keeps(q)
<1> DEFINE kept == \A p \in Requests : Keeps(p)
<1>1. ASSUME NEW result, Reply(r, result) PROVE kept
  BY <1>1, IdleKeeps DEF Reply
<1>2. ASSUME Middlewares(r) PROVE kept
  <2>1. ASSUME request' = [request EXCEPT ![r].at = "store",
                              ![r].held = accountRole[request[r].by]]
        PROVE  kept
    BY <2>1 DEF RequestsOK, RequestRecord, Keeps
  <2> QED BY <1>2, <2>1, GotoKeeps, LookedKeeps DEF Middlewares, CacheGet, RowQuery, CacheSet
<1>3. ASSUME GetWorkspace(r) \/ GetMyMembership(r) \/ ListMyWorkspaces(r) \/ ListMyInvites(r)
      PROVE  kept
  BY <1>1, <1>3 DEF GetWorkspace, GetMyMembership, ListMyWorkspaces, ListMyInvites, Answer
<1>4. ASSUME GetPage(r) \/ StorePage(r) PROVE kept
  BY <1>1, <1>4, GotoKeeps DEF GetPage, StorePage
<1>5. ASSUME QueryPage(r) PROVE kept
  BY <1>5 DEF QueryPage, RequestsOK, RequestRecord, Keeps
<1>6. ASSUME ExistsByEmail(r) \/ FindPending(r) \/ InsertInvite(r) PROVE kept
  BY <1>1, <1>6, GotoKeeps DEF ExistsByEmail, FindPending, InsertInvite
<1>7. ASSUME FindInvite(r) PROVE kept
  <2>1. (\E result : Reply(r, result)) \/ Goto(r, "write")
    BY <1>7 DEF FindInvite
  <2> QED BY <1>1, <2>1, GotoKeeps
<1>8. ASSUME AcceptWrite(r) \/ RejectWrite(r) PROVE kept
  BY <1>1, <1>8, GotoKeeps DEF AcceptWrite, RejectWrite
<1>9. ASSUME CommitInvite(r) \/ CommitAccept(r) \/ CommitReject(r) PROVE kept
  <2>1. PICK ps, n : request' = [AgedReaders(ps) EXCEPT ![r] = [Idle EXCEPT !.reply = n]]
    BY <1>9 DEF CommitInvite, CommitAccept, CommitReject
  <2>2. [Idle EXCEPT !.reply = n].op = "none"
    BY DEF Idle
  <2> QED BY <2>1, <2>2, AgedGood, AgedKeeps DEF Keeps
<1>10. ASSUME FindMember(r) PROVE kept
  <2>1. (\E result : Reply(r, result)) \/ Goto(r, "write")
    BY <1>10 DEF FindMember
  <2> QED BY <1>1, <2>1, GotoKeeps
<1>11. ASSUME WriteMember(r) PROVE kept
  <2>1. ASSUME request' = [AgedReaders({"members"}) EXCEPT ![r].at = "pages"] PROVE kept
    <3>1. AgedReaders({"members"})[r] \in RequestRecord
      BY AgedGood
    <3>2. \A p \in Requests : /\ request'[p].op = AgedReaders({"members"})[p].op
                              /\ request'[p].subject = AgedReaders({"members"})[p].subject
      BY <2>1, <3>1, AgedGood DEF RequestRecord
    <3> QED BY <3>2, AgedKeeps DEF Keeps
  <2> QED BY <1>11, <2>1, GotoKeeps DEF WriteMember
<1>12. ASSUME InvalidateMembers(r) \/ InvalidateRoles(r) PROVE kept
  BY <1>1, <1>12, GotoKeeps DEF InvalidateMembers, InvalidateRoles
<1>13. ASSUME Die(r) PROVE kept
  BY ZenonT(30), <1>13, IdleKeeps DEF Die, Refuse
<1> QED BY <1>2, <1>3, <1>4, <1>5, <1>6, <1>7, <1>8, <1>9, <1>10, <1>11, <1>12, <1>13 DEF Handler

(* A request that arrives to answer an invite finds it written.            *)
LEMMA ArrivalAnswers ==
  ASSUME RequestsOK, NEW r \in Requests, Client(r), NEW q \in Requests,
         request'[q].op \in {"accept", "reject"}
  PROVE  \/ Keeps(q)
         \/ invite[request'[q].subject].status # "unsent"
<1>1. CASE q # r
  <2>1. request'[q] = request[q]
    BY ZenonT(30), <1>1 DEF Client, Ask, AskToInvite, AskToRespond, AskAboutMember, Arrive, Begin, RequestsOK
  <2> QED BY <2>1 DEF Keeps
<1>2. CASE q = r
  <2>1. PICK a \in Accounts :
          Ask(r, a) \/ AskToInvite(r, a) \/ AskToRespond(r, a) \/ AskAboutMember(r, a)
    BY DEF Client
  <2>2. PICK op, fields :
          /\ Arrive(r, op, a, fields) /\ DOMAIN fields = DOMAIN Idle
          /\ op \in {"accept", "reject"} => invite[fields.subject].status # "unsent"
    <3>1. CASE Ask(r, a)
      <4>1. PICK op \in {"getWorkspace", "getMembership", "listWorkspaces", "listMyInvites",
                         "listMembers", "listInvites"} :
              Arrive(r, op, a, Idle)
        BY <3>1 DEF Ask
      <4>2. op \notin {"accept", "reject"}
        OBVIOUS
      <4> WITNESS op, Idle
      <4> QED BY <4>1, <4>2
    <3>2. CASE AskToInvite(r, a)
      <4>1. PICK b \in Accounts, g \in Grants :
              Arrive(r, "invite", a, [Idle EXCEPT !.target = b, !.grant = g])
        BY <3>2 DEF AskToInvite
      <4>2. DOMAIN [Idle EXCEPT !.target = b, !.grant = g] = DOMAIN Idle
        BY DEF Idle
      <4> WITNESS "invite", [Idle EXCEPT !.target = b, !.grant = g]
      <4> QED BY <4>1, <4>2
    <3>3. CASE AskToRespond(r, a)
      <4>1. PICK op \in {"accept", "reject"}, i \in Invites :
              /\ invite[i].status # "unsent"
              /\ Arrive(r, op, a, [Idle EXCEPT !.subject = i])
        BY <3>3 DEF AskToRespond
      <4>2. /\ DOMAIN [Idle EXCEPT !.subject = i] = DOMAIN Idle
            /\ [Idle EXCEPT !.subject = i].subject = i
        BY DEF Idle
      <4> WITNESS op, [Idle EXCEPT !.subject = i]
      <4> QED BY <4>1, <4>2
    <3>4. CASE AskAboutMember(r, a)
      <4>1. PICK op \in {"remove", "updateRole"}, b \in Accounts, g \in Grants \cup {None} :
              Arrive(r, op, a, [Idle EXCEPT !.target = b, !.subject = rowId[b], !.grant = g])
        BY <3>4 DEF AskAboutMember
      <4>2. DOMAIN [Idle EXCEPT !.target = b, !.subject = rowId[b], !.grant = g] = DOMAIN Idle
        BY DEF Idle
      <4> WITNESS op, [Idle EXCEPT !.target = b, !.subject = rowId[b], !.grant = g]
      <4> QED BY <4>1, <4>2
    <3> QED BY <2>1, <3>1, <3>2, <3>3, <3>4
  <2>3. request'[r].op = op /\ request'[r].subject = fields.subject
    BY <2>2 DEF Arrive, Begin, RequestsOK, Idle
  <2> QED BY <1>2, <2>2, <2>3
<1> QED BY <1>1, <1>2

(* Only these steps write invites or announce them.                        *)
LEMMA InvitesChange ==
  ASSUME [Next]_vars
  PROVE  \/ UNCHANGED inviteVars
         \/ \E r \in Requests : CommitInvite(r) \/ CommitAccept(r) \/ CommitReject(r)
         \/ \E i \in Invites : Elapse(i)
<1>1. ASSUME NEW r \in Requests, Client(r) PROVE UNCHANGED inviteVars
  BY <1>1 DEF Client, Ask, AskToInvite, AskToRespond, AskAboutMember, Arrive
<1>2. ASSUME NEW r \in Requests, Handler(r)
      PROVE  UNCHANGED inviteVars \/ CommitInvite(r) \/ CommitAccept(r) \/ CommitReject(r)
  BY <1>2 DEF Handler, Middlewares, GetWorkspace, GetMyMembership, ListMyWorkspaces, ListMyInvites,
     Answer, GetPage, QueryPage, StorePage, ExistsByEmail, FindPending, InsertInvite, FindInvite,
     AcceptWrite, RejectWrite, FindMember, WriteMember, InvalidateMembers, InvalidateRoles
<1>3. ASSUME NEW r \in Requests, Die(r) PROVE UNCHANGED inviteVars
  BY <1>3 DEF Die
<1> QED BY <1>1, <1>2, <1>3 DEF Next, Expire, CacheExpire, ExpirePage, vars, inviteVars

LEMMA EventsStep ==
  ASSUME WorkspaceInv, EventsInv, [Next]_vars
  PROVE  EventsInv'
<1>1. /\ RequestsOK /\ RequestsOK' /\ InvitesOK
      /\ {"created", "accepted", "rejected"} \subseteq RoutingKey
  BY NextOK DEF WorkspaceInv, RoutingKey
(* The status never goes back to unsent, so the requests stay in order.    *)
<1>2. ASSUME \A i \in Invites : invite[i].status # "unsent" => invite'[i].status # "unsent"
      PROVE  \A r \in Requests : request'[r].op \in {"accept", "reject"} =>
               invite'[request'[r].subject].status # "unsent"
  <2> SUFFICES ASSUME NEW q \in Requests, request'[q].op \in {"accept", "reject"}
               PROVE  invite'[request'[q].subject].status # "unsent"
    OBVIOUS
  <2>1. request'[q].subject \in Invites
    BY <1>1 DEF RequestsOK, Good
  <2>2. CASE Keeps(q)
    BY <1>2, <2>1, <2>2 DEF EventsInv, Keeps
  <2>3. CASE invite[request'[q].subject].status # "unsent"
    BY <1>2, <2>1, <2>3
  <2>4. CASE \E r \in Requests : Client(r)
    BY <1>1, <2>2, <2>3, <2>4, ArrivalAnswers
  <2>5. CASE \E r \in Requests : Handler(r) \/ Die(r)
    BY <1>1, <2>2, <2>5, HandlerKeeps
  <2>6. CASE Expire \/ (\E i \in Invites : Elapse(i)) \/ UNCHANGED vars
    <3>1. request' = request
      BY <2>6 DEF Expire, CacheExpire, ExpirePage, Elapse, vars
    <3> QED BY <2>2, <3>1 DEF Keeps
  <2> QED BY <2>4, <2>5, <2>6 DEF Next
<1>3. CASE UNCHANGED inviteVars
  BY <1>2, <1>3 DEF EventsInv, AnswersMatchEvents, inviteVars
<1>4. ASSUME NEW r \in Requests, CommitInvite(r) PROVE EventsInv'
  <2>0. PICK i \in Invites :
          /\ \A j \in Invites : invite[j].status = "unsent" <=> j >= i
          /\ invite' = [invite EXCEPT ![i] = [NoInvite EXCEPT
                          !.status = "pending", !.to = request[r].target,
                          !.role = request[r].grant]]
          /\ sent' = [sent EXCEPT !["created"][i] = @ + 1]
    BY <1>4 DEF CommitInvite
  <2>i. i >= i
    BY DEF Invites
  <2>1. /\ invite[i].status = "unsent"
        /\ invite' = [invite EXCEPT ![i] = [NoInvite EXCEPT
                        !.status = "pending", !.to = request[r].target,
                        !.role = request[r].grant]]
        /\ sent' = [sent EXCEPT !["created"][i] = @ + 1]
    BY <2>0, <2>i
  <2>2. invite'[i].status = "pending" /\ \A j \in Invites \ {i} : invite'[j] = invite[j]
    BY <1>1, <2>1 DEF InvitesOK, NoInvite
  <2>3. /\ sent'["created"][i] = 1 /\ \A j \in Invites \ {i} : sent'["created"][j] = sent["created"][j]
        /\ sent'["accepted"] = sent["accepted"] /\ sent'["rejected"] = sent["rejected"]
    BY <1>1, <2>1 DEF InvitesOK, EventsInv
  <2>4. AnswersMatchEvents'
    BY <2>1, <2>2, <2>3 DEF EventsInv, AnswersMatchEvents
  <2> QED BY <1>2, <2>2, <2>3, <2>4 DEF EventsInv
<1>5. ASSUME NEW r \in Requests, NEW answer \in {"accepted", "rejected"},
             request[r].op \in {"accept", "reject"},
             invite' = [invite EXCEPT ![request[r].subject].status = answer],
             sent' = [sent EXCEPT ![answer][request[r].subject] = @ + 1]
      PROVE  EventsInv'
  <2> DEFINE i == request[r].subject
  <2>1. i \in Invites /\ invite[i].status # "unsent"
    BY <1>1, <1>5 DEF RequestsOK, Good, EventsInv
  <2> HIDE DEF i
  <2>2. invite'[i].status = answer /\ \A j \in Invites \ {i} : invite'[j] = invite[j]
    BY <1>1, <1>5, <2>1 DEF InvitesOK, i
  <2>3. /\ sent'[answer][i] > 0 /\ sent'["created"] = sent["created"]
        /\ \A k \in RoutingKey, j \in Invites \ {i} : sent'[k][j] = sent[k][j]
    BY <1>1, <1>5, <2>1 DEF InvitesOK, i
  <2>4. AnswersMatchEvents'
    BY <1>1, <2>1, <2>2, <2>3 DEF EventsInv, AnswersMatchEvents
  <2> QED BY <1>2, <2>1, <2>2, <2>3, <2>4 DEF EventsInv
<1>6. ASSUME NEW r \in Requests, CommitAccept(r) \/ CommitReject(r) PROVE EventsInv'
  BY <1>5, <1>6 DEF CommitAccept, CommitReject, At
<1>7. ASSUME NEW i \in Invites, Elapse(i) PROVE EventsInv'
  <2>1. sent' = sent /\ \A j \in Invites : invite'[j].status = invite[j].status
    BY <1>1, <1>7 DEF Elapse, InvitesOK
  <2> QED BY <1>2, <2>1 DEF EventsInv, AnswersMatchEvents
<1> QED BY <1>3, <1>4, <1>6, <1>7, InvitesChange

LEMMA EventsAlways == Spec => []EventsInv
<1>1. Init => EventsInv
  <2> SUFFICES ASSUME Init PROVE EventsInv OBVIOUS
  <2>1. /\ \A i \in Invites : invite[i].status = "unsent"
        /\ \A k \in RoutingKey, i \in Invites : sent[k][i] = 0
        /\ \A r \in Requests : request[r].op = "none"
    BY DEF Init, NoInvite, Idle
  <2> QED BY <2>1 DEF EventsInv, AnswersMatchEvents, RoutingKey
<1>2. WorkspaceInv /\ EventsInv /\ [Next]_vars => EventsInv'
  BY EventsStep
<1> QED BY <1>1, <1>2, InvAlways, PTL DEF Spec

(* An invite's outbox rows say what its row says (InviteMemberHandler,     *)
(* RespondToInviteHandler), for any number of invites and answers at once. *)
THEOREM InviteEventsTellItsStory == Spec => []AnswersMatchEvents
<1>1. EventsInv => AnswersMatchEvents
  BY DEF EventsInv
<1> QED BY <1>1, EventsAlways, PTL
-----------------------------------------------------------------------------
(* Stale copies.                                                           *)

Excused(a) == a \in raced \/ \E r \in Requests : Writing(r, a)

(* A role in the cache, or on its way into it, is the account's unless     *)
(* something excuses it.                                                   *)
RoleInv ==
    /\ \A a \in Accounts, f \in Fact : cached[f][a] \in {Miss, accountRole[a]} \/ Excused(a)
    /\ \A r \in Requests : request[r].at = "store" =>
          request[r].held = accountRole[request[r].by] \/ Excused(request[r].by)

InFlight(p) == \E q \in Requests : request[q].at = "storePage" /\ PageOf[request[q].op] = p

(* Only removals and changes of role write before they invalidate.         *)
PageExcused(p) ==
    p \in raced \/ (p = "members" /\ \E r \in Requests : request[r].at = "pages")

(* What an open transaction has invalidated is raced if it is cached, or   *)
(* on its way into the cache, all the same.                                *)
PageInv ==
    /\ \A p \in Pages : page[p] = "stale" => PageExcused(p)
    /\ \A r \in Requests : request[r].at = "storePage" /\ request[r].held = "stale" =>
          PageExcused(PageOf[request[r].op])
    /\ \A r \in Requests : request[r].at = "commit" =>
          \A p \in Ages(request[r].op) : page[p] # Miss \/ InFlight(p) => p \in raced

LEMMA ReplyMoves ==
  ASSUME RequestsOK, NEW r \in Requests, NEW n,
         request' = [request EXCEPT ![r] = [Idle EXCEPT !.reply = n]]
  PROVE  /\ \A q \in Requests \ {r} : request'[q] = request[q]
         /\ request'[r].at = "idle"
BY DEF RequestsOK, Idle

LEMMA GotoMoves ==
  ASSUME RequestsOK, NEW r \in Requests, NEW at, Goto(r, at)
  PROVE  /\ \A q \in Requests \ {r} : request'[q] = request[q]
         /\ request'[r].at = at
         /\ request'[r].op = request[r].op /\ request'[r].target = request[r].target
BY DEF RequestsOK, RequestRecord, Goto

LEMMA LookedMoves ==
  ASSUME RequestsOK, NEW r \in Requests, NEW fact, NEW role,
         request[r].at \in {"lookup", "query", "store"}, Looked(r, fact, role)
  PROVE  /\ \A q \in Requests \ {r} : request'[q] = request[q]
         /\ request'[r].at \in {"idle", "lookup", "done", "getPage", "exists", "findInvite",
                                 "findMember"}
<1> DEFINE req  == request[r]
           at   == IF Tail(req.todo) = <<>> THEN FirstStep[req.op] ELSE "lookup"
           new  == [req EXCEPT !.todo = Tail(req.todo), !.held = None, !.at = at]
<1>1. \/ \E n \in {403, 404} : Refuse(r, n)
      \/ request' = [request EXCEPT ![r] = new]
  BY DEF Looked
<1>2. req \in RequestRecord /\ req.op \in Operation
  BY DEF RequestsOK, Good, OpsAt
<1>3. new.at = at
  BY <1>2 DEF RequestRecord
<1>4. at \in {"lookup", "done", "getPage", "exists", "findInvite", "findMember"}
  BY <1>2, FirstStepType
<1> HIDE DEF new, at
<1> QED BY <1>1, <1>3, <1>4, ReplyMoves DEF Refuse, RequestsOK

LEMMA ClientMoves ==
  ASSUME RequestsOK, NEW r \in Requests, Client(r)
  PROVE  /\ \A q \in Requests \ {r} : request'[q] = request[q]
         /\ request'[r].at \in {"lookup", "done", "getPage", "exists", "findInvite", "findMember"}
<1>1. PICK a \in Accounts :
        Ask(r, a) \/ AskToInvite(r, a) \/ AskToRespond(r, a) \/ AskAboutMember(r, a)
  BY DEF Client
<1>2. \E op \in Operation : \E fields :
        Arrive(r, op, a, fields) /\ DOMAIN fields = DOMAIN Idle
  <2>1. CASE Ask(r, a)
    BY <2>1, Operations DEF Ask
  <2>2. CASE AskToInvite(r, a)
    <3>1. PICK b, g : Arrive(r, "invite", a, [Idle EXCEPT !.target = b, !.grant = g])
      BY <2>2 DEF AskToInvite
    <3>2. DOMAIN [Idle EXCEPT !.target = b, !.grant = g] = DOMAIN Idle
      BY DEF Idle
    <3> QED BY <3>1, <3>2, Operations
  <2>3. CASE AskToRespond(r, a)
    <3>1. PICK op \in {"accept", "reject"}, i \in Invites :
            Arrive(r, op, a, [Idle EXCEPT !.subject = i])
      BY <2>3 DEF AskToRespond
    <3>2. DOMAIN [Idle EXCEPT !.subject = i] = DOMAIN Idle
      BY DEF Idle
    <3> QED BY <3>1, <3>2, Operations
  <2>4. CASE AskAboutMember(r, a)
    <3>1. PICK op \in {"remove", "updateRole"}, b \in Accounts, g \in Grants \cup {None} :
            Arrive(r, op, a, [Idle EXCEPT !.target = b, !.subject = rowId[b], !.grant = g])
      BY <2>4 DEF AskAboutMember
    <3>2. DOMAIN [Idle EXCEPT !.target = b, !.subject = rowId[b], !.grant = g] = DOMAIN Idle
      BY DEF Idle
    <3> QED BY <3>1, <3>2, Operations
  <2> QED BY <1>1, <2>1, <2>2, <2>3, <2>4
<1> PICK op \in Operation : \E fields : Arrive(r, op, a, fields) /\ DOMAIN fields = DOMAIN Idle
  BY <1>2
<1>6. PICK fields : Arrive(r, op, a, fields) /\ DOMAIN fields = DOMAIN Idle
  OBVIOUS
<1> DEFINE at == IF ControllerOf[op].checks = <<>> THEN FirstStep[op] ELSE "lookup"
           new == [fields EXCEPT !.op = op, !.by = a, !.todo = ControllerOf[op].checks, !.at = at]
<1>3. request' = [request EXCEPT ![r] = new]
  BY <1>6 DEF Arrive, Begin
<1>4. at \in {"lookup", "done", "getPage", "exists", "findInvite", "findMember"}
  BY FirstStepType
<1>5. new.at = at
  BY <1>6 DEF Idle
<1> HIDE DEF new, at
<1> QED BY <1>3, <1>4, <1>5 DEF RequestsOK

(* A step that reads no row, stores nothing, and leaves the excuses.       *)
LEMMA RoleFrame ==
  ASSUME RequestsOK', RoleInv, UNCHANGED accountRole,
         \A a \in Accounts, f \in Fact : cached'[f][a] \in {Miss, cached[f][a]},
         \A a \in Accounts : a \in raced => a \in raced',
         \A q \in Requests : request'[q].at = "store" => request'[q] = request[q],
         \A q \in Requests, a \in Accounts : Writing(q, a) => Writing(q, a)'
  PROVE  RoleInv'
<1>1. \A a \in Accounts : Excused(a) => Excused(a)'
  BY DEF Excused
<1>2. \A q \in Requests : request'[q].by \in Accounts
  BY DEF RequestsOK, RequestRecord
<1> QED BY <1>1, <1>2 DEF RoleInv

LEMMA PageFrame ==
  ASSUME RequestsOK', PageInv,
         \A p \in Pages : page'[p] \in {Miss, page[p]},
         \A p \in Pages : p \in raced => p \in raced',
         \A q \in Requests :
            /\ request'[q].at \in {"storePage", "commit"} => request'[q] = request[q]
            /\ request[q].at = "pages" => request'[q].at = "pages"
  PROVE  PageInv'
<1>1. \A p \in Pages : PageExcused(p) => PageExcused(p)'
  BY DEF PageExcused
<1>2. \A p : InFlight(p)' => InFlight(p)
  BY DEF InFlight
<1>3. \A q \in Requests : /\ request'[q].at = "storePage" => PageOf[request'[q].op] \in Pages
                          /\ Ages(request'[q].op) \subseteq Pages
  BY DEF RequestsOK, Good, OpsAt, PageOf, Pages, Ages
<1>4. \A p \in Pages : page'[p] = "stale" => PageExcused(p)'
  BY <1>1 DEF PageInv, Miss
<1>5. ASSUME NEW q \in Requests, request'[q].at = "storePage", request'[q].held = "stale"
      PROVE  PageExcused(PageOf[request[q].op])'
  <2>1. request'[q] = request[q] /\ PageOf[request[q].op] \in Pages
    BY <1>3, <1>5
  <2>2. PageExcused(PageOf[request[q].op])
    BY <1>5, <2>1 DEF PageInv
  <2>3. \A p \in Pages : p = PageOf[request[q].op] => PageExcused(p)'
    BY <1>1, <2>2
  <2>4. PageOf[request'[q].op] = PageOf[request[q].op]
    BY <2>1
  <2> QED BY <2>1, <2>3, <2>4 DEF PageExcused
<1>6. ASSUME NEW q \in Requests, request'[q].at = "commit",
             NEW p \in Ages(request'[q].op), page'[p] # Miss \/ InFlight(p)'
      PROVE  p \in raced'
  <2>1. request'[q] = request[q] /\ p \in Pages
    BY <1>3, <1>6
  <2>2. page[p] # Miss \/ InFlight(p)
    BY <1>2, <1>6, <2>1
  <2>3. p \in raced
    BY <1>6, <2>1, <2>2 DEF PageInv
  <2> QED BY <2>1, <2>3
<1> QED BY <1>4, <1>5, <1>6 DEF PageInv

StaleInv == RoleInv /\ PageInv

(* Nothing is about to be stored, committed or invalidated by this slot.   *)
Settled(at) == at \notin {"store", "storePage", "commit", "pages", "roles"}

LEMMA SettledStep ==
  ASSUME RequestsOK, RequestsOK', StaleInv, UNCHANGED <<accountRole, raced>>,
         \A a \in Accounts, f \in Fact : cached'[f][a] \in {Miss, cached[f][a]},
         \A p \in Pages : page'[p] \in {Miss, page[p]},
         \A q \in Requests :
            \/ request'[q] = request[q]
            \/ request[q].at \notin {"pages", "roles"} /\ Settled(request'[q].at)
  PROVE  StaleInv'
<1>1. RoleInv'
  BY RoleFrame DEF StaleInv, Settled, Writing
<1>2. PageInv'
  BY PageFrame DEF StaleInv, Settled
<1> QED BY <1>1, <1>2 DEF StaleInv

-----------------------------------------------------------------------------
(* The steps, one kind at a time.                                          *)

LEMMA MiddlewaresStale ==
  ASSUME WorkspaceInv, WorkspaceInv', StaleInv, NEW r \in Requests, Middlewares(r)
  PROVE  StaleInv'
<1> DEFINE req == request[r]
<1>1. /\ RequestsOK /\ RequestsOK' /\ RolesOK
      /\ req \in RequestRecord /\ req.by \in Accounts
  BY DEF WorkspaceInv, RequestsOK, RequestRecord
<1>2. UNCHANGED <<accountRole, raced, page>>
  BY DEF Middlewares, CacheGet, RowQuery, CacheSet, roleVars
<1>3. CASE CacheGet(r)
  <2>1. UNCHANGED cached /\ req.at = "lookup"
    BY <1>3 DEF CacheGet, roleVars
  <2>2. (\E fact, role : Looked(r, fact, role)) \/ Goto(r, "query")
    BY <1>3 DEF CacheGet
  <2>3. /\ \A q \in Requests \ {r} : request'[q] = request[q]
        /\ Settled(request'[r].at)
    BY <1>1, <2>1, <2>2, LookedMoves, GotoMoves DEF Settled
  <2> QED BY <1>1, <1>2, <2>1, <2>3, SettledStep
<1>4. CASE RowQuery(r)
  <2>1. UNCHANGED cached /\ req.at = "query"
    BY <1>4 DEF RowQuery, roleVars
  <2>2. CASE \E fact, role : Looked(r, fact, role)
    <3>1. /\ \A q \in Requests \ {r} : request'[q] = request[q]
          /\ Settled(request'[r].at)
      BY <1>1, <2>1, <2>2, LookedMoves DEF Settled
    <3> QED BY <1>1, <1>2, <2>1, <3>1, SettledStep
  <2>3. CASE request' = [request EXCEPT ![r].at = "store", ![r].held = accountRole[req.by]]
    <3>1. /\ \A q \in Requests \ {r} : request'[q] = request[q]
          /\ request'[r].at = "store" /\ request'[r].by = req.by
          /\ request'[r].held = accountRole[req.by]
      BY <1>1, <2>3 DEF RequestsOK, RequestRecord
    <3>2. \A a \in Accounts : Excused(a) => Excused(a)'
      BY <1>2, <2>1, <3>1 DEF Excused, Writing
    <3>3. RoleInv'
      <4>1. \A q \in Requests \ {r} : request[q].by \in Accounts
        BY <1>1 DEF RequestsOK, RequestRecord
      <4> QED BY <1>2, <2>1, <3>1, <3>2, <4>1 DEF RoleInv, StaleInv
    <3>4. PageInv'
      BY <1>1, <1>2, <2>1, <3>1, PageFrame DEF StaleInv
    <3> QED BY <3>3, <3>4 DEF StaleInv
  <2> QED BY <1>4, <2>2, <2>3 DEF RowQuery
<1>5. CASE CacheSet(r)
  <2>1. /\ req.at = "store"
        /\ \/ cached' = cached
           \/ cached' = [cached EXCEPT ![Head(req.todo)][req.by] = req.held]
        /\ Looked(r, Head(req.todo), req.held)
    BY <1>5 DEF CacheSet
  <2>2. /\ \A q \in Requests \ {r} : request'[q] = request[q]
        /\ Settled(request'[r].at)
    BY <1>1, <2>1, LookedMoves DEF Settled
  <2>3. \A a \in Accounts : Excused(a) => Excused(a)'
    BY <1>2, <2>1, <2>2 DEF Excused, Writing
  <2>4. req.held = accountRole[req.by] \/ Excused(req.by)
    BY <2>1 DEF StaleInv, RoleInv
  <2>5. RoleInv'
    <3>1. \A a \in Accounts, f \in Fact :
            cached'[f][a] = cached[f][a] \/ (a = req.by /\ cached'[f][a] = req.held)
      BY <1>1, <2>1 DEF RolesOK
    <3>2. \A a \in Accounts, f \in Fact : cached'[f][a] \in {Miss, accountRole[a]} \/ Excused(a)'
      BY <1>1, <2>3, <2>4, <3>1 DEF StaleInv, RoleInv
    <3>3. \A q \in Requests : request'[q].at = "store" =>
            request'[q] = request[q] /\ request[q].by \in Accounts
      BY <1>1, <2>2 DEF Settled, RequestsOK, RequestRecord
    <3> QED BY <1>2, <2>3, <3>2, <3>3 DEF StaleInv, RoleInv
  <2>6. PageInv'
    BY <1>1, <1>2, <2>1, <2>2, PageFrame DEF StaleInv, Settled
  <2> QED BY <2>5, <2>6 DEF StaleInv
<1> QED BY <1>3, <1>4, <1>5 DEF Middlewares

(* The steps that only answer or go on.                                    *)
LEMMA AnswersStale ==
  ASSUME WorkspaceInv, WorkspaceInv', StaleInv, NEW r \in Requests,
         \/ GetWorkspace(r) \/ GetMyMembership(r) \/ ListMyWorkspaces(r) \/ ListMyInvites(r)
         \/ GetPage(r) \/ ExistsByEmail(r) \/ FindPending(r) \/ FindInvite(r) \/ FindMember(r)
  PROVE  StaleInv'
<1>1. RequestsOK /\ RequestsOK'
  BY DEF WorkspaceInv
<1>2. UNCHANGED <<roleVars, raced, page>> /\ request[r].at \notin {"pages", "roles"}
  BY DEF GetWorkspace, GetMyMembership, ListMyWorkspaces, ListMyInvites, Answer, At, GetPage,
         ExistsByEmail, FindPending, FindInvite, FindMember
<1>3. \/ \E result : Reply(r, result)
      \/ \E at \in {"queryPage", "pending", "insert", "write"} : Goto(r, at)
  BY DEF GetWorkspace, GetMyMembership, ListMyWorkspaces, ListMyInvites, Answer, GetPage,
         ExistsByEmail, FindPending, FindInvite, FindMember
<1>4. /\ \A q \in Requests \ {r} : request'[q] = request[q]
      /\ Settled(request'[r].at)
  BY <1>1, <1>3, ReplyMoves, GotoMoves DEF Reply, Settled
<1> QED BY <1>1, <1>2, <1>4, SettledStep DEF roleVars

(* A reader of a page notes whether a transaction that changes it is open. *)
LEMMA ReadersStale ==
  ASSUME WorkspaceInv, WorkspaceInv', StaleInv, NEW r \in Requests, QueryPage(r) \/ StorePage(r)
  PROVE  StaleInv'
<1> DEFINE req == request[r]
           p == PageOf[req.op]
<1>1. /\ RequestsOK /\ RequestsOK' /\ PagesOK /\ req \in RequestRecord
      /\ UNCHANGED <<accountRole, cached>> /\ req.at \in {"queryPage", "storePage"}
      /\ p \in Pages
  BY DEF WorkspaceInv, RequestsOK, Good, OpsAt, QueryPage, StorePage, roleVars, PageOf, Pages
<1>2. CASE QueryPage(r)
  <2>1. /\ \A q \in Requests \ {r} : request'[q] = request[q]
        /\ request'[r].at = "storePage" /\ request'[r].op = req.op /\ request'[r].held = "fresh"
        /\ page' = page
    BY <1>1, <1>2 DEF QueryPage, RequestsOK, RequestRecord
  <2>2. /\ raced \subseteq raced'
        /\ \A q \in Requests : request[q].at = "commit" /\ p \in Ages(request[q].op) => p \in raced'
    BY <1>2 DEF QueryPage
  <2>3. RoleInv'
    BY <1>1, <2>1, <2>2, RoleFrame DEF StaleInv, Writing
  <2>4. \A x \in Pages : PageExcused(x) => PageExcused(x)'
    BY <1>1, <2>1, <2>2 DEF PageExcused
  <2>5. \A x : InFlight(x)' => InFlight(x) \/ x = p
    BY <2>1 DEF InFlight
  <2>6. \A q \in Requests :
          /\ request[q].at = "storePage" => PageOf[request[q].op] \in Pages
          /\ Ages(request[q].op) \subseteq Pages
    BY <1>1 DEF RequestsOK, Good, OpsAt, PageOf, Pages, Ages
  <2>7. \A x \in Pages : page'[x] = "stale" => PageExcused(x)'
    BY <2>1, <2>4 DEF StaleInv, PageInv
  <2>8. ASSUME NEW q \in Requests, request'[q].at = "storePage", request'[q].held = "stale"
        PROVE  PageExcused(PageOf[request[q].op])'
    <3>1. request'[q] = request[q] /\ q # r
      BY <2>1, <2>8
    <3>2. PageExcused(PageOf[request[q].op])
      BY <2>8, <3>1 DEF StaleInv, PageInv
    <3> QED BY <2>4, <2>6, <2>8, <3>1, <3>2 DEF PageExcused
  <2>9. ASSUME NEW q \in Requests, request'[q].at = "commit",
               NEW x \in Ages(request'[q].op), page'[x] # Miss \/ InFlight(x)'
        PROVE  x \in raced'
    <3>1. request'[q] = request[q]
      BY <2>1, <2>9
    <3>2. CASE x = p
      BY <2>2, <2>9, <3>1, <3>2
    <3>3. CASE x # p
      <4>1. page[x] # Miss \/ InFlight(x)
        BY <2>1, <2>5, <2>9, <3>3
      <4> QED BY <2>2, <2>9, <3>1, <4>1 DEF StaleInv, PageInv
    <3> QED BY <3>2, <3>3
  <2> QED BY <2>3, <2>7, <2>8, <2>9 DEF StaleInv, PageInv
<1>3. CASE StorePage(r)
  <2>1. /\ \A q \in Requests \ {r} : request'[q] = request[q]
        /\ request'[r].at = "idle" /\ raced' = raced /\ req.at = "storePage"
        /\ page' = [page EXCEPT ![p] = req.held]
    BY <1>1, <1>3, ReplyMoves DEF StorePage, Reply
  <2>2. RoleInv'
    BY <1>1, <2>1, RoleFrame DEF StaleInv, Writing
  <2>3. \A x : PageExcused(x) => PageExcused(x)'
    BY <2>1 DEF PageExcused
  <2>4. InFlight(p) /\ \A x : InFlight(x)' => InFlight(x)
    BY <2>1 DEF InFlight
  <2>5. req.held = "stale" => PageExcused(p)
    BY <2>1 DEF StaleInv, PageInv
  <2>6. /\ page'[p] = req.held
        /\ \A x \in Pages \ {p} : page'[x] = page[x]
    BY <1>1, <2>1 DEF PagesOK
  <2>7. \A x \in Pages : page'[x] = "stale" => PageExcused(x)'
    BY <2>3, <2>5, <2>6 DEF StaleInv, PageInv
  <2>8. ASSUME NEW q \in Requests, request'[q].at = "storePage", request'[q].held = "stale"
        PROVE  PageExcused(PageOf[request[q].op])' /\ request'[q] = request[q]
    <3>1. request'[q] = request[q]
      BY <2>1, <2>8
    <3>2. PageExcused(PageOf[request[q].op])
      BY <2>8, <3>1 DEF StaleInv, PageInv
    <3> QED BY <2>1, <2>8, <3>1, <3>2 DEF PageExcused
  <2>9. ASSUME NEW q \in Requests, request'[q].at = "commit",
               NEW x \in Ages(request'[q].op), page'[x] # Miss \/ InFlight(x)'
        PROVE  x \in raced'
    <3>1. request'[q] = request[q] /\ x \in Pages
      BY <1>1, <2>1, <2>9 DEF RequestsOK, Ages, Pages
    <3>2. page[x] # Miss \/ InFlight(x)
      BY <2>4, <2>6, <2>9, <3>1
    <3> QED BY <2>1, <2>9, <3>1, <3>2 DEF StaleInv, PageInv
  <2> QED BY <2>2, <2>7, <2>8, <2>9 DEF StaleInv, PageInv, PageExcused
<1> QED BY <1>2, <1>3

(* Invalidating pages and what may be left of them.                        *)
LEMMA InvalidatedPages ==
  ASSUME RequestsOK, RequestsOK', PagesOK, PageInv, NEW ps \in SUBSET Pages, NEW r \in Requests,
         InvalidatePages(ps),
         \A q \in Requests \ {r} : request'[q] = request[q],
         request[r].at # "storePage", request'[r].at # "storePage",
         request'[r].at = "commit" => Ages(request'[r].op) = ps,
         request[r].at = "pages" => "members" \in ps
  PROVE  PageInv'
<1>1. PICK left \in SUBSET ps :
        /\ page' = [p \in Pages |-> IF p \in ps \ left THEN Miss ELSE page[p]]
        /\ raced' = (raced \ ps) \cup left \cup PagesInFlight(ps)
  BY DEF InvalidatePages
<1>2. \A p : InFlight(p)' <=> InFlight(p)
  BY DEF InFlight
<1>3. \A p \in ps : page'[p] # Miss \/ InFlight(p) => p \in raced'
  BY <1>1 DEF PagesInFlight, InFlight
<1>4. \A p \in Pages \ ps : /\ page'[p] = page[p]
                            /\ p \in raced => p \in raced'
                            /\ PageExcused(p) => PageExcused(p)'
  BY <1>1 DEF PageExcused
<1>5. \A p \in Pages : page'[p] = "stale" => PageExcused(p)'
  <2> SUFFICES ASSUME NEW p \in Pages, page'[p] = "stale"
               PROVE  PageExcused(p)'
    OBVIOUS
  <2>1. CASE p \in ps
    BY <1>3, <2>1 DEF PageExcused, Miss
  <2>2. CASE p \notin ps
    BY <1>4, <2>2 DEF PageInv
  <2> QED BY <2>1, <2>2
<1>6. ASSUME NEW q \in Requests, request'[q].at = "storePage", request'[q].held = "stale"
      PROVE  PageExcused(PageOf[request[q].op])' /\ request'[q] = request[q]
  <2> DEFINE p == PageOf[request[q].op]
  <2>1. request'[q] = request[q] /\ p \in Pages /\ InFlight(p)
    BY <1>6 DEF RequestsOK, Good, OpsAt, PageOf, Pages, InFlight
  <2>2. PageExcused(p)
    BY <1>6, <2>1 DEF PageInv
  <2>3. CASE p \in ps
    BY <1>3, <2>1, <2>3 DEF PageExcused
  <2>4. CASE p \notin ps
    <3>1. \A x \in Pages \ ps : x = p => PageExcused(x)'
      BY <1>4, <2>2
    <3> QED BY <2>1, <2>4, <3>1 DEF PageExcused
  <2> QED BY <2>1, <2>3, <2>4
<1>7. ASSUME NEW q \in Requests, request'[q].at = "commit",
             NEW p \in Ages(request'[q].op), page'[p] # Miss \/ InFlight(p)'
      PROVE  p \in raced'
  <2>1. CASE p \in ps
    BY <1>2, <1>3, <1>7, <2>1
  <2>2. CASE p \notin ps
    <3>1. request'[q] = request[q] /\ p \in Pages
      BY <1>7, <2>2 DEF RequestsOK, Ages, Pages
    <3> QED BY <1>2, <1>4, <1>7, <2>2, <3>1 DEF PageInv
  <2> QED BY <2>1, <2>2
<1> QED BY <1>5, <1>6, <1>7 DEF PageInv, PageExcused

(* No account is named like a page.                                        *)
LEMMA InvalidatedKeepsAccounts ==
  ASSUME NEW ps \in SUBSET Pages, InvalidatePages(ps)
  PROVE  \A a \in Accounts : a \in raced => a \in raced'
BY NamesAssumption DEF InvalidatePages

LEMMA WritesStale ==
  ASSUME WorkspaceInv, WorkspaceInv', StaleInv, NEW r \in Requests,
         InsertInvite(r) \/ AcceptWrite(r) \/ RejectWrite(r) \/ InvalidateMembers(r)
  PROVE  StaleInv'
<1> DEFINE req == request[r]
<1>1. /\ RequestsOK /\ RequestsOK' /\ PagesOK /\ UNCHANGED <<accountRole, cached>>
      /\ req.op \in OpsAt(req.at) /\ req.at \in {"insert", "write", "pages"}
  BY DEF WorkspaceInv, RequestsOK, Good, InsertInvite, AcceptWrite, RejectWrite, At,
         InvalidateMembers, roleVars
<1>2. ASSUME NEW ps \in SUBSET Pages, InvalidatePages(ps), NEW at \in {"commit", "roles"},
             Goto(r, at), at = "commit" => Ages(req.op) = ps,
             req.at = "pages" => "members" \in ps /\ at = "roles"
      PROVE  StaleInv'
  <2>1. /\ \A q \in Requests \ {r} : request'[q] = request[q]
        /\ request'[r].at = at /\ request'[r].op = req.op /\ request'[r].target = req.target
    BY <1>1, <1>2, GotoMoves
  <2>2. PageInv'
    BY <1>1, <1>2, <2>1, InvalidatedPages DEF StaleInv
  <2>3. \A q \in Requests, a \in Accounts : Writing(q, a) => Writing(q, a)'
    BY <1>1, <1>2, <2>1 DEF Writing
  <2>4. \A q \in Requests : request'[q].at = "store" => request'[q] = request[q]
    BY <2>1
  <2>5. RoleInv'
    BY <1>1, <1>2, <2>3, <2>4, RoleFrame, InvalidatedKeepsAccounts DEF StaleInv
  <2> QED BY <2>2, <2>5 DEF StaleInv
<1>3. CASE InsertInvite(r)
  <2>1. req.op = "invite" /\ req.at = "insert"
    BY <1>1, <1>3 DEF InsertInvite, OpsAt
  <2> QED BY <1>2, <1>3, <2>1 DEF InsertInvite, Ages, Pages
<1>4. CASE AcceptWrite(r)
  <2>1. req.op = "accept" /\ req.at = "write"
    BY <1>4 DEF AcceptWrite, At
  <2>2. CASE Reply(r, "AlreadyAMember") /\ UNCHANGED <<raced, page>>
    <3>1. /\ \A q \in Requests \ {r} : request'[q] = request[q]
          /\ Settled(request'[r].at)
      BY <1>1, <2>2, ReplyMoves DEF Reply, Settled
    <3> QED BY <1>1, <2>1, <2>2, <3>1, SettledStep
  <2>3. CASE Goto(r, "commit") /\ InvalidatePages(Pages)
    BY <1>2, <2>1, <2>3 DEF Ages
  <2> QED BY <1>4, <2>2, <2>3 DEF AcceptWrite
<1>5. CASE RejectWrite(r)
  <2>1. req.op = "reject" /\ req.at = "write"
    BY <1>5 DEF RejectWrite, At
  <2> QED BY <1>2, <1>5, <2>1 DEF RejectWrite, Ages, Pages
<1>6. CASE InvalidateMembers(r)
  BY <1>2, <1>6 DEF InvalidateMembers, Pages
<1> QED BY <1>3, <1>4, <1>5, <1>6

(* The write that ages pages whose readers and copies are excused.         *)
LEMMA AgedPages ==
  ASSUME RequestsOK, RequestsOK', PagesOK, PageInv, NEW ps \in SUBSET Pages, NEW r \in Requests,
         page' = Aged(ps), raced \subseteq raced',
         request[r].at # "pages",
         request'[r].at \notin {"storePage", "commit"},
         \A q \in Requests \ {r} : request'[q] = AgedReaders(ps)[q],
         \/ \A p \in ps : page[p] # Miss \/ InFlight(p) => p \in raced
         \/ ps = {"members"} /\ request'[r].at = "pages"
  PROVE  PageInv'
<1>1. \A q \in Requests \ {r} :
        /\ request'[q].at = request[q].at /\ request'[q].op = request[q].op
        /\ request[q].at # "storePage" => request'[q] = request[q]
        /\ request'[q].held = request[q].held \/ PageOf[request[q].op] \in ps
  BY DEF AgedReaders, RequestsOK, RequestRecord
<1>2. \A p : InFlight(p)' => InFlight(p)
  BY <1>1 DEF InFlight
<1>3. \A p : PageExcused(p) => PageExcused(p)'
  BY <1>1 DEF PageExcused
<1>4. \A p \in ps : page[p] # Miss \/ InFlight(p) => PageExcused(p)'
  BY DEF PageExcused
<1>5. \A p \in Pages : /\ page'[p] # Miss => page[p] # Miss
                       /\ page'[p] = page[p] \/ p \in ps
  BY DEF Aged, Miss
<1>6. \A p \in Pages : page'[p] = "stale" => PageExcused(p)'
  BY <1>3, <1>4, <1>5 DEF PageInv, Miss
<1>7. ASSUME NEW q \in Requests, request'[q].at = "storePage", request'[q].held = "stale"
      PROVE  PageExcused(PageOf[request[q].op])' /\ request'[q].op = request[q].op
  <2> DEFINE p == PageOf[request[q].op]
  <2>1. /\ request'[q].op = request[q].op /\ request[q].at = "storePage"
        /\ InFlight(p) /\ q # r
    BY <1>1, <1>7 DEF InFlight
  <2>2. CASE p \in ps
    <3>1. \A x \in ps : x = p => PageExcused(x)'
      BY <1>4, <2>1
    <3> QED BY <1>1, <2>1, <2>2, <3>1 DEF PageExcused
  <2>3. CASE p \notin ps
    <3>1. PageExcused(p)
      BY <1>1, <1>7, <2>1, <2>3 DEF PageInv
    <3>2. \A x : x = p => PageExcused(x)'
      BY <1>3, <3>1
    <3> QED BY <1>1, <2>1, <3>2 DEF PageExcused
  <2> QED BY <2>1, <2>2, <2>3
<1>8. ASSUME NEW q \in Requests, request'[q].at = "commit",
             NEW p \in Ages(request'[q].op), page'[p] # Miss \/ InFlight(p)'
      PROVE  p \in raced'
  <2>1. q # r /\ request'[q] = request[q] /\ p \in Pages
    BY <1>1, <1>8 DEF Ages, Pages
  <2>2. page[p] # Miss \/ InFlight(p)
    BY <1>2, <1>5, <1>8, <2>1
  <2> QED BY <1>8, <2>1, <2>2 DEF PageInv
<1> QED BY <1>6, <1>7, <1>8 DEF PageInv, PageExcused

(* A slot gets a new request as a committed write ages what readers hold.  *)
Takes(ps, r, x) == request' = [AgedReaders(ps) EXCEPT ![r] = x]

LEMMA AgedMoves ==
  ASSUME RequestsOK, NEW ps \in SUBSET Pages, NEW r \in Requests, NEW x, Takes(ps, r, x)
  PROVE  /\ request'[r] = x
         /\ \A q \in Requests \ {r} :
               /\ request'[q] = AgedReaders(ps)[q]
               /\ request'[q].at = request[q].at /\ request'[q].target = request[q].target
               /\ request[q].at # "storePage" => request'[q] = request[q]
<1>1. AgedReaders(ps) \in [Requests -> {AgedReaders(ps)[q] : q \in Requests}]
  BY DEF AgedReaders
<1>2. request'[r] = x /\ \A q \in Requests \ {r} : request'[q] = AgedReaders(ps)[q]
  BY <1>1 DEF Takes
<1>3. \A q \in Requests :
        /\ AgedReaders(ps)[q].at = request[q].at
        /\ AgedReaders(ps)[q].target = request[q].target
        /\ request[q].at # "storePage" => AgedReaders(ps)[q] = request[q]
  BY DEF AgedReaders, RequestsOK, RequestRecord
<1> QED BY <1>2, <1>3

(* A step that may change one account's role, and takes its excuse only if *)
(* nothing of it is cached or in flight.                                   *)
LEMMA RoleChange ==
  ASSUME RequestsOK, RequestsOK', RoleInv, NEW a \in Accounts,
         \A b \in Accounts \ {a} :
            /\ accountRole'[b] = accountRole[b]
            /\ \A f \in Fact : cached'[f][b] \in {Miss, cached[f][b]}
            /\ Excused(b) => Excused(b)',
         \/ Excused(a)'
         \/ /\ \A f \in Fact : cached'[f][a] = Miss
            /\ ~ReadInFlight(a),
         \A q \in Requests : request'[q].at = "store" => request'[q] = request[q]
  PROVE  RoleInv'
<1>1. \A b \in Accounts, f \in Fact : cached'[f][b] \in {Miss, accountRole'[b]} \/ Excused(b)'
  BY DEF RoleInv
<1>2. ASSUME NEW q \in Requests, request'[q].at = "store"
      PROVE  (request[q].held = accountRole[request[q].by] \/ Excused(request[q].by))'
  <2>1. request'[q] = request[q] /\ request[q].by \in Accounts
    BY <1>2 DEF RequestsOK, RequestRecord
  <2>2. PICK b \in Accounts : b = request[q].by
    BY <2>1
  <2>3. request[q].held = accountRole[b] \/ Excused(b)
    BY <1>2, <2>1, <2>2 DEF RoleInv
  <2>4. b = a => Excused(a)'
    BY <1>2, <2>1, <2>2 DEF ReadInFlight
  <2>5. request[q].held = accountRole'[b] \/ Excused(b)'
    BY <2>3, <2>4
  <2> QED BY <2>1, <2>2, <2>5 DEF Excused, Writing
<1> QED BY <1>1, <1>2 DEF RoleInv

(* A transaction that commits had invalidated the pages it ages.           *)
LEMMA CommitsStale ==
  ASSUME WorkspaceInv, WorkspaceInv', StaleInv, NEW r \in Requests,
         CommitInvite(r) \/ CommitAccept(r) \/ CommitReject(r)
  PROVE  StaleInv'
<1> DEFINE req == request[r]
           ps  == Ages(req.op)
           a   == req.by
<1>1. /\ RequestsOK /\ RequestsOK' /\ PagesOK /\ RolesOK
      /\ ps \in SUBSET Pages /\ a \in Accounts /\ req.at = "commit"
  BY DEF WorkspaceInv, RequestsOK, RequestRecord, Ages, Pages, CommitInvite, CommitAccept,
     CommitReject, At
<1>2. /\ page' = Aged(ps) /\ cached' = cached /\ raced \subseteq raced'
      /\ \E n : Takes(ps, r, [Idle EXCEPT !.reply = n])
  BY DEF CommitInvite, CommitAccept, CommitReject, At, Ages, roleVars, Takes
<1>3. /\ request'[r].at = "idle"
      /\ \A q \in Requests \ {r} :
            /\ request'[q] = AgedReaders(ps)[q]
            /\ request'[q].at = request[q].at /\ request'[q].target = request[q].target
            /\ request[q].at # "storePage" => request'[q] = request[q]
  <2>1. PICK n : Takes(ps, r, [Idle EXCEPT !.reply = n])
    BY <1>2
  <2> DEFINE new == [Idle EXCEPT !.reply = n]
  <2>2. Takes(ps, r, new) /\ new.at = "idle"
    BY <2>1 DEF Idle
  <2> HIDE DEF new, ps
  <2> QED BY SMTT(30), <1>1, <2>2, AgedMoves
<1>4. PageInv'
  <2>1. \A p \in ps : page[p] # Miss \/ InFlight(p) => p \in raced
    BY <1>1 DEF StaleInv, PageInv
  <2> QED BY <1>1, <1>2, <1>3, <2>1, AgedPages DEF StaleInv
<1>5. \A q \in Requests : request'[q].at = "store" => request'[q] = request[q]
  BY <1>3
<1>6. \A q \in Requests, b \in Accounts : Writing(q, b) => Writing(q, b)'
  BY <1>1, <1>3 DEF Writing
<1>7. CASE UNCHANGED accountRole
  BY <1>1, <1>2, <1>4, <1>5, <1>6, <1>7, RoleFrame DEF StaleInv
<1>8. CASE CommitAccept(r)
  <2>1. PICK b \in Accounts : b = a
    BY <1>1
  <2>2. /\ RoleKept(b) => b \in raced'
        /\ \A c \in Accounts \ {b} : accountRole'[c] = accountRole[c]
    BY <1>1, <1>8, <2>1 DEF CommitAccept, RolesOK
  <2>3. \A c \in Accounts : Excused(c) => Excused(c)'
    BY <1>2, <1>6 DEF Excused
  <2>4. Excused(b)' \/ ((\A f \in Fact : cached'[f][b] = Miss) /\ ~ReadInFlight(b))
    BY <1>2, <2>2 DEF RoleKept, Excused
  <2>5. RoleInv'
    BY <1>1, <1>2, <1>5, <2>2, <2>3, <2>4, RoleChange DEF StaleInv
  <2> QED BY <1>4, <2>5 DEF StaleInv
<1> QED BY <1>7, <1>8 DEF CommitInvite, CommitReject, roleVars

LEMMA WriteMemberStale ==
  ASSUME WorkspaceInv, WorkspaceInv', StaleInv, NEW r \in Requests, WriteMember(r)
  PROVE  StaleInv'
<1> DEFINE req == request[r]
           ps  == {"members"}
<1> PICK a \in Accounts : a = request[r].target
  BY DEF WorkspaceInv, RequestsOK, RequestRecord
<1>1. /\ RequestsOK /\ RequestsOK' /\ PagesOK /\ RolesOK /\ UNCHANGED <<cached, raced>>
      /\ ps \in SUBSET Pages /\ req.at = "write" /\ req \in RequestRecord
  BY DEF WorkspaceInv, RequestsOK, RequestRecord, Pages, WriteMember, At
<1>2. CASE Goto(r, "roles") /\ UNCHANGED <<accountRole, page>>
  <2>1. /\ \A q \in Requests \ {r} : request'[q] = request[q]
        /\ request'[r].at = "roles"
    BY <1>1, <1>2, GotoMoves
  <2>2. RoleInv'
    <3>1. \A q \in Requests, b \in Accounts : Writing(q, b) => Writing(q, b)'
      BY <1>1, <2>1 DEF Writing
    <3>2. \A q \in Requests : request'[q].at = "store" => request'[q] = request[q]
      BY <2>1
    <3> QED BY <1>1, <1>2, <3>1, <3>2, RoleFrame DEF StaleInv
  <2>3. PageInv'
    BY <1>1, <1>2, <2>1, PageFrame DEF StaleInv
  <2> QED BY <2>2, <2>3 DEF StaleInv
<1>3. CASE /\ accountRole' = [accountRole EXCEPT ![a] = req.grant]
           /\ page' = Aged(ps)
           /\ request' = [AgedReaders(ps) EXCEPT ![r].at = "pages"]
  <2>1. AgedReaders(ps)[r] = req
    BY <1>1 DEF AgedReaders
  <2> DEFINE new == [req EXCEPT !.at = "pages"]
  <2>2. Takes(ps, r, new)
    BY <1>3, <2>1 DEF Takes
  <2>3. new.at = "pages" /\ new.target = a
    BY <1>1 DEF RequestRecord
  <2> HIDE DEF new
  <2>4. /\ request'[r].at = "pages" /\ request'[r].target = a
        /\ \A q \in Requests \ {r} :
            /\ request'[q] = AgedReaders(ps)[q]
            /\ request'[q].at = request[q].at /\ request'[q].target = request[q].target
            /\ request[q].at # "storePage" => request'[q] = request[q]
    BY <1>1, <2>2, <2>3, AgedMoves
  <2>5. PageInv'
    BY <1>1, <1>3, <2>4, AgedPages DEF StaleInv
  <2>6. \A q \in Requests, b \in Accounts : Writing(q, b) => Writing(q, b)'
    BY <1>1, <2>4 DEF Writing
  <2>7. Excused(a)' /\ \A b \in Accounts : Excused(b) => Excused(b)'
    BY <1>1, <2>4, <2>6 DEF Excused, Writing
  <2>8. \A q \in Requests : request'[q].at = "store" => request'[q] = request[q]
    BY <2>4
  <2>9. RoleInv'
    BY <1>1, <1>3, <2>7, <2>8, RoleChange DEF StaleInv, RolesOK
  <2> QED BY <2>5, <2>9 DEF StaleInv
<1> QED BY <1>2, <1>3 DEF WriteMember

LEMMA InvalidateRolesStale ==
  ASSUME WorkspaceInv, WorkspaceInv', StaleInv, NEW r \in Requests, InvalidateRoles(r)
  PROVE  StaleInv'
<1> PICK a \in Accounts : a = request[r].target
  BY DEF WorkspaceInv, RequestsOK, RequestRecord
<1>1. /\ RequestsOK /\ RequestsOK' /\ RolesOK /\ UNCHANGED <<accountRole, page>>
      /\ request[r].at = "roles"
  BY DEF WorkspaceInv, RequestsOK, RequestRecord, InvalidateRoles
<1>2. PICK left \in SUBSET Fact :
        /\ cached' = [f \in Fact |-> IF f \in left THEN cached[f]
                                     ELSE [cached[f] EXCEPT ![a] = Miss]]
        /\ raced' = IF left # {} \/ ReadInFlight(a) THEN raced \cup {a} ELSE raced \ {a}
  BY DEF InvalidateRoles, Invalidate
<1>3. /\ \A q \in Requests \ {r} : request'[q] = request[q]
      /\ request'[r].at = "idle"
  BY <1>1, ReplyMoves DEF InvalidateRoles, Reply
<1>4. \A f \in Fact : /\ \A b \in Accounts \ {a} : cached'[f][b] = cached[f][b]
                      /\ f \notin left => cached'[f][a] = Miss
  BY <1>1, <1>2 DEF RolesOK
<1>5. \/ Excused(a)'
      \/ (\A f \in Fact : cached'[f][a] = Miss) /\ ~ReadInFlight(a)
  BY <1>2, <1>4 DEF Excused
<1>6. \A b \in Accounts \ {a} : Excused(b) => Excused(b)'
  BY <1>2, <1>3 DEF Excused, Writing
<1>7. \A q \in Requests : request'[q].at = "store" => request'[q] = request[q]
  BY <1>3
<1>8. RoleInv'
  BY <1>1, <1>4, <1>5, <1>6, <1>7, RoleChange DEF StaleInv
<1>9. PageInv'
  <2>1. \A p \in Pages : p \in raced => p \in raced'
    BY <1>1, <1>2, NamesAssumption
  <2> QED BY <1>1, <1>3, <2>1, PageFrame DEF StaleInv
<1> QED BY <1>8, <1>9 DEF StaleInv

LEMMA DieStale ==
  ASSUME WorkspaceInv, WorkspaceInv', StaleInv, NEW r \in Requests, Die(r)
  PROVE  StaleInv'
<1> DEFINE req == request[r]
<1> PICK a \in Accounts : a = request[r].target
  BY DEF WorkspaceInv, RequestsOK, RequestRecord
<1>1. /\ RequestsOK /\ RequestsOK' /\ UNCHANGED <<accountRole, cached, page>>
  BY DEF WorkspaceInv, RequestsOK, RequestRecord, Die, roleVars
<1>2. /\ \A q \in Requests \ {r} : request'[q] = request[q]
      /\ request'[r].at = "idle"
  BY <1>1, ReplyMoves DEF Die, Refuse
<1>3. /\ raced \subseteq raced'
      /\ req.at = "pages" /\ (page["members"] # Miss \/ InFlight("members")) =>
            "members" \in raced'
      /\ req.at \in {"pages", "roles"} /\ RoleKept(a) => a \in raced'
  BY DEF Die, PagesInFlight, InFlight
<1>4. \A q \in Requests : request'[q].at = "store" => request'[q] = request[q]
  BY <1>2
<1>5. RoleInv'
  <2>1. \A b \in Accounts \ {a} : Excused(b) => Excused(b)'
    BY <1>2, <1>3 DEF Excused, Writing
  <2>2. CASE ~RoleKept(a)
    <3>1. (\A f \in Fact : cached'[f][a] = Miss) /\ ~ReadInFlight(a)
      BY <1>1, <2>2 DEF RoleKept
    <3> QED BY <1>1, <1>4, <2>1, <3>1, RoleChange DEF StaleInv
  <2>3. CASE RoleKept(a)
    <3>1. \A b \in Accounts : Excused(b) => Excused(b)'
      BY <1>2, <1>3, <2>1, <2>3 DEF Excused, Writing
    <3>2. \A b \in Accounts, f \in Fact :
            cached'[f][b] \in {Miss, accountRole'[b]} \/ Excused(b)'
      BY <1>1, <3>1 DEF StaleInv, RoleInv
    <3>3. ASSUME NEW q \in Requests, request'[q].at = "store"
          PROVE  (request[q].held = accountRole[request[q].by] \/ Excused(request[q].by))'
      <4>1. request'[q] = request[q] /\ request[q].by \in Accounts
        BY <1>1, <1>4, <3>3 DEF RequestsOK, RequestRecord
      <4>2. PICK b \in Accounts : b = request[q].by
        BY <4>1
      <4>3. request[q].held = accountRole'[b] \/ Excused(b)'
        BY <1>1, <3>1, <3>3, <4>1, <4>2 DEF StaleInv, RoleInv
      <4> QED BY <4>1, <4>2, <4>3 DEF Excused, Writing
    <3> QED BY <3>2, <3>3 DEF RoleInv
  <2> QED BY <2>2, <2>3
<1>6. \A p : InFlight(p)' => InFlight(p)
  BY <1>2 DEF InFlight
<1>7. \A p \in Pages : PageExcused(p) /\ (page[p] # Miss \/ InFlight(p)) => PageExcused(p)'
  BY <1>2, <1>3 DEF PageExcused
<1>8. PageInv'
  <2>1. \A p \in Pages : page'[p] = "stale" => PageExcused(p)'
    BY <1>1, <1>7 DEF StaleInv, PageInv, Miss
  <2>2. ASSUME NEW q \in Requests, request'[q].at = "storePage", request'[q].held = "stale"
        PROVE  PageExcused(PageOf[request[q].op])' /\ request'[q] = request[q]
    <3> DEFINE p == PageOf[request[q].op]
    <3>1. request'[q] = request[q] /\ p \in Pages /\ InFlight(p)
      BY <1>1, <1>2, <2>2 DEF RequestsOK, Good, OpsAt, PageOf, Pages, InFlight
    <3>2. PageExcused(p)
      BY <2>2, <3>1 DEF StaleInv, PageInv
    <3>3. \A x \in Pages : x = p => PageExcused(x)'
      BY <1>7, <3>1, <3>2
    <3> QED BY <3>1, <3>3 DEF PageExcused
  <2>3. ASSUME NEW q \in Requests, request'[q].at = "commit",
               NEW p \in Ages(request'[q].op), page'[p] # Miss \/ InFlight(p)'
        PROVE  p \in raced'
    <3>1. request'[q] = request[q]
      BY <1>2, <2>3
    <3>2. page[p] # Miss \/ InFlight(p)
      BY <1>1, <1>6, <2>3
    <3> QED BY <1>3, <2>3, <3>1, <3>2 DEF StaleInv, PageInv
  <2> QED BY <2>1, <2>2, <2>3 DEF PageInv, PageExcused
<1> QED BY <1>5, <1>8 DEF StaleInv

LEMMA StaleStep == WorkspaceInv /\ WorkspaceInv' /\ StaleInv /\ [Next]_vars => StaleInv'
<1> SUFFICES ASSUME WorkspaceInv, WorkspaceInv', StaleInv, [Next]_vars PROVE StaleInv'
  OBVIOUS
<1>1. RequestsOK /\ RequestsOK' /\ RolesOK /\ PagesOK
  BY DEF WorkspaceInv
<1>2. ASSUME NEW r \in Requests, Client(r) PROVE StaleInv'
  <2>1. /\ \A q \in Requests \ {r} : request'[q] = request[q]
        /\ Settled(request'[r].at)
    BY <1>1, <1>2, ClientMoves DEF Settled
  <2>2. request[r].at = "idle"
    BY <1>2 DEF Client, IsIdle
  <2>3. \E op, a, fields : Arrive(r, op, a, fields)
    BY <1>2 DEF Client, Ask, AskToInvite, AskToRespond, AskAboutMember
  <2>4. UNCHANGED <<accountRole, raced, cached, page>>
    BY <2>3 DEF Arrive, roleVars
  <2> QED BY <1>1, <2>1, <2>2, <2>4, SettledStep
<1>3. ASSUME NEW r \in Requests, Handler(r) PROVE StaleInv'
  BY <1>3, MiddlewaresStale, AnswersStale, ReadersStale, WritesStale, CommitsStale,
     WriteMemberStale, InvalidateRolesStale DEF Handler
<1>4. ASSUME NEW r \in Requests, Die(r) PROVE StaleInv'
  BY <1>4, DieStale
<1>5. CASE Expire \/ (\E i \in Invites : Elapse(i)) \/ UNCHANGED vars
  <2>1. UNCHANGED <<accountRole, raced, request>>
    BY <1>5 DEF Expire, CacheExpire, ExpirePage, Elapse, vars, roleVars
  <2>2. \A b \in Accounts, g \in Fact : cached'[g][b] \in {Miss, cached[g][b]}
    BY <1>1, <1>5 DEF Expire, CacheExpire, ExpirePage, Elapse, vars, roleVars, RolesOK
  <2>3. \A p \in Pages : page'[p] \in {Miss, page[p]}
    BY <1>1, <1>5 DEF Expire, CacheExpire, ExpirePage, Elapse, vars, PagesOK
  <2> QED BY <1>1, <2>1, <2>2, <2>3, SettledStep
<1> QED BY <1>2, <1>3, <1>4, <1>5 DEF Next

LEMMA StaleAlways == Spec => []StaleInv
<1>1. Init => StaleInv
  <2> SUFFICES ASSUME Init PROVE StaleInv
    OBVIOUS
  <2>1. /\ \A f \in Fact, a \in Accounts : cached[f][a] = Miss
        /\ \A r \in Requests : request[r].at = "idle"
        /\ \A p \in Pages : page[p] = Miss
    BY DEF Init, Idle
  <2> QED BY <2>1 DEF StaleInv, RoleInv, PageInv, Miss
<1>2. WorkspaceInv /\ WorkspaceInv' /\ StaleInv /\ [Next]_vars => StaleInv'
  BY StaleStep
<1> QED BY <1>1, <1>2, InvAlways, PTL DEF Spec

(* Whatever the interleaving, a cached role differs from the row only for  *)
(* a reason: a command between its write and AccountRoleCacheRepository's  *)
(* invalidate, a reader that raced with it, a failed call.                 *)
THEOREM RolesGoStaleForACause == Spec => []RoleStaleHasACause
<1>1. StaleInv => RoleStaleHasACause
  BY DEF StaleInv, RoleInv, RoleStaleHasACause, Excused
<1> QED BY <1>1, StaleAlways, PTL

(* And so does a cached page of members or invites: the invalidations      *)
(* inside the transactions of DrizzleWorkspaceInviteRepository miss none.  *)
THEOREM PagesGoStaleForACause == Spec => []PageStaleHasACause
<1>1. StaleInv => PageStaleHasACause
  BY DEF StaleInv, PageInv, PageStaleHasACause, PageExcused
<1> QED BY <1>1, StaleAlways, PTL
-----------------------------------------------------------------------------
(* Open invites of one account.                                            *)

Live(a) == {i \in Invites : IsLive(i, a)}

Inviting(a) == {r \in Requests : AboutToInvite(r, a)}

LEMMA AgedInviters ==
  ASSUME RequestsOK, NEW ps \in SUBSET Pages, NEW r \in Requests, NEW x,
         x.at \in {"idle", "pages"}, Takes(ps, r, x)
  PROVE  /\ \A q \in Requests \ {r} :
               request'[q].at \in {"insert", "commit"} => request'[q] = request[q]
         /\ request'[r].at \in {"idle", "pages"}
BY AgedMoves

LEMMA CommitInviters ==
  ASSUME RequestsOK, NEW r \in Requests, CommitInvite(r) \/ CommitAccept(r) \/ CommitReject(r)
  PROVE  /\ \A q \in Requests \ {r} :
               request'[q].at \in {"insert", "commit"} => request'[q] = request[q]
         /\ request'[r].at \in {"idle", "pages"}
<1>1. PICK ps \in SUBSET Pages, n \in {InviteMemberController.status.ok,
                                      RespondToInviteController.status.ok} :
        request' = [AgedReaders(ps) EXCEPT ![r] = [Idle EXCEPT !.reply = n]]
  <2>1. CASE CommitInvite(r)
    BY <2>1 DEF CommitInvite, Pages
  <2>2. CASE CommitAccept(r)
    BY <2>2 DEF CommitAccept
  <2>3. CASE CommitReject(r)
    BY <2>3 DEF CommitReject, Pages
  <2> QED BY <2>1, <2>2, <2>3
<1> DEFINE new == [Idle EXCEPT !.reply = n]
<1>2. Takes(ps, r, new) /\ new.at \in {"idle", "pages"}
  BY <1>1 DEF Idle, Takes
<1> HIDE DEF new
<1> QED BY <1>2, AgedInviters

(* Only findPendingByEmailAndWorkspace sends a request on to invite.       *)
LEMMA InvitersMove ==
  ASSUME WorkspaceInv, NEW r \in Requests, Client(r) \/ Handler(r) \/ Die(r)
  PROVE  /\ \A q \in Requests \ {r} :
               request'[q].at \in {"insert", "commit"} => request'[q] = request[q]
         /\ \/ request'[r].at \notin {"insert", "commit"}
            \/ \E at \in {"insert", "commit"} : /\ Goto(r, at)
                                                /\ at = "insert" => FindPending(r)
                                                /\ at = "commit" => \/ request[r].at = "insert"
                                                                    \/ request[r].op # "invite"
<1> DEFINE others == \A q \in Requests \ {r} :
                       request'[q].at \in {"insert", "commit"} => request'[q] = request[q]
           clear  == request'[r].at \notin {"insert", "commit"}
<1>1. RequestsOK
  BY DEF WorkspaceInv
<1>2. ASSUME NEW result, Reply(r, result) PROVE others /\ clear
  BY <1>1, <1>2, ReplyMoves DEF Reply
<1>3. ASSUME NEW at, Goto(r, at) PROVE others /\ (at \notin {"insert", "commit"} => clear)
  BY <1>1, <1>3, GotoMoves
<1>4. ASSUME Client(r) PROVE others /\ clear
  BY <1>1, <1>4, ClientMoves
<1>5. ASSUME Middlewares(r) PROVE others /\ clear
  <2>1. \/ Goto(r, "query")
        \/ \E fact, role : request[r].at \in {"lookup", "query", "store"} /\ Looked(r, fact, role)
        \/ request' = [request EXCEPT ![r].at = "store", ![r].held = accountRole[request[r].by]]
    BY <1>5 DEF Middlewares, CacheGet, RowQuery, CacheSet
  <2>2. ASSUME request' = [request EXCEPT ![r].at = "store",
                              ![r].held = accountRole[request[r].by]]
        PROVE  others /\ clear
    BY <1>1, <2>2 DEF RequestsOK, RequestRecord
  <2> QED BY <1>1, <1>3, <2>1, <2>2, LookedMoves
<1>6. ASSUME \/ GetWorkspace(r) \/ GetMyMembership(r) \/ ListMyWorkspaces(r) \/ ListMyInvites(r)
             \/ GetPage(r) \/ StorePage(r) \/ ExistsByEmail(r) \/ FindInvite(r) \/ FindMember(r)
             \/ InvalidateMembers(r) \/ InvalidateRoles(r)
      PROVE  others /\ clear
  <2>1. \/ \E result : Reply(r, result)
        \/ \E at \in {"queryPage", "pending", "write", "roles"} : Goto(r, at)
    BY <1>6 DEF GetWorkspace, GetMyMembership, ListMyWorkspaces, ListMyInvites, Answer, GetPage,
       StorePage, ExistsByEmail, FindInvite, FindMember, InvalidateMembers, InvalidateRoles
  <2> QED BY <1>2, <1>3, <2>1
<1>7. ASSUME QueryPage(r) PROVE others /\ clear
  BY <1>1, <1>7 DEF QueryPage, RequestsOK, RequestRecord
<1>8. ASSUME CommitInvite(r) \/ CommitAccept(r) \/ CommitReject(r) PROVE others /\ clear
  BY <1>1, <1>8, CommitInviters
<1>9. ASSUME WriteMember(r) PROVE others /\ clear
  <2>1. request[r].at = "write" /\ request[r] \in RequestRecord
    BY <1>1, <1>9 DEF WriteMember, At, RequestsOK
  <2>2. Goto(r, "roles") \/ request' = [AgedReaders({"members"}) EXCEPT ![r].at = "pages"]
    BY <1>9 DEF WriteMember
  <2>3. ASSUME request' = [AgedReaders({"members"}) EXCEPT ![r].at = "pages"]
        PROVE  others /\ clear
    <3>1. AgedReaders({"members"})[r] = request[r]
      BY <2>1 DEF AgedReaders
    <3> DEFINE new == [request[r] EXCEPT !.at = "pages"]
    <3>2. Takes({"members"}, r, new)
      BY <2>3, <3>1 DEF Takes
    <3>3. new.at = "pages" /\ {"members"} \in SUBSET Pages
      BY <2>1 DEF RequestRecord, Pages
    <3> HIDE DEF new
    <3> QED BY SMTT(30), <1>1, <3>2, <3>3, AgedInviters
  <2> QED BY <1>3, <2>2, <2>3
<1>10. ASSUME Die(r) PROVE others /\ clear
  <2>1. \A q \in Requests \ {r} : request'[q] = request[q]
    BY <1>1, <1>10 DEF Die, Refuse, RequestsOK
  <2>2. request'[r].at = "idle"
    BY <1>1, <1>10 DEF Die, Refuse, RequestsOK, Idle
  <2> QED BY <2>1, <2>2
<1>11. CASE FindPending(r)
  <2>1. (\E result : Reply(r, result)) \/ Goto(r, "insert")
    BY <1>11 DEF FindPending
  <2> QED BY <1>2, <1>3, <1>11, <2>1
<1>12. CASE InsertInvite(r)
  BY <1>3, <1>12 DEF InsertInvite
<1>13. CASE AcceptWrite(r) \/ RejectWrite(r)
  <2>1. (\E result : Reply(r, result)) \/ (Goto(r, "commit") /\ request[r].op # "invite")
    BY <1>13 DEF AcceptWrite, RejectWrite, At
  <2> QED BY <1>2, <1>3, <2>1
<1> QED BY <1>4, <1>5, <1>6, <1>7, <1>8, <1>9, <1>10, <1>11, <1>12, <1>13 DEF Handler

LEMMA OpenFinite ==
  \A a : IsFiniteSet(Live(a)) /\ IsFiniteSet(Inviting(a))
<1>1. IsFiniteSet(Invites)
  BY BoundsAssumption, FS_Interval DEF Invites
<1> QED BY <1>1, RequestsAssumption, FS_Subset DEF Live, Inviting

LEMMA BoundStep == WorkspaceInv /\ LivePendingBounded /\ [Next]_vars => LivePendingBounded'
<1> SUFFICES ASSUME WorkspaceInv, LivePendingBounded, [Next]_vars, NEW a \in Accounts
             PROVE  Cardinality(Live(a)') + Cardinality(Inviting(a)') <= Cardinality(Requests)
  BY DEF LivePendingBounded, Live, Inviting
<1>1. /\ Cardinality(Live(a)) + Cardinality(Inviting(a)) <= Cardinality(Requests)
      /\ IsFiniteSet(Live(a)) /\ IsFiniteSet(Inviting(a))
      /\ Cardinality(Live(a)) \in Nat /\ Cardinality(Inviting(a)) \in Nat
      /\ Cardinality(Requests) \in Nat
  BY OpenFinite, RequestsAssumption, FS_CardinalityType DEF LivePendingBounded, Live, Inviting
<1>2. ASSUME Live(a)' \subseteq Live(a), Inviting(a)' \subseteq Inviting(a)
      PROVE  Cardinality(Live(a)') + Cardinality(Inviting(a)') <= Cardinality(Requests)
  <2>1. /\ Cardinality(Live(a)') \in Nat /\ Cardinality(Live(a)') <= Cardinality(Live(a))
        /\ Cardinality(Inviting(a)') \in Nat
        /\ Cardinality(Inviting(a)') <= Cardinality(Inviting(a))
    BY <1>1, <1>2, FS_Subset, FS_CardinalityType
  <2> QED BY <1>1, <2>1
<1>3. UNCHANGED inviteVars => Live(a)' = Live(a)
  BY DEF inviteVars, Live, IsLive, IsPending
<1>4. CASE \E r \in Requests : FindPending(r) /\ Goto(r, "insert") /\ request[r].target = a
  <2>0. PICK r \in Requests : FindPending(r) /\ Goto(r, "insert") /\ request[r].target = a
    BY <1>4
  <2>1. Live(a)' = {} /\ Live(a) = {}
    <3>1. RequestsOK /\ request'[r].at = "insert"
      BY <2>0, GotoMoves DEF WorkspaceInv
    <3>2. ~ \E result : Reply(r, result)
      BY <3>1, ReplyMoves DEF Reply
    <3>3. ~ \E i \in Invites : IsLive(i, a)
      BY <2>0, <3>2 DEF FindPending
    <3> QED BY <1>3, <2>0, <3>3 DEF FindPending, Live
  <2>2. Cardinality(Live(a)') = 0
    BY <2>1, FS_EmptySet
  <2>3. Inviting(a)' \subseteq Requests
    BY DEF Inviting
  <2>4. Cardinality(Inviting(a)') \in Nat /\ Cardinality(Inviting(a)') <= Cardinality(Requests)
    BY <2>3, RequestsAssumption, FS_Subset, FS_CardinalityType
  <2> QED BY <1>1, <2>2, <2>4
<1>5. \/ Inviting(a)' \subseteq Inviting(a)
      \/ \E r \in Requests : FindPending(r) /\ Goto(r, "insert") /\ request[r].target = a
  <2>1. CASE request' = request
    BY <2>1 DEF Inviting, AboutToInvite
  <2>2. ASSUME NEW r \in Requests, Client(r) \/ Handler(r) \/ Die(r),
               ~(FindPending(r) /\ Goto(r, "insert") /\ request[r].target = a)
        PROVE  Inviting(a)' \subseteq Inviting(a)
    <3>1. RequestsOK
      BY DEF WorkspaceInv
    <3>2. \A q \in Requests \ {r} : AboutToInvite(q, a)' => AboutToInvite(q, a)
      BY <2>2, InvitersMove DEF AboutToInvite
    <3>3. AboutToInvite(r, a)' => AboutToInvite(r, a)
      <4>1. CASE request'[r].at \notin {"insert", "commit"}
        BY <4>1 DEF AboutToInvite
      <4>2. CASE \E at \in {"insert", "commit"} :
                   /\ Goto(r, at)
                   /\ at = "insert" => FindPending(r)
                   /\ at = "commit" => request[r].at = "insert" \/ request[r].op # "invite"
        BY <2>2, <3>1, <4>2, GotoMoves DEF AboutToInvite
      <4> QED BY <2>2, <4>1, <4>2, InvitersMove
    <3> QED BY <3>2, <3>3 DEF Inviting
  <2>3. (\E r \in Requests : Client(r) \/ Handler(r) \/ Die(r)) \/ request' = request
    BY DEF Next, Expire, CacheExpire, ExpirePage, Elapse, vars
  <2> QED BY <2>1, <2>2, <2>3
<1>6. ASSUME NEW r \in Requests, CommitInvite(r)
      PROVE  Cardinality(Live(a)') + Cardinality(Inviting(a)') <= Cardinality(Requests)
  <2> DEFINE b == request[r].target
  <2>1. PICK i \in Invites :
          /\ invite[i].status = "unsent"
          /\ invite' = [invite EXCEPT ![i] = [NoInvite EXCEPT
                          !.status = "pending", !.to = b, !.role = request[r].grant]]
    <3>1. \A i \in Invites : i >= i
      BY DEF Invites
    <3> QED BY <1>6, <3>1 DEF CommitInvite
  <2>2. invite'[i].to = b /\ \A j \in Invites \ {i} : invite'[j] = invite[j]
    BY <2>1 DEF WorkspaceInv, InvitesOK, NoInvite
  <2>3. Inviting(a)' \subseteq Inviting(a) \ {r}
    <3>1. request'[r].at \in {"idle", "pages"}
      BY <1>6, CommitInviters DEF WorkspaceInv
    <3>2. \A q \in Requests \ {r} : AboutToInvite(q, a)' => AboutToInvite(q, a)
      BY <1>6, InvitersMove DEF Handler, AboutToInvite
    <3> QED BY <3>1, <3>2 DEF Inviting, AboutToInvite
  <2>4. CASE b = a
    <3>1. Live(a)' \subseteq Live(a) \cup {i} /\ i \notin Live(a)
      BY <2>1, <2>2 DEF Live, IsLive, IsPending
    <3>2. r \in Inviting(a)
      BY <1>6, <2>4 DEF CommitInvite, At, Inviting, AboutToInvite
    <3>3. /\ IsFiniteSet(Live(a) \cup {i})
          /\ Cardinality(Live(a) \cup {i}) = Cardinality(Live(a)) + 1
      BY <1>1, <3>1, FS_AddElement
    <3>4. /\ IsFiniteSet(Inviting(a) \ {r})
          /\ Cardinality(Inviting(a) \ {r}) = Cardinality(Inviting(a)) - 1
      BY <1>1, <3>2, FS_RemoveElement
    <3>5. /\ Cardinality(Live(a)') \in Nat /\ Cardinality(Live(a)') <= Cardinality(Live(a)) + 1
          /\ Cardinality(Inviting(a)') \in Nat
          /\ Cardinality(Inviting(a)') <= Cardinality(Inviting(a)) - 1
      BY <2>3, <3>1, <3>3, <3>4, FS_Subset, FS_CardinalityType
    <3> QED BY <1>1, <3>5
  <2>5. CASE b # a
    <3>1. Live(a)' \subseteq Live(a)
      BY <2>2, <2>5 DEF Live, IsLive, IsPending
    <3> QED BY <1>2, <2>3, <3>1
  <2> QED BY <2>4, <2>5
<1>7. ASSUME NEW r \in Requests, CommitAccept(r) \/ CommitReject(r) PROVE Live(a)' \subseteq Live(a)
  <2>1. \E answer \in {"accepted", "rejected"} :
          invite' = [invite EXCEPT ![request[r].subject].status = answer]
    BY <1>7 DEF CommitAccept, CommitReject
  <2>2. \A i \in Invites : invite'[i] = invite[i] \/ invite'[i].status \in {"accepted", "rejected"}
    BY <2>1 DEF WorkspaceInv, InvitesOK
  <2> QED BY <2>2 DEF Live, IsLive, IsPending
<1>8. ASSUME NEW i \in Invites, Elapse(i) PROVE Live(a)' \subseteq Live(a)
  <2>1. invite'[i].expired /\ \A j \in Invites \ {i} : invite'[j] = invite[j]
    BY <1>8 DEF Elapse, WorkspaceInv, InvitesOK
  <2> QED BY <2>1 DEF Live, IsLive, IsPending
<1> QED BY <1>2, <1>3, <1>4, <1>5, <1>6, <1>7, <1>8, InvitesChange

(* An account never has more open invites than the API serves requests at  *)
(* once, for any number of them: findPendingByEmailAndWorkspace lets       *)
(* racing requests of InviteMemberHandler through, and no later one.       *)
THEOREM OpenInvitesBounded == Spec => []LivePendingBounded
<1>1. Init => LivePendingBounded
  <2> SUFFICES ASSUME Init, NEW a \in Accounts
               PROVE  Cardinality(Live(a)) + Cardinality(Inviting(a)) <= Cardinality(Requests)
    BY DEF LivePendingBounded, Live, Inviting
  <2>1. Live(a) = {} /\ Inviting(a) = {}
    BY DEF Init, Live, IsLive, IsPending, NoInvite, Inviting, AboutToInvite, Idle
  <2> QED BY <2>1, FS_EmptySet, RequestsAssumption, FS_CardinalityType
<1>2. WorkspaceInv /\ LivePendingBounded /\ [Next]_vars => LivePendingBounded'
  BY BoundStep
<1> QED BY <1>1, <1>2, InvAlways, PTL DEF Spec
-----------------------------------------------------------------------------
(* Joins and the events that announce them.                                *)

(* Past the checks of RespondToInviteHandler, about to join.               *)
AboutToJoin(q) == request[q].op = "accept" /\ request[q].at \in {"write", "commit"}

(* Whoever is about to join has the invite in its hand sent to it.         *)
JoinsInv ==
    /\ JoinsMatchAcceptances
    /\ \A a \in Accounts : IsFiniteSet(Acceptances(a))
    /\ \A q \in Requests : AboutToJoin(q) => invite[request[q].subject].to = request[q].by

(* A request that is about to join after a step already was, or has just   *)
(* found the invite sent to it.                                            *)
JoinsOnward(q) ==
    AboutToJoin(q)' =>
        /\ request'[q].subject = request[q].subject /\ request'[q].by = request[q].by
        /\ request[q].op = "accept"
        /\ AboutToJoin(q) \/ invite[request[q].subject].to = request[q].by

LEMMA GotoWhole ==
  ASSUME RequestsOK, NEW r \in Requests, NEW at, Goto(r, at)
  PROVE  /\ \A q \in Requests \ {r} : request'[q] = request[q]
         /\ request'[r].at = at /\ request'[r].op = request[r].op
         /\ request'[r].subject = request[r].subject /\ request'[r].by = request[r].by
BY DEF RequestsOK, RequestRecord, Goto

LEMMA FoundInvite ==
  ASSUME WorkspaceInv, NEW r \in Requests, FindInvite(r), request'[r].at = "write"
  PROVE  Goto(r, "write") /\ invite[request[r].subject].to = request[r].by
<1>1. RequestsOK
  BY DEF WorkspaceInv
<1>2. ~\E result : Reply(r, result)
  BY <1>1, ReplyMoves DEF Reply
<1>3. request[r].subject \in Invites
  BY <1>1 DEF FindInvite, RequestsOK, Good, OpsAt
<1>4. invite[request[r].subject].status \in {"unsent", "pending", "accepted", "rejected"}
  BY <1>3 DEF WorkspaceInv, InvitesOK
<1> QED BY <1>2, <1>4 DEF FindInvite, IsPending

LEMMA AgedJoins ==
  ASSUME RequestsOK, NEW ps \in SUBSET Pages, NEW r \in Requests, NEW x, Takes(ps, r, x),
         x.at \notin {"write", "commit"}, NEW q \in Requests
  PROVE  JoinsOnward(q)
<1>1. CASE q = r
  <2>1. request'[q] = x
    BY SMTT(30), <1>1, AgedMoves
  <2> QED BY <2>1 DEF JoinsOnward, AboutToJoin
<1>2. CASE q # r
  <2>1. \A p \in Requests \ {r} :
          request'[p].at = request[p].at /\ (request[p].at # "storePage" => request'[p] = request[p])
    BY AgedMoves
  <2>2. request'[q].at = request[q].at /\ (request[q].at # "storePage" => request'[q] = request[q])
    BY <1>2, <2>1
  <2> QED BY <2>2 DEF JoinsOnward, AboutToJoin
<1> QED BY <1>1, <1>2

LEMMA HandlerJoins ==
  ASSUME WorkspaceInv, NEW r \in Requests, Client(r) \/ Handler(r) \/ Die(r),
         NEW q \in Requests
  PROVE  JoinsOnward(q)
<1> USE DEF JoinsOnward, AboutToJoin
<1>1. RequestsOK
  BY DEF WorkspaceInv
<1>2. ASSUME NEW result, Reply(r, result) PROVE JoinsOnward(q)
  BY <1>1, <1>2, ReplyMoves DEF Reply
<1>3. ASSUME NEW at, Goto(r, at),
             \/ at \notin {"write", "commit"} \/ request[r].op # "accept"
             \/ AboutToJoin(r) \/ invite[request[r].subject].to = request[r].by
      PROVE  JoinsOnward(q)
  BY <1>1, <1>3, GotoWhole
<1>4. CASE Client(r)
  BY <1>1, <1>4, ClientMoves
<1>5. CASE Middlewares(r)
  <2>1. \/ Goto(r, "query")
        \/ \E fact, role : request[r].at \in {"lookup", "query", "store"} /\ Looked(r, fact, role)
        \/ request' = [request EXCEPT ![r].at = "store", ![r].held = accountRole[request[r].by]]
    BY <1>5 DEF Middlewares, CacheGet, RowQuery, CacheSet
  <2>2. ASSUME request' = [request EXCEPT ![r].at = "store",
                              ![r].held = accountRole[request[r].by]]
        PROVE  JoinsOnward(q)
    BY <1>1, <2>2 DEF RequestsOK, RequestRecord
  <2> QED BY <1>1, <1>3, <2>1, <2>2, LookedMoves
<1>6. CASE \/ GetWorkspace(r) \/ GetMyMembership(r) \/ ListMyWorkspaces(r) \/ ListMyInvites(r)
           \/ GetPage(r) \/ StorePage(r) \/ ExistsByEmail(r) \/ FindPending(r)
           \/ InvalidateMembers(r) \/ InvalidateRoles(r)
  <2>1. \/ \E result : Reply(r, result)
        \/ \E at \in {"queryPage", "pending", "insert", "roles"} : Goto(r, at)
    BY <1>6 DEF GetWorkspace, GetMyMembership, ListMyWorkspaces, ListMyInvites, Answer, GetPage,
       StorePage, ExistsByEmail, FindPending, InvalidateMembers, InvalidateRoles
  <2> QED BY <1>2, <1>3, <2>1
<1>7. CASE QueryPage(r)
  BY <1>1, <1>7 DEF QueryPage, RequestsOK, RequestRecord
<1>8. CASE InsertInvite(r) \/ FindMember(r)
  <2>1. request[r].op # "accept"
    BY <1>1, <1>8 DEF InsertInvite, FindMember, RequestsOK, Good, OpsAt
  <2>2. (\E result : Reply(r, result)) \/ (\E at : Goto(r, at))
    BY <1>8 DEF InsertInvite, FindMember
  <2> QED BY <1>2, <1>3, <2>1, <2>2
<1>9. CASE FindInvite(r)
  <2>1. (\E result : Reply(r, result)) \/ Goto(r, "write")
    BY <1>9 DEF FindInvite
  <2>2. ASSUME Goto(r, "write") PROVE JoinsOnward(q)
    BY <1>1, <1>3, <1>9, <2>2, GotoWhole, FoundInvite
  <2> QED BY <1>2, <2>1, <2>2
<1>10. CASE AcceptWrite(r) \/ RejectWrite(r)
  <2>1. (\E result : Reply(r, result)) \/ (Goto(r, "commit") /\ request[r].at = "write")
    BY <1>10 DEF AcceptWrite, RejectWrite, At
  <2> QED BY <1>2, <1>3, <2>1
<1>11. CASE CommitInvite(r) \/ CommitAccept(r) \/ CommitReject(r)
  <2>1. /\ \A p \in Requests \ {r} : request'[p].at = "commit" => request'[p] = request[p]
        /\ request'[r].at \in {"idle", "pages"}
    BY <1>1, <1>11, CommitInviters
  <2>p. PICK ps \in SUBSET Pages : \E x : Takes(ps, r, x)
    BY <1>11 DEF CommitInvite, CommitAccept, CommitReject, Takes, Pages
  <2>2. PICK x : Takes(ps, r, x)
    BY <2>p
  <2>3. x.at \notin {"write", "commit"}
    BY ZenonT(30), <1>1, <2>1, <2>2, AgedMoves
  <2> QED BY <1>1, <2>2, <2>3, AgedJoins
<1>12. CASE WriteMember(r)
  <2>1. request[r].op # "accept" /\ request[r].at = "write" /\ request[r] \in RequestRecord
    BY <1>1, <1>12 DEF WriteMember, At, RequestsOK
  <2>2. Goto(r, "roles") \/ request' = [AgedReaders({"members"}) EXCEPT ![r].at = "pages"]
    BY <1>12 DEF WriteMember
  <2>3. ASSUME request' = [AgedReaders({"members"}) EXCEPT ![r].at = "pages"]
        PROVE  JoinsOnward(q)
    <3>1. AgedReaders({"members"})[r] = request[r]
      BY <2>1 DEF AgedReaders
    <3> DEFINE new == [request[r] EXCEPT !.at = "pages"]
    <3>2. Takes({"members"}, r, new)
      BY <2>3, <3>1 DEF Takes
    <3>3. new.at = "pages" /\ {"members"} \in SUBSET Pages
      BY <2>1 DEF RequestRecord, Pages
    <3> HIDE DEF new
    <3> QED BY <1>1, <3>2, <3>3, AgedJoins
  <2> QED BY <1>3, <2>2, <2>3
<1>13. CASE Die(r)
  <2>1. request' = [request EXCEPT ![r] = [Idle EXCEPT !.reply = 500]]
    BY <1>13 DEF Die, Refuse
  <2>2. request'[r].at = "idle" /\ \A p \in Requests \ {r} : request'[p] = request[p]
    BY <1>1, <2>1, ReplyMoves
  <2> QED BY <2>2
<1> QED BY <1>4, <1>5, <1>6, <1>7, <1>8, <1>9, <1>10, <1>11, <1>12, <1>13 DEF Handler

(* An account gets a row when an acceptance commits and at no other time.  *)
LEMMA RowsChange ==
  ASSUME [Next]_vars
  PROVE  rowId' = rowId \/ \E r \in Requests : CommitAccept(r)
<1>1. ASSUME NEW r \in Requests, Client(r) PROVE rowId' = rowId
  BY <1>1 DEF Client, Ask, AskToInvite, AskToRespond, AskAboutMember, Arrive, roleVars
<1>2. ASSUME NEW r \in Requests, Handler(r)
      PROVE  rowId' = rowId \/ CommitAccept(r)
  BY <1>2 DEF Handler, Middlewares, CacheGet, RowQuery, CacheSet, roleVars, GetWorkspace,
     GetMyMembership, ListMyWorkspaces, ListMyInvites, Answer, GetPage, QueryPage, StorePage,
     ExistsByEmail, FindPending, InsertInvite, CommitInvite, FindInvite, AcceptWrite, RejectWrite,
     CommitReject, FindMember, WriteMember, InvalidateMembers, InvalidateRoles
<1>3. ASSUME NEW r \in Requests, Die(r) PROVE rowId' = rowId
  BY <1>3 DEF Die, roleVars
<1> QED BY <1>1, <1>2, <1>3 DEF Next, Expire, CacheExpire, ExpirePage, Elapse, vars, roleVars

LEMMA AcceptancesAre ==
  ASSUME InvitesOK, NEW a
  PROVE  Acceptances(a) = {x \in Invites \X (Nat \ {0}) :
                             invite[x[1]].to = a /\ x[2] <= sent["accepted"][x[1]]}
<1> DEFINE S == {x \in Invites \X (Nat \ {0}) :
                   invite[x[1]].to = a /\ x[2] <= sent["accepted"][x[1]]}
<1>1. \A i \in Invites : sent["accepted"][i] \in Nat
  BY DEF InvitesOK, RoutingKey
<1>2. ASSUME NEW x \in Acceptances(a) PROVE x \in S
  <2>1. PICK i \in Invites : invite[i].to = a /\ x \in {<<i, n>> : n \in 1 .. sent["accepted"][i]}
    BY <1>2 DEF Acceptances
  <2> QED BY <1>1, <2>1
<1>3. ASSUME NEW x \in S PROVE x \in Acceptances(a)
  <2>1. x[2] \in 1 .. sent["accepted"][x[1]] /\ x = <<x[1], x[2]>>
    BY <1>1, <1>3
  <2> QED BY <1>3, <2>1 DEF Acceptances
<1> QED BY <1>2, <1>3

(* Acceptances depend on these.                                            *)
LEMMA AcceptancesFrame ==
  ASSUME InvitesOK, NEW a,
         \A i \in Invites : sent'["accepted"][i] = sent["accepted"][i],
         \A i \in Invites : sent["accepted"][i] > 0 => invite'[i].to = invite[i].to
  PROVE  Acceptances(a)' = Acceptances(a)
<1>1. \A i \in Invites : sent["accepted"][i] \in Nat
  BY DEF InvitesOK, RoutingKey
<1>2. ASSUME NEW x PROVE x \in Acceptances(a)' <=> x \in Acceptances(a)
  <2>1. \A i \in Invites : x \in {<<i, n>> : n \in 1 .. sent["accepted"][i]} =>
                            invite'[i].to = invite[i].to
    BY <1>1
  <2> QED BY <2>1 DEF Acceptances, Invites
<1> QED BY <1>2

LEMMA JoinsStep == WorkspaceInv /\ EventsInv /\ JoinsInv /\ [Next]_vars => JoinsInv'
<1> SUFFICES ASSUME WorkspaceInv, EventsInv, JoinsInv, [Next]_vars PROVE JoinsInv'
  OBVIOUS
<1>1. RequestsOK /\ InvitesOK /\ InvitesOK' /\ RolesOK
  BY NextOK DEF WorkspaceInv
<1>2. \A q \in Requests : JoinsOnward(q)
  <2>1. CASE request' = request
    BY <2>1 DEF JoinsOnward, AboutToJoin
  <2> QED BY <2>1, HandlerJoins DEF Next, Expire, CacheExpire, ExpirePage, Elapse, vars
<1>3. ASSUME \A i \in Invites : invite[i].status # "unsent" => invite'[i].to = invite[i].to
      PROVE  \A q \in Requests : AboutToJoin(q)' => invite'[request'[q].subject].to = request'[q].by
  <2> SUFFICES ASSUME NEW q \in Requests, AboutToJoin(q)'
               PROVE  invite'[request'[q].subject].to = request'[q].by
    OBVIOUS
  <2>1. /\ request'[q].subject = request[q].subject /\ request'[q].by = request[q].by
        /\ request[q].op = "accept" /\ invite[request[q].subject].to = request[q].by
    BY <1>2 DEF JoinsOnward, JoinsInv
  <2>2. request[q].subject \in Invites /\ invite[request[q].subject].status # "unsent"
    BY <1>1, <2>1 DEF RequestsOK, Good, EventsInv
  <2> QED BY <1>3, <2>1, <2>2
<1>4. ASSUME \A i \in Invites : sent'["accepted"][i] = sent["accepted"][i],
             \A i \in Invites : invite[i].status # "unsent" => invite'[i].to = invite[i].to,
             rowId' = rowId
      PROVE  JoinsInv'
  <2>1. \A i \in Invites : sent["accepted"][i] > 0 => invite'[i].to = invite[i].to
    BY <1>4 DEF EventsInv, AnswersMatchEvents
  <2>2. \A a \in Accounts : Acceptances(a)' = Acceptances(a)
    BY <1>1, <1>4, <2>1, AcceptancesFrame
  <2> QED BY <1>3, <1>4, <2>2 DEF JoinsInv, JoinsMatchAcceptances
<1>5. ASSUME NEW r \in Requests, CommitAccept(r) PROVE JoinsInv'
  <2> DEFINE i == request[r].subject
             b == request[r].by
             s == sent["accepted"][i]
  <2>1. /\ i \in Invites /\ b \in Accounts /\ invite[i].to = b /\ s \in Nat
    BY <1>1, <1>5 DEF CommitAccept, At, RequestsOK, Good, RequestRecord, JoinsInv, AboutToJoin,
       InvitesOK, RoutingKey
  <2>2. /\ sent'["accepted"][i] = s + 1
        /\ \A j \in Invites \ {i} : sent'["accepted"][j] = sent["accepted"][j]
        /\ \A j \in Invites : invite'[j].to = invite[j].to
    BY <1>1, <1>5, <2>1 DEF CommitAccept, InvitesOK, RoutingKey
  <2>3. rowId'[b] = rowId[b] + 1 /\ \A a \in Accounts \ {b} : rowId'[a] = rowId[a]
    BY <1>1, <1>5, <2>1 DEF CommitAccept, RolesOK
  <2> DEFINE new == <<i, s + 1>>
  <2>4. \A a \in Accounts \ {b} : Acceptances(a)' = Acceptances(a)
    <3> SUFFICES ASSUME NEW a \in Accounts, a # b PROVE Acceptances(a)' = Acceptances(a)
      OBVIOUS
    <3>1. ASSUME NEW j \in Invites, invite[j].to = a \/ invite'[j].to = a
          PROVE  invite'[j].to = invite[j].to /\ sent'["accepted"][j] = sent["accepted"][j]
      BY <2>1, <2>2, <3>1
    <3>2. ASSUME NEW x PROVE x \in Acceptances(a)' <=> x \in Acceptances(a)
      BY <3>1 DEF Acceptances, Invites
    <3> QED BY <3>2
  <2>5. ASSUME NEW c, c = b PROVE Acceptances(c)' = Acceptances(c) \cup {new} /\ new \notin Acceptances(c)
    <3>1. \A j \in Invites : invite'[j].to = invite[j].to /\ sent["accepted"][j] \in Nat
      BY <1>1, <2>2 DEF InvitesOK, RoutingKey
    <3>2. ASSUME NEW x
          PROVE  x \in Acceptances(c)' <=> x \in Acceptances(c) \/ x = new
      <4>1. \A j \in Invites : (\E n \in 1 .. sent'["accepted"][j] : x = <<j, n>>) <=>
               (\E n \in 1 .. sent["accepted"][j] : x = <<j, n>>) \/ (j = i /\ x = new)
        BY <2>1, <2>2, <3>1
      <4> QED BY <2>1, <2>5, <3>1, <4>1 DEF Acceptances, Invites
    <3>3. new \notin Acceptances(c)
      BY <2>1 DEF Acceptances
    <3> QED BY <3>2, <3>3
  <2>6. PICK c \in Accounts : c = b
    BY <2>1
  <2>7. /\ IsFiniteSet(Acceptances(c)')
        /\ Cardinality(Acceptances(c)') = rowId'[c]
    BY <2>3, <2>5, <2>6, FS_AddElement DEF JoinsInv, JoinsMatchAcceptances
  <2>8. \A q \in Requests : AboutToJoin(q)' => invite'[request'[q].subject].to = request'[q].by
    BY <1>3, <2>2
  <2> QED BY <2>3, <2>4, <2>6, <2>7, <2>8 DEF JoinsInv, JoinsMatchAcceptances
<1>6. CASE UNCHANGED inviteVars
  <2>1. rowId' = rowId \/ \E r \in Requests : CommitAccept(r)
    BY RowsChange
  <2>2. CASE rowId' = rowId
    BY <1>4, <1>6, <2>2 DEF inviteVars
  <2> QED BY <1>5, <2>1, <2>2
<1>7. ASSUME NEW r \in Requests, CommitInvite(r) PROVE JoinsInv'
  <2>1. PICK i \in Invites :
          /\ invite[i].status = "unsent"
          /\ \A j \in Invites \ {i} : invite'[j] = invite[j]
    BY <1>1, <1>7 DEF CommitInvite, InvitesOK, Invites
  <2>2. \A j \in Invites : sent'["accepted"][j] = sent["accepted"][j]
    BY <1>1, <1>7 DEF CommitInvite, InvitesOK, RoutingKey
  <2>3. rowId' = rowId
    BY <1>7 DEF CommitInvite, roleVars
  <2> QED BY <1>4, <2>1, <2>2, <2>3
<1>8. ASSUME NEW r \in Requests, CommitReject(r) PROVE JoinsInv'
  <2>1. \A j \in Invites : invite'[j].to = invite[j].to
    BY <1>1, <1>8 DEF CommitReject, InvitesOK
  <2>2. \A j \in Invites : sent'["accepted"][j] = sent["accepted"][j]
    BY <1>1, <1>8 DEF CommitReject, InvitesOK, RoutingKey
  <2>3. rowId' = rowId
    BY <1>8 DEF CommitReject, roleVars
  <2> QED BY <1>4, <2>1, <2>2, <2>3
<1>9. ASSUME NEW i \in Invites, Elapse(i) PROVE JoinsInv'
  <2>1. \A j \in Invites : invite'[j].to = invite[j].to
    BY <1>1, <1>9 DEF Elapse, InvitesOK
  <2> QED BY <1>4, <1>9, <2>1 DEF Elapse, roleVars
<1> QED BY <1>5, <1>6, <1>7, <1>8, <1>9, InvitesChange

(* Every row an account gets after the start is announced by exactly one   *)
(* accepted event of an invite sent to it (RespondToInviteHandler.accept   *)
(* saves the member and the outbox row in one transaction), for any number *)
(* of accounts, invites and answers at once.                               *)
THEOREM JoinsAreAnnounced == Spec => []JoinsMatchAcceptances
<1>1. Init => JoinsInv
  <2> SUFFICES ASSUME Init PROVE JoinsInv OBVIOUS
  <2>1. /\ \A i \in Invites : sent["accepted"][i] = 0
        /\ \A a \in Accounts : rowId[a] = 0
        /\ \A q \in Requests : request[q].op = "none"
    BY DEF Init, RoutingKey, Idle
  <2>2. \A a \in Accounts : Acceptances(a) = {}
    BY <2>1 DEF Acceptances
  <2> QED BY <2>1, <2>2, FS_EmptySet DEF JoinsInv, JoinsMatchAcceptances, AboutToJoin
<1>2. JoinsInv => JoinsMatchAcceptances
  BY DEF JoinsInv
<1> QED BY <1>1, <1>2, JoinsStep, InvAlways, EventsAlways, PTL DEF Spec
=============================================================================
