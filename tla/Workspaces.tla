----------------------------- MODULE Workspaces -----------------------------
(***************************************************************************)
(* The members and invites of one workspace: the commands that invite,     *)
(* accept, reject, remove and change a role, run concurrently over the     *)
(* account_roles and workspace_invites tables, the two page caches, the    *)
(* role cache and the outbox.                                              *)
(* Every await of a handler is a step; a unit of work writes at one step   *)
(* and commits at another.  An account is its e-mail address.              *)
(***************************************************************************)
EXTENDS AccountRoles, FiniteSetsExt

CONSTANTS Clients,     \* bound: the operations clients issue: <<operation, requester, target>>
          Grants,      \* bound: the roles they ask for
          Newcomers,   \* the roles accounts other than the owner start with
          MaxInvites,  \* bound: workspace_invites rows
          MaxRows      \* bound: account_roles rows an account gets in one behaviour

ASSUME ClientsAssumption == Clients \subseteq Operation \X Accounts \X Accounts
ASSUME GrantsAssumption ==
    Grants \subseteq AssignableRole /\ Newcomers \subseteq AssignableRole \cup {None}
ASSUME BoundsAssumption == MaxInvites \in Nat /\ MaxRows \in Nat
ASSUME RequestsAssumption == IsFiniteSet(Requests)

VARIABLES invite,   \* the workspace_invites rows
          sent,     \* outbox rows written so far, per routing key and invite
          page      \* cached pages of members and of invites

inviteVars == <<invite, sent>>

vars == <<roleVars, request, raced, inviteVars, page>>

Invites == 1 .. MaxInvites

Pages == {"members", "invites"}

(* `raced` holds accounts and pages.                                       *)
ASSUME NamesAssumption == Accounts \cap Pages = {}

PageOf == [listMembers |-> "members", listInvites |-> "invites"]

RoutingKey == {"created", "accepted", "rejected"}

NoInvite == [status |-> "unsent", to |-> Owner, role |-> None, expired |-> FALSE]

Init ==
    /\ accountRole \in {f \in [Accounts -> Role \cup {None}] :
                          /\ f[Owner] = "owner"
                          /\ \A a \in Accounts \ {Owner} : f[a] \in Newcomers}
    /\ rowId = [a \in Accounts |-> 0]
    /\ cached = [f \in Fact |-> [a \in Accounts |-> Miss]]
    /\ request = [r \in Requests |-> Idle]
    /\ raced = {}
    /\ invite = [i \in Invites |-> NoInvite]
    /\ sent = [k \in RoutingKey |-> [i \in Invites |-> 0]]
    /\ page = [p \in Pages |-> Miss]

IsPending(i) == invite[i].status = "pending"

(* What findPendingByEmailAndWorkspace looks for.                          *)
IsLive(i, a) == IsPending(i) /\ ~invite[i].expired /\ invite[i].to = a

At(r, ops, at) == request[r].op \in ops /\ request[r].at = at

-----------------------------------------------------------------------------

(* A request arrives with a valid access token of `a`; its controller's    *)
(* middlewares come first.                                                 *)
Arrive(r, op, a, fields) ==
    LET checks == ControllerOf[op].checks
    IN  /\ <<op, a, fields.target>> \in Clients
        /\ Begin(r, [fields EXCEPT !.op = op, !.by = a, !.todo = checks,
                     !.at = IF checks = <<>> THEN FirstStep[op] ELSE "lookup"])
        /\ UNCHANGED <<roleVars, raced, inviteVars, page>>

Ask(r, a) ==
    \E op \in {"getWorkspace", "getMembership", "listWorkspaces", "listMyInvites",
               "listMembers", "listInvites"} :
        Arrive(r, op, a, Idle)

AskToInvite(r, a) ==
    \E b \in Accounts, g \in Grants :
        Arrive(r, "invite", a, [Idle EXCEPT !.target = b, !.grant = g])

(* Nothing but the e-mail check of the handler keeps another account from  *)
(* presenting the token of an invite.                                      *)
AskToRespond(r, a) ==
    \E op \in {"accept", "reject"}, i \in Invites :
        /\ invite[i].status # "unsent"
        /\ rowId[a] + Quantify(Requests, LAMBDA q : request[q].op = "accept") < MaxRows
        /\ Arrive(r, op, a, [Idle EXCEPT !.subject = i])

(* The member id in the path is the target's latest, which may be gone.    *)
AskAboutMember(r, a) ==
    \E op \in {"remove", "updateRole"}, b \in Accounts :
        \E g \in IF op = "remove" THEN {None} ELSE Grants :
            Arrive(r, op, a, [Idle EXCEPT !.target = b, !.subject = rowId[b], !.grant = g])

Middlewares(r) ==
    /\ CacheGet(r) \/ RowQuery(r) \/ CacheSet(r)
    /\ UNCHANGED <<inviteVars, page>>

(* The queries that need nothing but the facts their controller looked up, *)
(* or one SELECT of rows that no command here changes meanwhile.           *)
Answer(r, op) ==
    /\ At(r, {op}, "done")
    /\ Reply(r, "ok")
    /\ UNCHANGED <<roleVars, raced, inviteVars, page>>

GetWorkspace(r) == Answer(r, "getWorkspace")

GetMyMembership(r) == Answer(r, "getMembership")

ListMyWorkspaces(r) == Answer(r, "listWorkspaces")

ListMyInvites(r) == Answer(r, "listMyInvites")

-----------------------------------------------------------------------------

(* The paged lists: findPage, the SELECTs, storePage.                      *)
GetPage(r) ==
    /\ request[r].at = "getPage"
    /\ IF page[PageOf[request[r].op]] # Miss THEN Reply(r, "ok") ELSE Goto(r, "queryPage")
    /\ UNCHANGED <<roleVars, raced, inviteVars, page>>

(* Mutant: nothing is read.                                                *)
QueryPageUnread(r) ==
    /\ request[r].at = "queryPage"
    /\ Goto(r, "storePage")
    /\ UNCHANGED <<roleVars, raced, inviteVars, page>>

(* The pages whose rows the open transaction of an operation changes.      *)
Ages(op) == IF op = "accept" THEN Pages ELSE {"invites"}

QueryPage(r) ==
    LET p == PageOf[request[r].op]
    IN  /\ request[r].at = "queryPage"
        /\ request' = [request EXCEPT ![r].at = "storePage", ![r].held = "fresh"]
        /\ raced' = IF \E q \in Requests : request[q].at = "commit" /\ p \in Ages(request[q].op)
                    THEN raced \cup {p} ELSE raced
        /\ UNCHANGED <<roleVars, inviteVars, page>>

StorePage(r) ==
    /\ request[r].at = "storePage"
    /\ page' = [page EXCEPT ![PageOf[request[r].op]] = request[r].held]
    /\ Reply(r, "ok")
    /\ UNCHANGED <<roleVars, raced, inviteVars>>

(* What a committed write to the rows of pages `ps` does to the copies of  *)
(* them in the cache and in the hands of readers.                          *)
Aged(ps) ==
    [p \in Pages |-> IF p \in ps /\ page[p] = "fresh" THEN "stale" ELSE page[p]]

AgedReaders(ps) ==
    [q \in Requests |->
        IF request[q].at = "storePage" /\ PageOf[request[q].op] \in ps
        THEN [request[q] EXCEPT !.held = "stale"] ELSE request[q]]

PagesInFlight(ps) ==
    {p \in ps : \E q \in Requests : request[q].at = "storePage" /\ PageOf[request[q].op] = p}

(* invalidate deletes the pages by prefix and swallows a failure.          *)
InvalidatePages(ps) ==
    \E left \in IF CacheMayFail THEN {{}, {p \in ps : page[p] # Miss}} ELSE {{}} :
        /\ page' = [p \in Pages |-> IF p \in ps \ left THEN Miss ELSE page[p]]
        /\ raced' = (raced \ ps) \cup left \cup PagesInFlight(ps)

ExpirePage(p) ==
    /\ page[p] # Miss
    /\ page' = [page EXCEPT ![p] = Miss]
    /\ UNCHANGED <<roleVars, request, raced, inviteVars>>

-----------------------------------------------------------------------------

(* InviteMemberHandler.                                                    *)
ExistsByEmail(r) ==
    /\ request[r].at = "exists"
    /\ IF accountRole[request[r].target] # None
       THEN Reply(r, "AlreadyAMember") ELSE Goto(r, "pending")
    /\ UNCHANGED <<roleVars, raced, inviteVars, page>>

(* Mutant: a pending invite is not looked for.                             *)
FindPendingUnchecked(r) ==
    /\ request[r].at = "pending"
    /\ Goto(r, "insert")
    /\ UNCHANGED <<roleVars, raced, inviteVars, page>>

FindPending(r) ==
    /\ request[r].at = "pending"
    /\ IF \E i \in Invites : IsLive(i, request[r].target)
       THEN Reply(r, "InviteAlreadyPending") ELSE Goto(r, "insert")
    /\ UNCHANGED <<roleVars, raced, inviteVars, page>>

InsertInvite(r) ==
    /\ request[r].at = "insert"
    /\ InvalidatePages({"invites"})
    /\ Goto(r, "commit")
    /\ UNCHANGED <<roleVars, inviteVars>>

(* MaxInvites bounds it here.                                              *)
CommitInvite(r) ==
    LET req == request[r]
    IN  \E i \in Invites :
        /\ At(r, {"invite"}, "commit")
        /\ \A j \in Invites : invite[j].status = "unsent" <=> j >= i
        /\ invite' = [invite EXCEPT ![i] = [NoInvite EXCEPT
                        !.status = "pending", !.to = req.target, !.role = req.grant]]
        /\ sent' = [sent EXCEPT !["created"][i] = @ + 1]
        /\ page' = Aged({"invites"})
        /\ request' = [AgedReaders({"invites"}) EXCEPT ![r] = [Idle EXCEPT
                         !.reply = InviteMemberController.status.ok]]
        /\ UNCHANGED <<roleVars, raced>>

-----------------------------------------------------------------------------

(* RespondToInviteHandler: the invite is read and judged outside the       *)
(* transaction.                                                            *)
FindInvite(r) ==
    LET i == request[r].subject
    IN  /\ request[r].at = "findInvite"
        /\ CASE invite[i].status = "unsent" -> Reply(r, "InviteNotFound")
             [] invite[i].status \in {"accepted", "rejected"} -> Reply(r, "InviteAlreadyUsed")
             [] IsPending(i) /\ invite[i].expired -> Reply(r, "InviteExpired")
             [] IsPending(i) /\ ~invite[i].expired /\ invite[i].to # request[r].by ->
                  Reply(r, "InviteEmailMismatch")
             [] OTHER -> Goto(r, "write")
        /\ UNCHANGED <<roleVars, raced, inviteVars, page>>

(* The row locks of an open transaction hold back another one on the same  *)
(* invite or the same unique (account, workspace).                         *)
Blocked(r) ==
    \E q \in Requests :
        /\ At(q, {"accept", "reject"}, "commit")
        /\ \/ request[q].subject = request[r].subject
           \/ request[q].op = "accept" /\ request[r].op = "accept"
                /\ request[q].by = request[r].by

(* Mutant: the page of invites is forgotten.                               *)
AcceptWriteHalfInvalidated(r) ==
    /\ At(r, {"accept"}, "write")
    /\ ~Blocked(r)
    /\ IF accountRole[request[r].by] # None
       THEN Reply(r, "AlreadyAMember") /\ UNCHANGED <<raced, page>>
       ELSE Goto(r, "commit") /\ InvalidatePages({"members"})
    /\ UNCHANGED <<roleVars, inviteVars>>

AcceptWrite(r) ==
    /\ At(r, {"accept"}, "write")
    /\ ~Blocked(r)
    /\ IF accountRole[request[r].by] # None
       THEN Reply(r, "AlreadyAMember") /\ UNCHANGED <<raced, page>>
       ELSE Goto(r, "commit") /\ InvalidatePages(Pages)
    /\ UNCHANGED <<roleVars, inviteVars>>

RejectWrite(r) ==
    /\ At(r, {"reject"}, "write")
    /\ ~Blocked(r)
    /\ InvalidatePages({"invites"})
    /\ Goto(r, "commit")
    /\ UNCHANGED <<roleVars, inviteVars>>

(* Mutant: the invite and the outbox are not written.                      *)
CommitAcceptSilently(r) ==
    LET i == request[r].subject
        a == request[r].by
    IN  /\ At(r, {"accept"}, "commit")
        /\ accountRole' = [accountRole EXCEPT ![a] = invite[i].role]
        /\ rowId' = [rowId EXCEPT ![a] = @ + 1]
        /\ Goto(r, "idle")
        /\ UNCHANGED <<cached, inviteVars, page, raced>>

(* The new member's role cache is not invalidated.                         *)
CommitAccept(r) ==
    LET i == request[r].subject
        a == request[r].by
    IN  /\ At(r, {"accept"}, "commit")
        /\ accountRole' = [accountRole EXCEPT ![a] = invite[i].role]
        /\ rowId' = [rowId EXCEPT ![a] = @ + 1]
        /\ invite' = [invite EXCEPT ![i].status = "accepted"]
        /\ sent' = [sent EXCEPT !["accepted"][i] = @ + 1]
        /\ page' = Aged(Pages)
        /\ request' = [AgedReaders(Pages) EXCEPT ![r] = [Idle EXCEPT
                         !.reply = RespondToInviteController.status.ok]]
        /\ raced' = IF RoleKept(a) THEN raced \cup {a} ELSE raced
        /\ UNCHANGED cached

(* Mutant: no outbox row.                                                  *)
CommitRejectSilently(r) ==
    /\ At(r, {"reject"}, "commit")
    /\ invite' = [invite EXCEPT ![request[r].subject].status = "rejected"]
    /\ Goto(r, "idle")
    /\ UNCHANGED <<roleVars, raced, sent, page>>

CommitReject(r) ==
    LET i == request[r].subject
    IN  /\ At(r, {"reject"}, "commit")
        /\ invite' = [invite EXCEPT ![i].status = "rejected"]
        /\ sent' = [sent EXCEPT !["rejected"][i] = @ + 1]
        /\ page' = Aged({"invites"})
        /\ request' = [AgedReaders({"invites"}) EXCEPT ![r] = [Idle EXCEPT
                         !.reply = RespondToInviteController.status.ok]]
        /\ UNCHANGED <<roleVars, raced>>

(* InviteExpiry: seven days pass.                                          *)
Elapse(i) ==
    /\ IsPending(i) /\ ~invite[i].expired
    /\ invite' = [invite EXCEPT ![i].expired = TRUE]
    /\ UNCHANGED <<roleVars, request, raced, sent, page>>

-----------------------------------------------------------------------------

(* RemoveWorkspaceMemberHandler and UpdateWorkspaceMemberRoleHandler: find *)
(* the row, refuse or write it, invalidate the pages, then the role cache. *)
RowIs(a, id) == accountRole[a] # None /\ rowId[a] = id

(* Mutant: a removal does not ask whether the member is the owner.         *)
FindMemberRemovesOwner(r) ==
    LET req == request[r]
    IN  /\ request[r].at = "findMember"
        /\ CASE ~RowIs(req.target, req.subject) -> Reply(r, "MemberNotFound")
             [] RowIs(req.target, req.subject) /\ req.op = "remove" ->
                  IF req.target = req.by THEN Reply(r, "CannotRemoveSelf") ELSE Goto(r, "write")
             [] RowIs(req.target, req.subject) /\ req.op = "updateRole" ->
                  IF accountRole[req.target] = "owner"
                  THEN Reply(r, "CannotUpdateOwnerRole") ELSE Goto(r, "write")
        /\ UNCHANGED <<roleVars, raced, inviteVars, page>>

FindMember(r) ==
    LET req == request[r]
    IN  /\ request[r].at = "findMember"
        /\ CASE ~RowIs(req.target, req.subject) -> Reply(r, "MemberNotFound")
             [] RowIs(req.target, req.subject) /\ req.op = "remove" /\ req.target = req.by ->
                  Reply(r, "CannotRemoveSelf")
             [] /\ RowIs(req.target, req.subject)
                /\ ~(req.op = "remove" /\ req.target = req.by)
                /\ accountRole[req.target] = "owner" ->
                  Reply(r, IF req.op = "remove" THEN "CannotRemoveOwner"
                                                ELSE "CannotUpdateOwnerRole")
             [] OTHER -> Goto(r, "write")
        /\ UNCHANGED <<roleVars, raced, inviteVars, page>>

(* The DELETE or UPDATE by row id; when the row is gone it matches none    *)
(* and the pages are left alone.                                           *)
WriteMember(r) ==
    LET req == request[r]
    IN  /\ At(r, {"remove", "updateRole"}, "write")
        /\ IF RowIs(req.target, req.subject)
           THEN /\ accountRole' = [accountRole EXCEPT ![req.target] = req.grant]
                /\ page' = Aged({"members"})
                /\ request' = [AgedReaders({"members"}) EXCEPT ![r].at = "pages"]
           ELSE /\ Goto(r, "roles")
                /\ UNCHANGED <<accountRole, page>>
        /\ UNCHANGED <<rowId, cached, raced, inviteVars>>

InvalidateMembers(r) ==
    /\ request[r].at = "pages"
    /\ InvalidatePages({"members"})
    /\ Goto(r, "roles")
    /\ UNCHANGED <<roleVars, inviteVars>>

(* Mutant: the requester's cache, not the member's.                        *)
InvalidateRolesOfRequester(r) ==
    /\ request[r].at = "roles"
    /\ Invalidate(request[r].by, {})
    /\ Reply(r, "ok")
    /\ UNCHANGED <<accountRole, rowId, raced, inviteVars, page>>

InvalidateRoles(r) ==
    LET a == request[r].target
    IN  /\ request[r].at = "roles"
        /\ \E left \in SUBSET Fact :
              /\ Invalidate(a, left)
              /\ raced' = IF left # {} \/ ReadInFlight(a) THEN raced \cup {a} ELSE raced \ {a}
        /\ Reply(r, "ok")
        /\ UNCHANGED <<accountRole, rowId, inviteVars, page>>

-----------------------------------------------------------------------------

(* A query rejects or the process stops while the request waits: what was  *)
(* done stays done, an open transaction rolls back.                        *)
Die(r) ==
    /\ ~IsIdle(r)
    /\ Refuse(r, 500)
    /\ raced' = raced
         \cup {p \in {"members"} : request[r].at = "pages" /\ (page[p] # Miss \/ p \in PagesInFlight({p}))}
         \cup {a \in {request[r].target} : request[r].at \in {"pages", "roles"} /\ RoleKept(a)}
    /\ UNCHANGED <<roleVars, inviteVars, page>>

-----------------------------------------------------------------------------

Handler(r) ==
    \/ Middlewares(r)
    \/ GetWorkspace(r) \/ GetMyMembership(r) \/ ListMyWorkspaces(r) \/ ListMyInvites(r)
    \/ GetPage(r) \/ QueryPage(r) \/ StorePage(r)
    \/ ExistsByEmail(r) \/ FindPending(r) \/ InsertInvite(r) \/ CommitInvite(r)
    \/ FindInvite(r) \/ AcceptWrite(r) \/ RejectWrite(r) \/ CommitAccept(r) \/ CommitReject(r)
    \/ FindMember(r) \/ WriteMember(r) \/ InvalidateMembers(r) \/ InvalidateRoles(r)

Client(r) ==
    /\ IsIdle(r)
    /\ \E a \in Accounts :
          Ask(r, a) \/ AskToInvite(r, a) \/ AskToRespond(r, a) \/ AskAboutMember(r, a)

Expire ==
    \/ \E f \in Fact, a \in Accounts : CacheExpire(f, a) /\ UNCHANGED <<inviteVars, page>>
    \/ \E p \in Pages : ExpirePage(p)

Next ==
    \/ \E r \in Requests : Client(r) \/ Handler(r) \/ Die(r)
    \/ Expire
    \/ \E i \in Invites : Elapse(i)

Spec == Init /\ [][Next]_vars

-----------------------------------------------------------------------------

Step == {"idle", "lookup", "query", "store", "done", "getPage", "queryPage", "storePage",
         "exists", "pending", "insert", "findInvite", "findMember", "write", "pages",
         "roles", "commit"}

TypeOK ==
    /\ accountRole \in [Accounts -> Role \cup {None}]
    /\ rowId \in [Accounts -> Nat]
    /\ cached \in [Fact -> [Accounts -> Role \cup {None, Miss}]]
    /\ request \in [Requests ->
         [op : Operation \cup {"none"}, by : Accounts, at : Step, todo : Seq(Fact),
          held : Role \cup {None, "fresh", "stale"}, target : Accounts, subject : Nat,
          grant : AssignableRole \cup {None}, reply : Nat]]
    /\ raced \subseteq Accounts \cup Pages
    /\ invite \in [Invites ->
         [status : {"unsent", "pending", "accepted", "rejected"}, to : Accounts,
          role : AssignableRole \cup {None}, expired : BOOLEAN]]
    /\ sent \in [RoutingKey -> [Invites -> Nat]]
    /\ page \in [Pages -> {Miss, "fresh", "stale"}]

(* The creator of the workspace is its owner for ever, whatever removals   *)
(* and role changes administrators ask for, also of the owner, while       *)
(* members are removed and invited again behind the copies of the rows:    *)
(* the checks of RemoveWorkspaceMemberHandler and UpdateWorkspaceMember-   *)
(* RoleHandler and the unique row behind RespondToInviteHandler suffice.   *)
OneOwner == \A a \in Accounts : accountRole[a] = "owner" <=> a = Owner

(* An invite's status and its outbox events tell one story: what it says   *)
(* was announced, and an answer was announced only of an answered invite;  *)
(* a reject and an accept that race may announce both.                     *)
AnswersMatchEvents ==
    \A i \in Invites :
        LET status == invite[i].status
        IN  /\ status # "unsent" <=> sent["created"][i] = 1
            /\ status \in {"accepted", "rejected"} => sent[status][i] > 0
            /\ status \in {"unsent", "pending"} =>
                  sent["accepted"][i] = 0 /\ sent["rejected"][i] = 0

(* The accepted events of the invites sent to a, numbered per invite.      *)
Acceptances(a) ==
    UNION {{<<i, n>> : n \in 1 .. sent["accepted"][i]} : i \in {i \in Invites : invite[i].to = a}}

(* Every row an account gets after the start is announced by exactly one   *)
(* accepted event of an invite sent to it (RespondToInviteHandler.accept): *)
(* no join is silent, none is announced twice, even when two requests      *)
(* answer one invite or its member is removed in between.                  *)
JoinsMatchAcceptances == \A a \in Accounts : rowId[a] = Cardinality(Acceptances(a))

(* Past the checks of InviteMemberHandler, about to write its invite.      *)
AboutToInvite(r, a) ==
    request[r].op = "invite" /\ request[r].at \in {"insert", "commit"} /\ request[r].target = a

(* No unique constraint backs findPendingByEmailAndWorkspace: concurrent   *)
(* requests can leave an account several open invites, but never more than *)
(* the requests the API serves at once.                                    *)
LivePendingBounded ==
    \A a \in Accounts :
        Cardinality({i \in Invites : IsLive(i, a)})
          + Cardinality({r \in Requests : AboutToInvite(r, a)}) <= Cardinality(Requests)

Writing(r, a) == request[r].at \in {"pages", "roles"} /\ request[r].target = a

(* A cached role is out of date only while a command stands between its    *)
(* write and its invalidation, or because a reader held the old row when   *)
(* the cache was invalidated, a call failed, or the account joined without *)
(* an invalidation: AccountRoleCacheRepository.invalidate misses no key    *)
(* and no command forgets it.                                              *)
RoleStaleHasACause ==
    \A a \in Accounts, f \in Fact :
        cached[f][a] \in {Miss, accountRole[a]} \/ a \in raced \/ \E r \in Requests : Writing(r, a)

(* The same of the pages of members and invites: without a reader between  *)
(* the invalidation and the commit, no list is out of date.                *)
PageStaleHasACause ==
    \A p \in Pages :
        page[p] = "stale" => p \in raced \/ \E r \in Requests : request[r].at = "pages"
=============================================================================
