---------------------------- MODULE AccountRoles ----------------------------
(***************************************************************************)
(* One workspace's account_roles table, the role cache in front of it      *)
(* (DrizzleAccountRoleRepository over ValkeyAccountRoleCacheRepository)    *)
(* and the middlewares that let a request in: validateWorkspace looks up   *)
(* the membership, authorize the permissions.  Every await is a step, so a *)
(* role change can fall between a lookup, its query and its store.         *)
(***************************************************************************)
EXTENDS Rbac, Naturals, Sequences

CONSTANTS Accounts,
          Owner,         \* who created the workspace
          Requests,      \* requests the API can be serving at once
          Kept,          \* bound: the accounts whose cache entries are not evicted at once
          CacheMayFail   \* whether a call to Valkey may be rejected

ASSUME OwnerAssumption == Owner \in Accounts /\ Kept \subseteq Accounts
ASSUME CacheMayFailAssumption == CacheMayFail \in BOOLEAN

VARIABLES accountRole,  \* the account's role in the workspace
          rowId,        \* the id of its account_roles row (the count of its rows so far)
          cached,       \* role cache: the role a fact was stored under, or "miss"
          request,      \* what each request slot is doing
          raced         \* history: what a race or a failed call may have left stale

roleVars == <<accountRole, rowId, cached>>

Miss == "miss"

Operation == DOMAIN ControllerOf

(* `todo` are the facts still to look up, `at` where the handler or lookup *)
(* stands, `held` what was read from the database and not used yet.  The   *)
(* client named the account `target`, the row `subject` and the role       *)
(* `grant`; `reply` is the status of the slot's last answer.               *)
Idle ==
    [op |-> "none", by |-> Owner, at |-> "idle", todo |-> <<>>, held |-> None,
     target |-> Owner, subject |-> 0, grant |-> None, reply |-> 0]

IsIdle(r) == request[r].at = "idle"

Begin(r, fields) ==
    /\ IsIdle(r)
    /\ request' = [request EXCEPT ![r] = fields]

Goto(r, at) == request' = [request EXCEPT ![r].at = at]

(* The handler resolves with `result`; the controller turns it into a      *)
(* status.                                                                 *)
Reply(r, result) ==
    request' = [request EXCEPT
        ![r] = [Idle EXCEPT !.reply = ControllerOf[request[r].op].status[result]]]

Refuse(r, status) == request' = [request EXCEPT ![r] = [Idle EXCEPT !.reply = status]]

(* The first step of an operation past its middlewares.                    *)
FirstStep ==
    [getWorkspace |-> "done", getMembership |-> "done", listWorkspaces |-> "done",
     listMyInvites |-> "done", listMembers |-> "getPage", listInvites |-> "getPage",
     invite |-> "exists", accept |-> "findInvite", reject |-> "findInvite",
     remove |-> "findMember", updateRole |-> "findMember"]

-----------------------------------------------------------------------------

(* What the lookup of `fact` with the answer `role` leads to.              *)
Looked(r, fact, role) ==
    LET req  == request[r]
        rest == Tail(req.todo)
    IN  CASE fact = "membership" /\ role = None -> Refuse(r, 404)
          [] /\ fact = "permissions"
             /\ ~ ControllerOf[req.op].requires \subseteq PermissionsOf[role] -> Refuse(r, 403)
          [] OTHER ->
               request' = [request EXCEPT
                   ![r] = [req EXCEPT !.todo = rest, !.held = None,
                       !.at = IF rest = <<>> THEN FirstStep[req.op] ELSE "lookup"]]

CacheGet(r) ==
    LET fact == Head(request[r].todo)
        hit  == cached[fact][request[r].by]
    IN  /\ request[r].at = "lookup"
        /\ IF hit # Miss THEN Looked(r, fact, hit) ELSE Goto(r, "query")
        /\ UNCHANGED <<roleVars, raced>>

(* isMember and findRole store only what they found, findPermissions also  *)
(* stores the empty list of an account without a row.                      *)
RowQuery(r) ==
    LET fact == Head(request[r].todo)
        role == accountRole[request[r].by]
    IN  /\ request[r].at = "query"
        /\ IF role = None /\ fact # "permissions"
           THEN Looked(r, fact, role)
           ELSE request' = [request EXCEPT ![r].at = "store", ![r].held = role]
        /\ UNCHANGED <<roleVars, raced>>

CacheSet(r) ==
    LET fact == Head(request[r].todo)
    IN  /\ request[r].at = "store"
        /\ cached' = IF request[r].by \in Kept
                     THEN [cached EXCEPT ![fact][request[r].by] = request[r].held] ELSE cached
        /\ Looked(r, fact, request[r].held)
        /\ UNCHANGED <<accountRole, rowId, raced>>

(* Entries live for five minutes from when they were set; a hit does not   *)
(* prolong them.                                                           *)
CacheExpire(fact, a) ==
    /\ cached[fact][a] # Miss
    /\ cached' = [cached EXCEPT ![fact][a] = Miss]
    /\ UNCHANGED <<accountRole, rowId, request, raced>>

(* invalidate deletes the three keys at once and swallows a failure, which *)
(* may leave any of them.                                                  *)
Invalidate(a, left) ==
    /\ left \subseteq Fact
    /\ ~CacheMayFail => left = {}
    /\ cached' = [f \in Fact |-> IF f \in left THEN cached[f]
                                 ELSE [cached[f] EXCEPT ![a] = Miss]]

(* Some request read a's row and has not stored what it read yet.          *)
ReadInFlight(a) == \E r \in Requests : request[r].at = "store" /\ request[r].by = a

RoleKept(a) == ReadInFlight(a) \/ \E f \in Fact : cached[f][a] # Miss
=============================================================================
