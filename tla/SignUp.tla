------------------------------- MODULE SignUp -------------------------------
(***************************************************************************)
(* CreateAccountHandler for one e-mail address, and the account cache that *)
(* findById and findByEmail read through.  Addresses are compared trimmed  *)
(* and in lower case by the cache keys, the queries and the unique column  *)
(* alike, so an address stands for all its spellings.  Accounts are never  *)
(* changed or deleted.                                                     *)
(***************************************************************************)
EXTENDS Naturals

CONSTANTS SignUps,   \* bound: sign-ups the API serves at once
          MaxTries   \* bound: sign-ups in a behaviour

ASSUME SignUpAssumption == MaxTries \in Nat

VARIABLES accounts,      \* rows of the accounts table with this e-mail
          accountCache,  \* whether the cache holds the account, by id and by e-mail
          signUp,        \* where each sign-up or lookup is
          created,       \* outbox rows account.created
          answered,      \* history: 201 answers
          tries

accountVars == <<accounts, accountCache, signUp, created, answered, tries>>

AccountKey == {"id", "email"}

SignUpInit ==
    /\ accounts = 0
    /\ accountCache = [k \in AccountKey |-> FALSE]
    /\ signUp = [s \in SignUps |-> "idle"]
    /\ created = 0
    /\ answered = 0
    /\ tries = 0

SignUpGoto(s, at) == signUp' = [signUp EXCEPT ![s] = at]

Register(s) ==
    /\ signUp[s] = "idle" /\ tries < MaxTries
    /\ tries' = tries + 1
    /\ SignUpGoto(s, "findCached")
    /\ UNCHANGED <<accounts, accountCache, created, answered>>

(* findByEmail: an account, cached or found and then cached, is a 409.     *)
FindCached(s) ==
    /\ signUp[s] = "findCached"
    /\ SignUpGoto(s, IF accountCache["email"] THEN "idle" ELSE "findRow")
    /\ UNCHANGED <<accounts, accountCache, created, answered, tries>>

(* When there is none the password is hashed.                              *)
FindRow(s) ==
    /\ signUp[s] = "findRow"
    /\ SignUpGoto(s, IF accounts > 0 THEN "store" ELSE "insert")
    /\ UNCHANGED <<accounts, accountCache, created, answered, tries>>

(* GetAccountHandler: findById.  The id is known once the account exists.  *)
GetAccount(s) ==
    /\ signUp[s] = "idle" /\ accounts > 0 /\ ~accountCache["id"]
    /\ SignUpGoto(s, "store")
    /\ UNCHANGED <<accounts, accountCache, created, answered, tries>>

(* store: two SETs, either of which may be rejected.                       *)
StoreAccount(s) ==
    /\ signUp[s] = "store"
    /\ \E kept \in SUBSET AccountKey :
          accountCache' = [k \in AccountKey |-> accountCache[k] \/ k \in kept]
    /\ SignUpGoto(s, "idle")
    /\ UNCHANGED <<accounts, created, answered, tries>>

AccountExpires(k) ==
    /\ accountCache[k]
    /\ accountCache' = [accountCache EXCEPT ![k] = FALSE]
    /\ UNCHANGED <<accounts, signUp, created, answered, tries>>

(* Mutant: the e-mail column is not unique.                                *)
InsertAccountTwice(s) ==
    /\ signUp[s] = "insert"
    /\ SignUpGoto(s, "commit")
    /\ UNCHANGED <<accounts, accountCache, created, answered, tries>>

(* The INSERT of the unit of work.  One of another transaction makes it    *)
(* wait; a committed one makes it fail, which no catch turns into a 409.   *)
InsertAccount(s) ==
    /\ signUp[s] = "insert"
    /\ \A t \in SignUps : signUp[t] # "commit"
    /\ SignUpGoto(s, IF accounts > 0 THEN "idle" ELSE "commit")
    /\ UNCHANGED <<accounts, accountCache, created, answered, tries>>

(* The account and its outbox row become visible together.                 *)
CommitAccount(s) ==
    /\ signUp[s] = "commit"
    /\ accounts' = accounts + 1
    /\ created' = created + 1
    /\ SignUpGoto(s, "answer")
    /\ UNCHANGED <<accountCache, answered, tries>>

AnswerSignUp(s) ==
    /\ signUp[s] = "answer"
    /\ answered' = answered + 1
    /\ SignUpGoto(s, "idle")
    /\ UNCHANGED <<accounts, accountCache, created, tries>>

(* A call is rejected or the process stops: an open transaction rolls back.*)
SignUpFails(s) ==
    /\ signUp[s] # "idle"
    /\ SignUpGoto(s, "idle")
    /\ UNCHANGED <<accounts, accountCache, created, answered, tries>>

SignUpNext ==
    \/ \E s \in SignUps :
         \/ Register(s) \/ FindCached(s) \/ FindRow(s) \/ GetAccount(s) \/ StoreAccount(s)
         \/ InsertAccount(s) \/ CommitAccount(s) \/ AnswerSignUp(s) \/ SignUpFails(s)
    \/ \E k \in AccountKey : AccountExpires(k)

SignUpTypeOK ==
    /\ accounts \in Nat
    /\ accountCache \in [AccountKey -> BOOLEAN]
    /\ signUp \in [SignUps -> {"idle", "findCached", "findRow", "store", "insert", "commit",
                               "answer"}]
    /\ created \in Nat /\ answered \in Nat /\ tries \in 0 .. MaxTries

(* However sign-ups for one address race, fail or are repeated, it gets at *)
(* most one account, one account.created event with it and one 201, and    *)
(* the cache never answers for an account that is not there: the check of  *)
(* CreateAccountHandler alone, made outside the transaction, would not do. *)
OneAccountPerEmail ==
    /\ accounts <= 1
    /\ created = accounts
    /\ answered <= accounts
    /\ \A k \in AccountKey : accountCache[k] => accounts = 1
=============================================================================
