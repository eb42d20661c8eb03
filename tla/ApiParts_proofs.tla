--------------------------- MODULE ApiParts_proofs ---------------------------
(***************************************************************************)
(* Proofs about the parts of ApiParts, for any number of concurrent        *)
(* requests, files, notifications and items, and any limit.  A step of one *)
(* part leaves the variables of the others alone, so each invariant is     *)
(* kept by its own part's Next and by stuttering of its own variables.     *)
(* Last, what Pagination computes for every list and limit.                *)
(***************************************************************************)
EXTENDS ApiParts, FiniteSetTheorems, SequenceTheorems, TLAPS

(* A step of the whole is, to every part, a step of its own or none.       *)
LEMMA StepsOfParts ==
  ASSUME [Next]_vars
  PROVE  /\ RateNext \/ UNCHANGED rateVars
         /\ SignUpNext \/ UNCHANGED accountVars
         /\ RecordsNext \/ UNCHANGED recordVars
         /\ NotificationsNext \/ UNCHANGED noteVars
         /\ ListNext \/ UNCHANGED listVars
         /\ WebNext \/ UNCHANGED webVars
<1>1. CASE Rate BY <1>1 DEF Rate
<1>2. CASE SigningUp BY <1>2 DEF SigningUp
<1>3. CASE Records BY <1>3 DEF Records
<1>4. CASE Notifying BY <1>4 DEF Notifying
<1>5. CASE List BY <1>5 DEF List
<1>6. CASE Browsing BY <1>6 DEF Browsing
<1>7. CASE UNCHANGED vars BY <1>7 DEF vars
<1> QED BY <1>1, <1>2, <1>3, <1>4, <1>5, <1>6, <1>7 DEF Next

-----------------------------------------------------------------------------
(* The rate limit.                                                         *)

(* Requests of this window that have been or will be let through.          *)
Open ==
    {h \in Hits : hit[h].current /\ hit[h].at \in {"expire", "compare"} /\ hit[h].count <= MaxCalls}

(* They and the ones let through already are no more than were counted.    *)
RateInv ==
    /\ RateTypeOK
    /\ LimitHonoured
    /\ admitted + Cardinality(Open) <= counter
    /\ admitted + Cardinality(Open) <= MaxCalls

LEMMA OpenIsFinite == IsFiniteSet(Open) /\ Cardinality(Open) \in Nat
BY RateLimitAssumption, FS_Subset, FS_CardinalityType DEF Open

LEMMA NoHitType == NoHit \in HitRecord
BY RateLimitAssumption DEF NoHit, HitRecord

LEMMA RateInitInv == RateInit => RateInv
<1> SUFFICES ASSUME RateInit PROVE RateInv OBVIOUS
<1>1. Open = {}
  BY DEF RateInit, NoHit, Open
<1>2. Cardinality(Open) = 0
  BY <1>1, FS_EmptySet
<1>3. RateTypeOK
  <2>1. counter \in 0 .. MaxCount
    BY RateLimitAssumption DEF RateInit
  <2>2. expires \in BOOLEAN /\ forgotten \in BOOLEAN
    BY DEF RateInit
  <2>3. hit \in [Hits -> HitRecord]
    BY NoHitType DEF RateInit
  <2>4. admitted \in Nat
    BY DEF RateInit
  <2> QED BY <2>1, <2>2, <2>3, <2>4 DEF RateTypeOK
<1>4. LimitHonoured
  BY RateLimitAssumption DEF RateInit, LimitHonoured
<1> QED
  BY <1>2, <1>3, <1>4, RateLimitAssumption DEF RateInit, RateInv

LEMMA RateStep ==
  ASSUME RateInv, RateNext \/ UNCHANGED rateVars
  PROVE  RateInv'
<1> USE RateLimitAssumption, OpenIsFinite DEF RateInv, RateTypeOK, HitRecord
<1>0. CASE UNCHANGED rateVars
  BY <1>0 DEF rateVars, LimitHonoured, Open
<1>1. ASSUME NEW h \in Hits, Increment(h) PROVE RateInv'
  <2>1. RateTypeOK'
    BY <1>1 DEF Increment
  <2>2. CASE counter + 1 <= MaxCalls
    <3>1. Open' = Open \cup {h} /\ h \notin Open
      BY <1>1, <2>2 DEF Increment, Open
    <3>2. Cardinality(Open') = Cardinality(Open) + 1
      BY <3>1, FS_AddElement
    <3> QED BY <1>1, <2>1, <2>2, <3>2 DEF Increment, LimitHonoured
  <2>3. CASE ~(counter + 1 <= MaxCalls)
    <3>1. Open' = Open
      BY <1>1, <2>3 DEF Increment, Open
    <3> QED BY <1>1, <2>1, <2>3, <3>1 DEF Increment, LimitHonoured
  <2> QED BY <2>2, <2>3
<1>2. ASSUME NEW h \in Hits, SetExpiry(h) PROVE RateInv'
  <2>1. RateTypeOK' /\ Open' = Open
    BY <1>2 DEF SetExpiry, Open
  <2> QED BY <1>2, <2>1 DEF SetExpiry, LimitHonoured
<1>3. ASSUME NEW h \in Hits, Compare(h) PROVE RateInv'
  <2>1. RateTypeOK'
    <3>1. hit[h].count \in 0 .. MaxCount
      OBVIOUS
    <3>2. CASE hit[h].count > MaxCalls
      BY <1>3, <3>2 DEF Compare
    <3>3. CASE ~(hit[h].count > MaxCalls)
      BY <1>3, <3>3, NoHitType DEF Compare
    <3> QED BY <3>2, <3>3
  <2>2. CASE h \in Open
    <3>1. Open' = Open \ {h} /\ admitted' = admitted + 1
      BY <1>3, <2>2 DEF Compare, Open, NoHit
    <3>2. Cardinality(Open') = Cardinality(Open) - 1
      BY <2>2, <3>1, FS_RemoveElement
    <3>2a. Cardinality(Open') \in Nat
      BY <3>1, FS_RemoveElement, FS_CardinalityType
    <3>3. admitted' <= MaxCalls
      BY <3>1, <3>2, <3>2a
    <3>4. \A g \in Hits : hit[g].at = "expire" => hit'[g].at = "expire"
      BY <1>3 DEF Compare
    <3>5. LimitHonoured'
      BY <1>3, <3>3, <3>4 DEF Compare, LimitHonoured
    <3> QED BY <1>3, <2>1, <3>1, <3>2, <3>5 DEF Compare
  <2>3. CASE h \notin Open
    <3>1. Open' = Open /\ admitted' = admitted
      BY <1>3, <2>3 DEF Compare, Open, NoHit
    <3> QED BY <1>3, <2>1, <3>1 DEF Compare, LimitHonoured, NoHit
  <2> QED BY <2>2, <2>3
<1>4. ASSUME NEW h \in Hits, TooMany(h) PROVE RateInv'
  <2>1. RateTypeOK' /\ Open' = Open
    BY <1>4 DEF TooMany, Open, NoHit
  <2> QED BY <1>4, <2>1 DEF TooMany, LimitHonoured, NoHit
<1>5. ASSUME NEW h \in Hits, HitFails(h) PROVE RateInv'
  <2>1. RateTypeOK' /\ Open' = Open \ {h}
    BY <1>5 DEF HitFails, Open, NoHit
  <2>2. Cardinality(Open') <= Cardinality(Open) /\ Cardinality(Open') \in Nat
    BY <2>1, FS_Subset, FS_CardinalityType
  <2>3. \A g \in Hits \ {h} : hit'[g] = hit[g]
    BY <1>5 DEF HitFails
  <2>4. LimitHonoured'
    BY <1>5, <2>3 DEF HitFails, LimitHonoured
  <2>5. /\ admitted' + Cardinality(Open') <= counter'
        /\ admitted' + Cardinality(Open') <= MaxCalls
    BY <1>5, <2>2 DEF HitFails
  <2> QED BY <2>1, <2>4, <2>5
<1>6. ASSUME WindowEnds PROVE RateInv'
  <2>1. \A h \in Hits : [hit[h] EXCEPT !.current = FALSE] \in HitRecord
    OBVIOUS
  <2>2. RateTypeOK'
    <3>1. hit' \in [Hits -> HitRecord]
      BY <1>6, <2>1 DEF WindowEnds
    <3>2. counter' \in 0 .. MaxCount /\ admitted' \in Nat
      BY <1>6 DEF WindowEnds
    <3>3. expires' \in BOOLEAN /\ forgotten' \in BOOLEAN
      BY <1>6 DEF WindowEnds
    <3> QED BY <3>1, <3>2, <3>3
  <2>3. Open' = {}
    BY <1>6 DEF WindowEnds, Open
  <2>4. Cardinality(Open') = 0
    BY <2>3, FS_EmptySet
  <2> QED BY <1>6, <2>2, <2>4 DEF WindowEnds, LimitHonoured
<1> QED BY <1>0, <1>1, <1>2, <1>3, <1>4, <1>5, <1>6 DEF RateNext

(* RateLimitMiddleware: no window lets more than the maximum through, and  *)
(* a counter without a time to live has a cause, whatever the maximum and  *)
(* the number of requests at once.                                         *)
THEOREM LimitIsHonoured == Spec => []LimitHonoured
<1>1. Init => RateInv
  BY RateInitInv DEF Init
<1>2. RateInv /\ [Next]_vars => RateInv'
  BY StepsOfParts, RateStep
<1>3. RateInv => LimitHonoured
  BY DEF RateInv
<1> QED BY <1>1, <1>2, <1>3, PTL DEF Spec

-----------------------------------------------------------------------------
(* Sign-up.                                                                *)

(* The unique column lets one transaction at a time past its INSERT, and   *)
(* none once there is an account.                                          *)
SignUpInv ==
    /\ SignUpTypeOK
    /\ OneAccountPerEmail
    /\ \A s, t \in SignUps : signUp[s] = "commit" /\ signUp[t] = "commit" => s = t
    /\ \A s, t \in SignUps : signUp[s] = "answer" /\ signUp[t] = "answer" => s = t
    /\ \A s \in SignUps : signUp[s] = "commit" => accounts = 0
    /\ \A s \in SignUps : signUp[s] = "store" => accounts = 1
    /\ \A s \in SignUps : signUp[s] = "answer" => accounts = 1 /\ answered = 0

LEMMA SignUpInitInv == SignUpInit => SignUpInv
BY SignUpAssumption
   DEF SignUpInit, SignUpInv, SignUpTypeOK, OneAccountPerEmail, AccountKey

LEMMA SignUpStep ==
  ASSUME SignUpInv, SignUpNext \/ UNCHANGED accountVars
  PROVE  SignUpInv'
<1> USE SignUpAssumption
    DEF SignUpInv, SignUpTypeOK, OneAccountPerEmail, AccountKey, SignUpGoto
<1>0. CASE UNCHANGED accountVars BY <1>0 DEF accountVars
<1>1. ASSUME NEW s \in SignUps, Register(s) PROVE SignUpInv' BY <1>1 DEF Register
<1>2. ASSUME NEW s \in SignUps, FindCached(s) PROVE SignUpInv' BY <1>2 DEF FindCached
<1>3. ASSUME NEW s \in SignUps, FindRow(s) PROVE SignUpInv' BY <1>3 DEF FindRow
<1>4. ASSUME NEW s \in SignUps, GetAccount(s) PROVE SignUpInv' BY <1>4 DEF GetAccount
<1>5. ASSUME NEW s \in SignUps, StoreAccount(s) PROVE SignUpInv' BY <1>5 DEF StoreAccount
<1>6. ASSUME NEW s \in SignUps, InsertAccount(s) PROVE SignUpInv' BY <1>6 DEF InsertAccount
<1>7. ASSUME NEW s \in SignUps, CommitAccount(s) PROVE SignUpInv' BY <1>7 DEF CommitAccount
<1>8. ASSUME NEW s \in SignUps, AnswerSignUp(s) PROVE SignUpInv' BY <1>8 DEF AnswerSignUp
<1>9. ASSUME NEW s \in SignUps, SignUpFails(s) PROVE SignUpInv' BY <1>9 DEF SignUpFails
<1>10. ASSUME NEW k \in AccountKey, AccountExpires(k) PROVE SignUpInv'
  BY <1>10 DEF AccountExpires
<1> QED
  BY <1>0, <1>1, <1>2, <1>3, <1>4, <1>5, <1>6, <1>7, <1>8, <1>9, <1>10 DEF SignUpNext

(* CreateAccountHandler: at most one account, event and 201 per address,   *)
(* however many sign-ups race, and no cached account that is not there.    *)
THEOREM OneAccount == Spec => []OneAccountPerEmail
<1>1. Init => SignUpInv
  BY SignUpInitInv DEF Init
<1>2. SignUpInv /\ [Next]_vars => SignUpInv'
  BY StepsOfParts, SignUpStep
<1>3. SignUpInv => OneAccountPerEmail
  BY DEF SignUpInv
<1> QED BY <1>1, <1>2, <1>3, PTL DEF Spec

-----------------------------------------------------------------------------
(* The workspace records.                                                  *)

(* While no two updates have overlapped, the one under way is the sole     *)
(* one, and nobody but it removes an object.                               *)
SoleUpdates ==
    /\ \A c, d \in Commands : command[c].sole /\ Updating(d) => c = d
    /\ \A c \in Commands : command[c].sole => Updating(c)
    /\ \A c \in Commands : ~overlapped /\ Updating(c) => command[c].sole
    /\ \A c \in Commands : Updating(c) => command[c].ext \in Extensions
    /\ \A c \in Commands : command[c].sole /\ command[c].at = "save" =>
          command[c].ext \in objects
    /\ \A c \in Commands : command[c].sole /\ command[c].at = "remove" =>
          command[c].ext = avatar /\ command[c].previous # avatar

RecordsInv == RecordsTypeOK /\ OwnerlessWasCut /\ AvatarStored /\ SoleUpdates

LEMMA NoCommandType == NoCommand \in CommandRecord
BY DEF NoCommand, CommandRecord

LEMMA RecordsInitInv == RecordsInit => RecordsInv
<1> SUFFICES ASSUME RecordsInit PROVE RecordsInv OBVIOUS
<1>1. workspace \in 0 .. 1 /\ avatar \in Extensions \cup {NoAvatar} /\ objects \subseteq Extensions
  BY DEF RecordsInit
<1>2. owned \in BOOLEAN /\ cut \in BOOLEAN /\ overlapped \in BOOLEAN
  BY DEF RecordsInit
<1>3. RecordsTypeOK
  BY <1>1, <1>2, NoCommandType DEF RecordsInit, RecordsTypeOK
<1>4. OwnerlessWasCut /\ AvatarStored /\ SoleUpdates
  BY DEF RecordsInit, NoCommand, OwnerlessWasCut, AvatarStored, SoleUpdates, Updating
<1> QED BY <1>3, <1>4 DEF RecordsInv

(* Each action keeps the types of the variables it assigns.                *)
LEMMA RecordsStepType ==
  ASSUME RecordsTypeOK, SoleUpdates, RecordsNext
  PROVE  RecordsTypeOK'
<1> USE NoCommandType DEF RecordsTypeOK
<1>1. ASSUME NEW c \in Commands, NEW at \in {"idle", "insert", "owner", "upload", "save", "remove"}
      PROVE  /\ CommandGoto(c, at) => command' \in [Commands -> CommandRecord]
             /\ EndCommand(c) => command' \in [Commands -> CommandRecord]
  BY DEF CommandRecord, CommandGoto, EndCommand
<1>2. ASSUME NEW c \in Commands, FindBySlug(c) PROVE RecordsTypeOK' BY <1>1, <1>2 DEF FindBySlug
<1>3. ASSUME NEW c \in Commands, InsertWorkspace(c) PROVE RecordsTypeOK'
  <2>1. workspace' \in 0 .. 1
    BY <1>3 DEF InsertWorkspace
  <2>2. CommandGoto(c, "owner") \/ EndCommand(c)
    BY <1>3 DEF InsertWorkspace
  <2>3. command' \in [Commands -> CommandRecord]
    BY <1>1, <2>2
  <2> QED BY <1>3, <2>1, <2>3 DEF InsertWorkspace
<1>4. ASSUME NEW c \in Commands, InsertOwner(c) PROVE RecordsTypeOK' BY <1>1, <1>4 DEF InsertOwner
<1>5. ASSUME NEW c \in Commands, NEW file \in File, FindWorkspace(c, file) PROVE RecordsTypeOK'
  <2> DEFINE others == {d \in Commands : Updating(d)}
             read   == [at |-> "upload", previous |-> avatar, ext |-> file.ext, sole |-> others = {}]
  <2>1. read \in CommandRecord
    BY DEF CommandRecord, File
  <2>2. \A d \in Commands : [command[d] EXCEPT !.sole = FALSE] \in CommandRecord
    BY DEF CommandRecord
  <2>3. command' \in [Commands -> CommandRecord]
    BY <1>5, <2>1, <2>2 DEF FindWorkspace
  <2>4. overlapped' \in BOOLEAN
    BY <1>5 DEF FindWorkspace
  <2> QED BY <1>5, <2>3, <2>4 DEF FindWorkspace
<1>6. ASSUME NEW c \in Commands, Upload(c) PROVE RecordsTypeOK'
  <2>1. objects' \subseteq Extensions
    BY <1>6 DEF Upload, SoleUpdates, Updating
  <2> QED BY <1>1, <1>6, <2>1 DEF Upload
<1>7. ASSUME NEW c \in Commands, SaveAvatar(c) PROVE RecordsTypeOK'
  <2>1. overlapped' \in BOOLEAN
    BY <1>7 DEF SaveAvatar
  <2>2. avatar' \in Extensions \cup {NoAvatar}
    BY <1>7 DEF SaveAvatar, CommandRecord
  <2>3. EndCommand(c) \/ CommandGoto(c, "remove")
    BY <1>7 DEF SaveAvatar
  <2>4. command' \in [Commands -> CommandRecord]
    BY <1>1, <2>3
  <2> QED BY <1>7, <2>1, <2>2, <2>4 DEF SaveAvatar
<1>8. ASSUME NEW c \in Commands, RemovePrevious(c) PROVE RecordsTypeOK'
  BY <1>1, <1>8 DEF RemovePrevious
<1>9. ASSUME NEW c \in Commands, CommandFails(c) PROVE RecordsTypeOK'
  <2>1. cut' \in BOOLEAN
    BY <1>9 DEF CommandFails
  <2> QED BY <1>1, <1>9, <2>1 DEF CommandFails
<1> QED BY <1>2, <1>3, <1>4, <1>5, <1>6, <1>7, <1>8, <1>9 DEF RecordsNext

(* Steps of other commands, of creations or of updates, change neither the *)
(* marks of an update nor what it relies on.                               *)
LEMMA RecordsStepSole ==
  ASSUME RecordsTypeOK, AvatarStored, SoleUpdates, RecordsNext
  PROVE  AvatarStored' /\ SoleUpdates'
<1> USE WorkspaceRecordsAssumption
    DEF RecordsTypeOK, CommandRecord, AvatarStored, SoleUpdates, Updating, NoCommand,
        CommandGoto, EndCommand
<1>1. ASSUME NEW c \in Commands,
             FindBySlug(c) \/ InsertWorkspace(c) \/ InsertOwner(c)
      PROVE  AvatarStored' /\ SoleUpdates'
  <2>1. /\ UNCHANGED <<avatar, objects, overlapped>>
        /\ \A d \in Commands \ {c} : command'[d] = command[d]
        /\ command'[c].sole = FALSE \/ command'[c].sole = command[c].sole
        /\ command'[c].at \in {"idle", "insert", "owner"}
        /\ ~Updating(c) /\ ~Updating(c)'
    BY <1>1 DEF FindBySlug, InsertWorkspace, InsertOwner
  <2> QED BY <2>1
<1>2. ASSUME NEW c \in Commands, NEW file \in File, FindWorkspace(c, file)
      PROVE  AvatarStored' /\ SoleUpdates'
  <2>1. CASE \E d \in Commands : Updating(d)
    <3>1. /\ overlapped' = TRUE
          /\ \A d \in Commands : ~command'[d].sole
          /\ \A d \in Commands \ {c} : command'[d].at = command[d].at /\ command'[d].ext = command[d].ext
          /\ command'[c].at = "upload" /\ command'[c].ext = file.ext
      BY <1>2, <2>1 DEF FindWorkspace
    <3>2. file.ext \in Extensions
      BY DEF File
    <3> QED BY <3>1, <3>2
  <2>2. CASE \A d \in Commands : ~Updating(d)
    <3> DEFINE others == {d \in Commands : Updating(d)}
    <3>1. others = {}
      BY <2>2
    <3>2. avatar' = avatar /\ objects' = objects
      BY <1>2 DEF FindWorkspace
    <3>3. overlapped' <=> overlapped
      BY <1>2, <3>1 DEF FindWorkspace
    <3>4. \A d \in Commands \ {c} : command'[d] = command[d]
      BY <1>2, <3>1 DEF FindWorkspace
    <3>5. command'[c] = [at |-> "upload", previous |-> avatar, ext |-> file.ext, sole |-> others = {}]
      BY <1>2 DEF FindWorkspace
    <3>6. command'[c].at = "upload" /\ command'[c].ext = file.ext
      BY <3>5
    <3>7. command'[c].sole
      <4>1. command'[c].sole = (others = {})
        BY <3>5
      <4> HIDE DEF others
      <4> QED BY <3>1, <4>1
    <3> HIDE DEF others
    <3>8. \A d \in Commands \ {c} : ~command[d].sole /\ ~Updating(d)
      BY <2>2
    <3>9. AvatarStored'
      BY <3>2, <3>3
    <3>10. \A d \in Commands \ {c} : ~command'[d].sole /\ ~Updating(d)'
      BY <3>4, <3>8
    <3>11. file.ext \in Extensions
      BY DEF File
    <3> QED BY <3>6, <3>7, <3>9, <3>10, <3>11
  <2> QED BY <2>1, <2>2
<1>3. ASSUME NEW c \in Commands, Upload(c) PROVE AvatarStored' /\ SoleUpdates'
  BY <1>3 DEF Upload
<1>4. ASSUME NEW c \in Commands, SaveAvatar(c) PROVE AvatarStored' /\ SoleUpdates'
  <2>1. CASE command[c].sole
    <3>1. \A d \in Commands \ {c} : ~Updating(d) /\ ~command[d].sole
      BY <1>4, <2>1 DEF SaveAvatar
    <3>2. avatar' = command[c].ext /\ objects' = objects
      BY <1>4 DEF SaveAvatar
    <3>3. avatar' \in objects'
      BY <1>4, <2>1, <3>2 DEF SaveAvatar
    <3>4. \A d \in Commands \ {c} : command'[d] = command[d]
      BY <1>4 DEF SaveAvatar
    <3>5. CASE command[c].previous \in {NoAvatar, command[c].ext}
      <4>1. command'[c] = NoCommand
        BY <1>4, <3>5 DEF SaveAvatar
      <4>2. \A d \in Commands : ~Updating(d)' /\ ~command'[d].sole
        BY <3>1, <3>4, <4>1
      <4> QED BY <3>3, <4>2
    <3>6. CASE command[c].previous \notin {NoAvatar, command[c].ext}
      <4>1. command'[c].at = "remove" /\ command'[c].previous # avatar' /\ command'[c].ext = avatar'
        BY <1>4, <3>2, <3>6 DEF SaveAvatar
      <4>2. command'[c].sole
        BY <1>4, <2>1, <3>6 DEF SaveAvatar
      <4>3. \A d \in Commands \ {c} : ~Updating(d)' /\ ~command'[d].sole
        BY <3>1, <3>4
      <4>4. command'[c].ext \in Extensions
        BY <1>4, <3>2, <4>1 DEF SaveAvatar
      <4> QED BY <3>3, <4>1, <4>2, <4>3, <4>4
    <3> QED BY <3>5, <3>6
  <2>2. CASE ~command[c].sole
    <3>1. overlapped /\ overlapped'
      BY <1>4, <2>2 DEF SaveAvatar
    <3>2. /\ objects' = objects
          /\ \A d \in Commands \ {c} : command'[d] = command[d] /\ ~command[d].sole
          /\ ~command'[c].sole
          /\ command'[c].ext = command[c].ext \/ command'[c].at = "idle"
      BY <1>4, <2>2 DEF SaveAvatar
    <3> QED BY <1>4, <2>2, <3>1, <3>2 DEF SaveAvatar
  <2> QED BY <2>1, <2>2
<1>5. ASSUME NEW c \in Commands, RemovePrevious(c) PROVE AvatarStored' /\ SoleUpdates'
  BY <1>5 DEF RemovePrevious
<1>6. ASSUME NEW c \in Commands, CommandFails(c) PROVE AvatarStored' /\ SoleUpdates'
  BY <1>6 DEF CommandFails
<1> QED BY <1>1, <1>2, <1>3, <1>4, <1>5, <1>6 DEF RecordsNext

(* Only a creation that stops between its INSERTs leaves no owner.         *)
LEMMA RecordsStepOwner ==
  ASSUME RecordsTypeOK, OwnerlessWasCut, RecordsNext
  PROVE  OwnerlessWasCut'
<1> USE DEF RecordsTypeOK, CommandRecord, OwnerlessWasCut, NoCommand, CommandGoto, EndCommand
<1>1. ASSUME NEW c \in Commands, FindBySlug(c) PROVE OwnerlessWasCut' BY <1>1 DEF FindBySlug
<1>2. ASSUME NEW c \in Commands, InsertWorkspace(c) PROVE OwnerlessWasCut'
  BY <1>2 DEF InsertWorkspace
<1>3. ASSUME NEW c \in Commands, InsertOwner(c) PROVE OwnerlessWasCut' BY <1>3 DEF InsertOwner
<1>4. ASSUME NEW c \in Commands, NEW file \in File, FindWorkspace(c, file)
      PROVE  OwnerlessWasCut'
  BY <1>4 DEF FindWorkspace
<1>5. ASSUME NEW c \in Commands, Upload(c) PROVE OwnerlessWasCut' BY <1>5 DEF Upload
<1>6. ASSUME NEW c \in Commands, SaveAvatar(c) PROVE OwnerlessWasCut' BY <1>6 DEF SaveAvatar
<1>7. ASSUME NEW c \in Commands, RemovePrevious(c) PROVE OwnerlessWasCut'
  BY <1>7 DEF RemovePrevious
<1>8. ASSUME NEW c \in Commands, CommandFails(c) PROVE OwnerlessWasCut' BY <1>8 DEF CommandFails
<1> QED BY <1>1, <1>2, <1>3, <1>4, <1>5, <1>6, <1>7, <1>8 DEF RecordsNext

LEMMA RecordsStep ==
  ASSUME RecordsInv, RecordsNext \/ UNCHANGED recordVars
  PROVE  RecordsInv'
<1>1. CASE RecordsNext
  BY <1>1, RecordsStepType, RecordsStepSole, RecordsStepOwner DEF RecordsInv
<1>2. CASE UNCHANGED recordVars
  BY <1>2 DEF recordVars, RecordsInv, RecordsTypeOK, OwnerlessWasCut, AvatarStored, SoleUpdates,
     Updating
<1> QED BY <1>1, <1>2

LEMMA RecordsAlways == Spec => []RecordsInv
<1>1. Init => RecordsInv
  BY RecordsInitInv DEF Init
<1>2. RecordsInv /\ [Next]_vars => RecordsInv'
  BY StepsOfParts, RecordsStep
<1> QED BY <1>1, <1>2, PTL DEF Spec

(* CreateWorkspaceHandler: a workspace without its owner is one whose      *)
(* creation is under way or was cut off, however many creations race.      *)
THEOREM OwnerlessOnlyCut == Spec => []OwnerlessWasCut
<1>1. RecordsInv => OwnerlessWasCut
  BY DEF RecordsInv
<1> QED BY <1>1, RecordsAlways, PTL

(* UpdateWorkspaceAvatarHandler: the avatar is in storage, after any       *)
(* number of updates that do not overlap and failures anywhere in them.    *)
THEOREM AvatarIsStored == Spec => []AvatarStored
<1>1. RecordsInv => AvatarStored
  BY DEF RecordsInv
<1> QED BY <1>1, RecordsAlways, PTL

-----------------------------------------------------------------------------
(* The notifications.                                                      *)

(* A copy in a request is of a row that is there, is the account's that    *)
(* asked, and is marked as read.                                           *)
CopyOK(m) ==
    mark[m] # NoMark =>
      /\ mark[m].id \in Notes
      /\ mark[m].row.to = mark[m].by /\ mark[m].row.readAt # 0
      /\ note[mark[m].id].to = mark[m].by /\ mark[m].by # Nobody
      /\ note[mark[m].id].type = mark[m].row.type

NotesInv == NotificationsTypeOK /\ \A m \in Marks : CopyOK(m)

LEMMA NotesInitInv == NotificationsInit => NotesInv
<1> SUFFICES ASSUME NotificationsInit PROVE NotesInv OBVIOUS
<1>1. NotificationsTypeOK
  BY NotificationsAssumption DEF NotificationsInit, NotificationsTypeOK, NoNote, NoMark, NoteRow
<1>2. \A m \in Marks : CopyOK(m)
  BY DEF NotificationsInit, CopyOK
<1> QED BY <1>1, <1>2 DEF NotesInv

(* What markAsRead makes of a row.                                         *)
LEMMA MarkedRow ==
  ASSUME NotificationsTypeOK, NEW row \in NoteRow
  PROVE  /\ Marked(row) \in NoteRow /\ Marked(row).readAt # 0
         /\ Marked(row).to = row.to /\ Marked(row).type = row.type
BY NotificationsAssumption DEF NotificationsTypeOK, NoteRow, Marked

(* An invite event makes one notification, or none.                        *)
LEMMA Notices ==
  ASSUME NotificationsNext
  PROVE  \/ UNCHANGED noteVars
         \/ \E n \in Notes, a \in Readers, type \in {"invite", "accepted", "rejected"} :
              CreateNotification(n, a, type)
         \/ \E m \in Marks, n \in Notes, a \in Readers : FindNotification(m, n, a)
         \/ \E m \in Marks : SaveNotification(m) \/ MarkFails(m)
         \/ \E a \in Readers : MarkAllAsRead(a)
         \/ Tomorrow
<1>1. ASSUME NEW n \in Notes, InviteCreated(n)
      PROVE  UNCHANGED noteVars \/ \E a \in Readers : CreateNotification(n, a, "invite")
  BY <1>1 DEF InviteCreated, Invitee
<1>2. ASSUME NEW n \in Notes, InviteAccepted(n)
      PROVE  \E a \in Readers : CreateNotification(n, a, "accepted")
  BY <1>2 DEF InviteAccepted, Inviter
<1>3. ASSUME NEW n \in Notes, InviteRejected(n)
      PROVE  \E a \in Readers : CreateNotification(n, a, "rejected")
  BY <1>3 DEF InviteRejected, Inviter
<1> QED BY <1>1, <1>2, <1>3 DEF NotificationsNext

LEMMA NotesStepType ==
  ASSUME NotesInv, NotificationsNext
  PROVE  NotificationsTypeOK'
<1> USE NotificationsAssumption DEF NotesInv, NotificationsTypeOK
<1>1. ASSUME NEW n \in Notes, NEW a \in Readers, NEW type \in {"invite", "accepted", "rejected"},
             CreateNotification(n, a, type)
      PROVE  NotificationsTypeOK'
  BY <1>1 DEF CreateNotification, NoteRow
<1>2. ASSUME NEW m \in Marks, NEW n \in Notes, NEW a \in Readers, FindNotification(m, n, a)
      PROVE  NotificationsTypeOK'
  BY <1>2, MarkedRow DEF FindNotification
<1>3. ASSUME NEW m \in Marks, SaveNotification(m) \/ MarkFails(m) PROVE NotificationsTypeOK'
  <2>1. NoMark \in [by : Readers \cup {Nobody}, id : Notes \cup {Nobody}, row : NoteRow]
    BY DEF NoMark, NoNote, NoteRow
  <2> QED BY <1>3, <2>1 DEF SaveNotification, MarkFails, CopyOK
<1>4. ASSUME NEW a \in Readers, MarkAllAsRead(a) PROVE NotificationsTypeOK'
  BY <1>4 DEF MarkAllAsRead, NoteRow
<1>5. ASSUME Tomorrow PROVE NotificationsTypeOK'
  BY <1>5 DEF Tomorrow
<1>6. CASE UNCHANGED noteVars
  BY <1>6 DEF noteVars
<1> QED BY <1>1, <1>2, <1>3, <1>4, <1>5, <1>6, Notices

(* No step takes a notification from its account or changes what it is of. *)
LEMMA NotesKeepOwner ==
  ASSUME NotesInv, NotificationsNext, NEW n \in Notes, note[n].to # Nobody
  PROVE  note'[n].to = note[n].to /\ note'[n].type = note[n].type
<1> USE DEF NotesInv, NotificationsTypeOK, NoteRow
<1>1. ASSUME NEW o \in Notes, NEW a \in Readers, NEW type \in {"invite", "accepted", "rejected"},
             CreateNotification(o, a, type)
      PROVE  note'[n].to = note[n].to /\ note'[n].type = note[n].type
  BY <1>1 DEF CreateNotification, NoNote
<1>2. ASSUME NEW m \in Marks, NEW o \in Notes, NEW a \in Readers, FindNotification(m, o, a)
      PROVE  note'[n].to = note[n].to /\ note'[n].type = note[n].type
  BY <1>2 DEF FindNotification
<1>3. ASSUME NEW m \in Marks, SaveNotification(m) \/ MarkFails(m) PROVE note'[n].to = note[n].to /\ note'[n].type = note[n].type
  BY <1>3 DEF SaveNotification, MarkFails, CopyOK
<1>4. ASSUME NEW a \in Readers, MarkAllAsRead(a) PROVE note'[n].to = note[n].to /\ note'[n].type = note[n].type
  BY <1>4 DEF MarkAllAsRead
<1>5. ASSUME Tomorrow PROVE note'[n].to = note[n].to /\ note'[n].type = note[n].type
  BY <1>5 DEF Tomorrow
<1>6. ASSUME UNCHANGED noteVars PROVE note'[n].to = note[n].to /\ note'[n].type = note[n].type
  BY <1>6 DEF noteVars
<1> QED BY <1>1, <1>2, <1>3, <1>4, <1>5, <1>6, Notices

LEMMA NotesStepCopies ==
  ASSUME NotesInv, NotificationsNext
  PROVE  \A m \in Marks : CopyOK(m)'
<1> SUFFICES ASSUME NEW k \in Marks PROVE CopyOK(k)' OBVIOUS
<1>1. mark'[k] = mark[k] \/ mark'[k] = NoMark
        \/ \E n \in Notes, a \in Readers : FindNotification(k, n, a)
  BY Notices DEF NotesInv, NotificationsTypeOK, CreateNotification, FindNotification,
     SaveNotification, MarkFails, MarkAllAsRead, Tomorrow, noteVars
<1>2. CASE mark'[k] = mark[k]
  BY <1>2, NotesKeepOwner DEF NotesInv, CopyOK
<1>3. CASE mark'[k] = NoMark
  BY <1>3 DEF CopyOK
<1>4. ASSUME NEW n \in Notes, NEW a \in Readers, FindNotification(k, n, a) PROVE CopyOK(k)'
  <2>1. mark'[k] = [by |-> a, id |-> n, row |-> Marked(note[n])] /\ note' = note /\ note[n].to = a
    BY <1>4 DEF FindNotification, NotesInv, NotificationsTypeOK
  <2>2. note[n] \in NoteRow
    BY DEF NotesInv, NotificationsTypeOK
  <2>3. /\ Marked(note[n]).to = a /\ Marked(note[n]).readAt # 0
        /\ Marked(note[n]).type = note[n].type
    BY <2>1, <2>2, MarkedRow DEF NotesInv
  <2> QED BY <2>1, <2>3, NotificationsAssumption DEF CopyOK
<1> QED BY <1>1, <1>2, <1>3, <1>4

LEMMA NotesStep ==
  ASSUME NotesInv, NotificationsNext \/ UNCHANGED noteVars
  PROVE  NotesInv'
<1>1. CASE NotificationsNext
  BY <1>1, NotesStepType, NotesStepCopies DEF NotesInv
<1>2. CASE UNCHANGED noteVars
  BY <1>2 DEF noteVars, NotesInv, NotificationsTypeOK, CopyOK
<1> QED BY <1>1, <1>2

(* What the action property says of one step.                              *)
LEMMA NotesStepForGood ==
  ASSUME NotesInv, NotificationsNext, NEW n \in Notes
  PROVE  /\ note[n].to # Nobody => note'[n].to = note[n].to /\ note'[n].type = note[n].type
         /\ note[n].readAt # 0 => note'[n].readAt # 0
         /\ note[n].readAt = 0 /\ note'[n].readAt # 0 =>
              \/ MarkAllAsRead(note[n].to)
              \/ \E m \in Marks : mark[m].by = note[n].to /\ mark[m].id = n
<1>1. note[n].to # Nobody => note'[n].to = note[n].to /\ note'[n].type = note[n].type
  BY NotesKeepOwner
<1>2. ASSUME NEW o \in Notes, NEW a \in Readers, NEW type \in {"invite", "accepted", "rejected"},
             CreateNotification(o, a, type)
      PROVE  note'[n].readAt = note[n].readAt
  BY <1>2 DEF CreateNotification, NoNote, NotesInv, NotificationsTypeOK, NoteRow
<1>3. ASSUME NEW m \in Marks, SaveNotification(m)
      PROVE  /\ note[n].readAt # 0 => note'[n].readAt # 0
             /\ note'[n].readAt # note[n].readAt => mark[m].by = note[n].to /\ mark[m].id = n
  BY <1>3 DEF SaveNotification, NotesInv, NotificationsTypeOK, CopyOK
<1>4. ASSUME NEW a \in Readers, MarkAllAsRead(a)
      PROVE  /\ note[n].readAt # 0 => note'[n].readAt # 0
             /\ note'[n].readAt # note[n].readAt => a = note[n].to
  BY <1>4 DEF MarkAllAsRead, NotesInv, NotificationsTypeOK, NoteRow
<1>5. ASSUME note' = note PROVE note'[n].readAt = note[n].readAt
  BY <1>5
<1>6. \/ \E o \in Notes, a \in Readers, type \in {"invite", "accepted", "rejected"} :
            CreateNotification(o, a, type)
      \/ \E m \in Marks : SaveNotification(m)
      \/ \E a \in Readers : MarkAllAsRead(a)
      \/ note' = note
  BY Notices DEF FindNotification, MarkFails, Tomorrow, noteVars
<1> QED BY <1>1, <1>2, <1>3, <1>4, <1>5, <1>6

(* DrizzleNotificationRepository: a notification that is read stays read   *)
(* and its account's, and only that account's requests mark it.            *)
THEOREM StaysRead == Spec => ReadForGood
<1>1. Init => NotesInv
  BY NotesInitInv DEF Init
<1>2. NotesInv /\ [Next]_vars => NotesInv'
  BY StepsOfParts, NotesStep
<1>3. NotesInv /\ [Next]_vars =>
        [\A n \in Notes :
          /\ note[n].to # Nobody => note'[n].to = note[n].to /\ note'[n].type = note[n].type
          /\ note[n].readAt # 0 => note'[n].readAt # 0
          /\ note[n].readAt = 0 /\ note'[n].readAt # 0 =>
               \/ MarkAllAsRead(note[n].to)
               \/ \E m \in Marks : mark[m].by = note[n].to /\ mark[m].id = n]_noteVars
  BY StepsOfParts, NotesStepForGood
<1> QED BY <1>1, <1>2, <1>3, PTL DEF Spec, ReadForGood

-----------------------------------------------------------------------------
(* The watched list.                                                       *)

LEMMA ListStep ==
  ASSUME ChangesApart, ListNext \/ UNCHANGED listVars
  PROVE  ChangesApart'
BY DEF ChangesApart, ListNext, listVars, AddItem, RemoveItem, UpdateList

(* WatchedList: what is to be inserted and what is to be deleted stay      *)
(* apart, for lists of any length and any sequence of calls.               *)
THEOREM ChangesStayApart == Spec => []ChangesApart
<1>1. Init => ChangesApart
  BY DEF Init, ListInit, ChangesApart
<1>2. ChangesApart /\ [Next]_vars => ChangesApart'
  BY StepsOfParts, ListStep
<1> QED BY <1>1, <1>2, PTL DEF Spec

LEMMA ListStepType ==
  ASSUME ListTypeOK, ListNext \/ UNCHANGED listVars
  PROVE  ListTypeOK'
BY DEF ListTypeOK, ListNext, listVars, AddItem, RemoveItem, UpdateList

-----------------------------------------------------------------------------
(* The tab of the web client.                                              *)

(* Before the bootstrap has resolved there is no page, and only then.      *)
BootFirst ==
    /\ action[Boot].at \in {"idle", "me", "told"}
    /\ route = "none" <=> action[Boot].at # "idle"
    /\ route = "none" => status = "loading" /\ \A o \in Actions : action[o].at = "idle"

(* An action that is alone, or of a tab that has not drifted, is the only  *)
(* one; what an action that is alone was told of the session still holds.  *)
OneByOne ==
    /\ \A o, p \in UnderWay : action[o].alone \/ ~drifted => o = p
    /\ \A o \in UnderWay : action[o].alone /\ action[o].at = "told" /\ action[o].ok => session

(* What store and cookies are while an action is on its way, in a tab that *)
(* has not drifted.                                                        *)
Stage(o) ==
    /\ action[o].at = "authenticate" => status # "authenticated" /\ ~session
    /\ action[o].at = "me" /\ o # Boot => status # "authenticated" /\ session
    /\ action[o].at = "told" => status # "authenticated" /\ (action[o].ok <=> session)
    /\ action[o].at = "told" /\ o # Boot => action[o].ok
    /\ action[o].at \in {"refetch", "logout"} => status = "authenticated" /\ session
    /\ action[o].at = "out" => status = "authenticated" /\ (action[o].ok => ~session)
    /\ action[o].at = "leave" => (status = "authenticated" <=> session)

WebInv ==
    /\ WebTypeOK /\ BootFirst /\ OneByOne
    /\ ~drifted => \A o \in Calls : Stage(o)
    /\ TabTellsTheSession /\ PageFollowsStore

LEMMA NoActionType == NoAction \in ActionRecord
BY DEF NoAction, ActionRecord

LEMMA WebInitInv == WebInit => WebInv
<1> SUFFICES ASSUME WebInit PROVE WebInv OBVIOUS
<1> DEFINE booting == [NoAction EXCEPT !.at = "me", !.alone = TRUE]
<1>0. /\ booting \in ActionRecord /\ booting.at = "me"
      /\ NoAction.at = "idle" /\ Boot \in Calls /\ Actions = Calls \ {Boot}
  BY WebSessionAssumption DEF NoAction, ActionRecord, Calls
<1>1. action = [o \in Calls |-> IF o = Boot THEN booting ELSE NoAction]
  BY DEF WebInit
<1> HIDE DEF booting
<1>2. WebTypeOK
  BY <1>0, <1>1, NoActionType DEF WebInit, WebTypeOK
<1>3. UnderWay = {Boot}
  BY <1>0, <1>1 DEF UnderWay
<1>4. BootFirst /\ OneByOne
  BY <1>0, <1>1, <1>3 DEF WebInit, BootFirst, OneByOne
<1>5. \A o \in Calls : Stage(o)
  BY <1>0, <1>1 DEF WebInit, Stage
<1> QED BY <1>0, <1>2, <1>3, <1>4, <1>5 DEF WebInit, WebInv, TabTellsTheSession, PageFollowsStore

(* The actions that take one call further, or end it.                      *)
Further(o) ==
    \/ MeServed(o) \/ (o = Boot /\ Bootstrapped)
    \/ /\ o \in Actions
       /\ \/ Authenticated(o) \/ AuthenticateFails(o) \/ LoggedIn(o) \/ MeFails(o) \/ Refetched(o)
          \/ LogoutServed(o) \/ LoggedOut(o) \/ LogoutFails(o) \/ Leave(o) \/ EscapeHatch(o)

LEMMA WebActions ==
  ASSUME WebNext
  PROVE  \/ Navigate \/ Elsewhere
         \/ \E o \in Calls : Further(o)
         \/ \E o \in Actions : SignIn(o) \/ SignOut(o)
BY DEF WebNext, Further, Calls

(* What a step makes of its own call, and that it leaves the others alone. *)
LEMMA WebMoves ==
  ASSUME WebTypeOK, NEW o \in Calls, Further(o)
  PROVE  /\ action'[o] \in ActionRecord
         /\ action' = [action EXCEPT ![o] = action'[o]]
         /\ action'[o].at # "idle" => action'[o].alone = action[o].alone
<1> USE DEF WebTypeOK, ActionRecord
<1>1. ASSUME NEW r \in ActionRecord, action' = [action EXCEPT ![o] = r],
             r.at # "idle" => r.alone = action[o].alone
      PROVE  /\ action'[o] \in ActionRecord
             /\ action' = [action EXCEPT ![o] = action'[o]]
             /\ action'[o].at # "idle" => action'[o].alone = action[o].alone
  BY <1>1
<1>2. CASE EndAction(o)
  BY <1>1, <1>2, NoActionType DEF EndAction, NoAction
<1>3. ASSUME NEW r, r \in ActionRecord, r.alone = action[o].alone,
             action' = [action EXCEPT ![o] = r]
      PROVE  /\ action'[o] \in ActionRecord
             /\ action' = [action EXCEPT ![o] = action'[o]]
             /\ action'[o].at # "idle" => action'[o].alone = action[o].alone
  BY <1>1, <1>3
<1> DEFINE At(at) == [action[o] EXCEPT !.at = at]
           Told(at, ok) == [action[o] EXCEPT !.at = at, !.ok = ok]
           Alarm(at, alarm) == [action[o] EXCEPT !.at = at, !.alarm = alarm]
<1>4. action[o] \in ActionRecord
  OBVIOUS
<1>5. ASSUME NEW at \in {"me", "refetch", "leave"}, Goto(o, at)
      PROVE  action' = [action EXCEPT ![o] = At(at)]
  BY <1>5 DEF Goto
<1>6. ASSUME NEW at \in {"me", "refetch", "leave"}
      PROVE  At(at) \in ActionRecord /\ At(at).alone = action[o].alone
  BY <1>4
<1>7. ASSUME NEW at \in {"told", "out"}, NEW ok \in BOOLEAN
      PROVE  Told(at, ok) \in ActionRecord /\ Told(at, ok).alone = action[o].alone
  BY <1>4
<1>8. Alarm("leave", TRUE) \in ActionRecord /\ Alarm("leave", TRUE).alone = action[o].alone
  BY <1>4
<1>9. ASSUME EscapeHatch(o)
      PROVE  action' = [action EXCEPT ![o] = Alarm(action[o].at, FALSE)]
  BY <1>9 DEF EscapeHatch
<1>10. Alarm(action[o].at, FALSE) \in ActionRecord /\ Alarm(action[o].at, FALSE).alone = action[o].alone
  BY <1>4
<1>11. ASSUME MeServed(o)
      PROVE  \E ok \in BOOLEAN : action' = [action EXCEPT ![o] = Told("told", ok)]
  BY <1>11 DEF MeServed
<1>12. ASSUME LogoutServed(o)
      PROVE  \E ok \in BOOLEAN : action' = [action EXCEPT ![o] = Told("out", ok)]
  BY <1>12 DEF LogoutServed
<1>13. ASSUME Refetched(o)
      PROVE  action' = [action EXCEPT ![o] = Alarm("leave", TRUE)]
  BY <1>13 DEF Refetched
<1> HIDE DEF At, Told, Alarm
<1>14. \/ EndAction(o) \/ \E at \in {"me", "refetch", "leave"} : Goto(o, at)
      \/ MeServed(o) \/ LogoutServed(o) \/ Refetched(o) \/ EscapeHatch(o)
  BY DEF Further, Bootstrapped, Authenticated, AuthenticateFails, LoggedIn, MeFails, LoggedOut,
         LogoutFails, Leave
<1>15. CASE \E at \in {"me", "refetch", "leave"} : Goto(o, at)
  BY <1>3, <1>5, <1>6, <1>15
<1>16. CASE MeServed(o) \/ LogoutServed(o)
  BY <1>3, <1>7, <1>11, <1>12, <1>16
<1>17. CASE Refetched(o)
  BY <1>3, <1>8, <1>13, <1>17
<1>18. CASE EscapeHatch(o)
  BY <1>3, <1>9, <1>10, <1>18
<1> QED BY <1>2, <1>14, <1>15, <1>16, <1>17, <1>18

(* What a button makes of the calls.                                       *)
LEMMA WebBegins ==
  ASSUME WebTypeOK, NEW o \in Actions, NEW at \in {"authenticate", "logout"}, NEW alarm \in BOOLEAN,
         Begin(o, at, alarm)
  PROVE  /\ action' \in [Calls -> ActionRecord] /\ drifted' \in BOOLEAN
         /\ action[o].at = "idle" /\ action'[o].at = at
         /\ action'[o].alone <=> UnderWay = {}
         /\ \A p \in Calls \ {o} : action'[p].at = action[p].at /\ action'[p].ok = action[p].ok
                                   /\ ~action'[p].alone
         /\ drifted' <=> drifted \/ UnderWay # {}
<1>1. o \in Calls
  BY DEF Calls
<1>2. action' = [p \in Calls |->
                   IF p = o THEN [at |-> at, ok |-> FALSE, alarm |-> alarm, alone |-> UnderWay = {}]
                            ELSE [action[p] EXCEPT !.alone = FALSE]]
  BY DEF Begin
<1>3. \A p \in Calls : [action[p] EXCEPT !.alone = FALSE] \in ActionRecord
  BY DEF WebTypeOK, ActionRecord
<1>4. [at |-> at, ok |-> FALSE, alarm |-> alarm, alone |-> UnderWay = {}] \in ActionRecord
  BY DEF ActionRecord
<1>5. action' \in [Calls -> ActionRecord]
  BY <1>2, <1>3, <1>4
<1>6. drifted' \in BOOLEAN /\ (drifted' <=> drifted \/ UnderWay # {})
  BY DEF Begin
<1>7. action[o].at = "idle"
  BY DEF Begin
<1>8. \A p \in Calls \ {o} : action'[p].at = action[p].at /\ action'[p].ok = action[p].ok
                              /\ ~action'[p].alone
  BY <1>2 DEF WebTypeOK, ActionRecord
<1> QED BY <1>1, <1>2, <1>5, <1>6, <1>7, <1>8

LEMMA WebStepType ==
  ASSUME WebTypeOK, WebNext
  PROVE  WebTypeOK'
<1> USE DEF WebTypeOK
<1>1. CASE Navigate BY <1>1 DEF Navigate, Guarded
<1>2. CASE Elsewhere
  <2>1. \A o \in Calls : [action[o] EXCEPT !.alone = FALSE] \in ActionRecord
    BY DEF ActionRecord
  <2>2. action' \in [Calls -> ActionRecord]
    BY <1>2, <2>1 DEF Elsewhere
  <2> QED BY <1>2, <2>2 DEF Elsewhere
<1>3. ASSUME NEW o \in Actions, SignIn(o) \/ SignOut(o)
      PROVE  WebTypeOK'
  <2>1. action' \in [Calls -> ActionRecord] /\ drifted' \in BOOLEAN
    BY <1>3, WebBegins DEF SignIn, SignOut
  <2> QED BY <1>3, <2>1 DEF SignIn, SignOut
<1>4. ASSUME NEW o \in Calls, Further(o)
      PROVE  WebTypeOK'
  <2>1. action' \in [Calls -> ActionRecord]
    BY <1>4, WebMoves
  <2>2. /\ status' \in {"loading", "authenticated", "unauthenticated"}
        /\ route' \in {"none", "login", "app"}
    BY <1>4 DEF Further, MeServed, Bootstrapped, Authenticated, AuthenticateFails, LoggedIn, MeFails,
       Refetched, LogoutServed, LoggedOut, LogoutFails, Leave, EscapeHatch, Guarded
  <2>3. transitioning' \in BOOLEAN
    BY <1>4 DEF Further, MeServed, Bootstrapped, Authenticated, AuthenticateFails, LoggedIn, MeFails,
       Refetched, LogoutServed, LoggedOut, LogoutFails, Leave, EscapeHatch
  <2>4. session' \in BOOLEAN
    BY <1>4, Zenon DEF Further, MeServed, Bootstrapped, Authenticated, AuthenticateFails, LoggedIn,
       MeFails, Refetched, LogoutServed, LoggedOut, LogoutFails, Leave, EscapeHatch
  <2>5. drifted' \in BOOLEAN
    BY <1>4, Zenon DEF Further, MeServed, Bootstrapped, Authenticated, AuthenticateFails, LoggedIn,
       MeFails, Refetched, LogoutServed, LoggedOut, LogoutFails, Leave, EscapeHatch
  <2> QED BY <2>1, <2>2, <2>3, <2>4, <2>5
<1> QED BY <1>1, <1>2, <1>3, <1>4, WebActions

(* A call that goes further is under way, or its timer goes off; no other  *)
(* call begins; the tab stops drifting only for a call that is alone.      *)
LEMMA WebFrame ==
  ASSUME WebTypeOK, NEW o \in Calls, Further(o)
  PROVE  /\ \A p \in Calls \ {o} : action'[p] = action[p]
         /\ UnderWay' \subseteq UnderWay
         /\ o \in UnderWay \/ (o \in Actions /\ EscapeHatch(o))
         /\ ~drifted' => ~drifted \/ (o \in UnderWay /\ action[o].alone)
         /\ o \in Actions /\ EscapeHatch(o) =>
               action'[o].at = action[o].at /\ action'[o].ok = action[o].ok
<1> USE DEF WebTypeOK
<1>1. \A p \in Calls \ {o} : action'[p] = action[p]
  BY WebMoves
<1>2. o \in UnderWay \/ (o \in Actions /\ EscapeHatch(o))
  BY DEF Further, UnderWay, MeServed, Bootstrapped, Authenticated, AuthenticateFails, LoggedIn, MeFails,
         Refetched, LogoutServed, LoggedOut, LogoutFails, Leave
<1>3. o \in Actions /\ EscapeHatch(o) =>
         action'[o].at = action[o].at /\ action'[o].ok = action[o].ok
  BY DEF EscapeHatch, ActionRecord
<1>4. UnderWay' \subseteq UnderWay
  BY <1>1, <1>2, <1>3 DEF UnderWay
<1>5. ~drifted' => ~drifted \/ action[o].alone
  BY Zenon DEF Further, MeServed, Bootstrapped, Authenticated, AuthenticateFails, LoggedIn, MeFails,
       Refetched, LogoutServed, LoggedOut, LogoutFails, Leave, EscapeHatch
<1>6. o \in Actions /\ EscapeHatch(o) => drifted' = drifted
  BY DEF EscapeHatch
<1> QED BY <1>1, <1>2, <1>3, <1>4, <1>5, <1>6

(* Where each step takes its call, and what the call has then been told.   *)
LEMMA WebTurns ==
  ASSUME WebTypeOK, NEW o \in Calls
  PROVE  /\ EndAction(o) => action'[o].at = "idle"
         /\ \A at \in {"me", "refetch", "leave"} :
               Goto(o, at) => action'[o].at = at /\ action'[o].ok = action[o].ok
         /\ MeServed(o) => /\ action'[o].at = "told" /\ (action'[o].ok => session)
                           /\ (session /\ ~drifted' => action'[o].ok)
         /\ LogoutServed(o) => action'[o].at = "out" /\ (action'[o].ok => ~session')
         /\ Refetched(o) => action'[o].at = "leave"
<1> USE DEF WebTypeOK, ActionRecord
<1>1. EndAction(o) => action'[o].at = "idle"
  BY DEF EndAction, NoAction
<1>2. ASSUME NEW at \in {"me", "refetch", "leave"}, Goto(o, at)
      PROVE  action'[o].at = at /\ action'[o].ok = action[o].ok
  <2>1. action' = [action EXCEPT ![o] = [action[o] EXCEPT !.at = at]]
    BY <1>2 DEF Goto
  <2> QED BY <2>1
<1>3. ASSUME MeServed(o)
      PROVE  /\ action'[o].at = "told" /\ (action'[o].ok => session)
             /\ (session /\ ~drifted' => action'[o].ok)
  <2>1. PICK ok \in {session, FALSE} :
          /\ action' = [action EXCEPT ![o] = [action[o] EXCEPT !.at = "told", !.ok = ok]]
          /\ drifted' = (drifted \/ (session /\ ~ok))
    BY <1>3 DEF MeServed
  <2>2. action'[o].at = "told" /\ action'[o].ok = ok
    BY <2>1
  <2>3. session /\ ~drifted' => ok
    BY <2>1, Zenon
  <2>4. ok => session
    BY <2>1, Zenon
  <2> QED BY <2>2, <2>3, <2>4, Zenon
<1>4. ASSUME LogoutServed(o)
      PROVE  action'[o].at = "out" /\ (action'[o].ok => ~session')
  <2>1. PICK ok \in BOOLEAN :
          /\ session' \in (IF ok THEN {FALSE} ELSE {session, FALSE})
          /\ action' = [action EXCEPT ![o] = [action[o] EXCEPT !.at = "out", !.ok = ok]]
    BY <1>4 DEF LogoutServed
  <2>2. action'[o].at = "out" /\ action'[o].ok = ok
    BY <2>1
  <2> QED BY <2>1, <2>2
<1>5. Refetched(o) => action'[o].at = "leave"
  BY DEF Refetched
<1> QED BY <1>1, <1>2, <1>3, <1>4, <1>5

LEMMA WebStepBoot ==
  ASSUME WebTypeOK, BootFirst, NEW o \in Calls, Further(o)
  PROVE  BootFirst'
<1> USE DEF WebTypeOK
<1>1. CASE o = Boot /\ MeServed(o)
  <2>1. action'[Boot].at = "told" /\ \A p \in Calls \ {Boot} : action'[p] = action[p]
    BY <1>1, WebMoves DEF MeServed, ActionRecord
  <2> QED BY <1>1, <2>1, WebSessionAssumption DEF BootFirst, MeServed, Calls
<1>2. CASE o = Boot /\ Bootstrapped
  <2>1. action'[Boot].at = "idle" /\ route' # "none"
    BY <1>2 DEF Bootstrapped, EndAction, NoAction
  <2> QED BY <2>1 DEF BootFirst
<1>3. CASE o \in Actions
  <2>1. action'[Boot] = action[Boot]
    BY <1>3, WebFrame, WebSessionAssumption DEF Calls
  <2>2. CASE o \in UnderWay
    <3>1. route # "none"
      BY <1>3, <2>2 DEF BootFirst, UnderWay
    <3>2. route' # "none"
      BY <1>3, <3>1, WebSessionAssumption DEF Further, MeServed, Authenticated, AuthenticateFails,
         LoggedIn, MeFails, Refetched, LogoutServed, LoggedOut, LogoutFails, Leave, EscapeHatch, Guarded
    <3> QED BY <2>1, <3>1, <3>2 DEF BootFirst
  <2>3. CASE EscapeHatch(o)
    <3>1. \A p \in Actions : action'[p].at = action[p].at
      BY <1>3, <2>3, WebFrame DEF Calls
    <3> QED BY <2>1, <2>3, <3>1 DEF BootFirst, EscapeHatch
  <2> QED BY <2>2, <2>3, WebFrame
<1> QED BY <1>1, <1>2, <1>3, WebSessionAssumption DEF Further, Calls

LEMMA WebStepAlone ==
  ASSUME WebTypeOK, OneByOne, NEW o \in Calls, Further(o)
  PROVE  OneByOne'
<1> USE DEF WebTypeOK
<1>1. \A p \in UnderWay' : action'[p].alone => action[p].alone
  BY WebFrame, WebMoves DEF UnderWay
<1>2. \A p, q \in UnderWay' : action'[p].alone \/ ~drifted' => p = q
  BY <1>1, WebFrame DEF OneByOne
<1>3. ASSUME NEW p \in UnderWay', action'[p].alone, action'[p].at = "told", action'[p].ok
      PROVE  session'
  <2>1. CASE o \in Actions /\ EscapeHatch(o)
    <3>1. action'[p].at = action[p].at /\ action'[p].ok = action[p].ok /\ p \in UnderWay
      BY <1>3, <2>1, WebFrame DEF UnderWay
    <3> QED BY <1>1, <1>3, <2>1, <3>1 DEF OneByOne, EscapeHatch
  <2>2. CASE o \in UnderWay /\ ~(o \in Actions /\ EscapeHatch(o))
    <3>1. p = o
      BY <1>1, <1>3, <2>2, WebFrame DEF OneByOne
    <3>2. MeServed(o)
      BY <1>3, <2>2, <3>1, WebTurns DEF Further, Bootstrapped, Authenticated, AuthenticateFails, LoggedIn,
         MeFails, LoggedOut, LogoutFails, Leave
    <3>3. session' = session /\ (action'[o].ok => session)
      BY <3>2, WebTurns DEF MeServed
    <3> QED BY <1>3, <3>1, <3>3
  <2> QED BY <2>1, <2>2, WebFrame
<1> QED BY <1>2, <1>3 DEF OneByOne

(* In a tab that has not drifted each step leads from stage to stage.      *)
LEMMA WebStepStage ==
  ASSUME WebInv, NEW o \in Calls, Further(o), ~drifted'
  PROVE  \A p \in Calls : Stage(p)'
<1> USE DEF WebInv, WebTypeOK
<1>1. CASE o \in Actions /\ EscapeHatch(o)
  <2>1. /\ \A p \in Calls : action'[p].at = action[p].at /\ action'[p].ok = action[p].ok
        /\ status' = status /\ session' = session /\ ~drifted
    BY <1>1, WebFrame DEF EscapeHatch
  <2> QED BY <2>1 DEF Stage
<1>2. CASE ~(o \in Actions /\ EscapeHatch(o))
  <2>1. o \in UnderWay /\ UnderWay \subseteq {o}
    BY <1>2, WebFrame DEF OneByOne
  <2>2. ASSUME NEW p \in Calls \ {o}
        PROVE  Stage(p)'
    <3>1. action'[p].at = "idle"
      BY <2>1, <2>2, WebFrame DEF UnderWay
    <3> QED BY <3>1 DEF Stage
  <2>3. Stage(o)'
    <3>1. ~drifted => Stage(o)
      OBVIOUS
    <3>2. CASE MeServed(o)
      <4>1. status # "authenticated" /\ (o # Boot => session)
        <5>1. CASE o = Boot
          BY <3>2, <5>1 DEF MeServed, BootFirst
        <5>2. CASE o # Boot
          BY <3>1, <3>2, <5>2, Zenon DEF MeServed, Stage
        <5> QED BY <5>1, <5>2
      <4>2. status' = status /\ session' = session
        BY <3>2 DEF MeServed
      <4> QED BY <3>2, <4>1, <4>2, WebTurns DEF Stage
    <3>3. CASE (o = Boot /\ Bootstrapped) \/ AuthenticateFails(o) \/ MeFails(o) \/ LogoutFails(o) \/ Leave(o)
      <4>1. action'[o].at = "idle"
        BY <3>3, WebTurns DEF Bootstrapped, AuthenticateFails, MeFails, LogoutFails, Leave
      <4> QED BY <4>1 DEF Stage
    <3>4. CASE Authenticated(o)
      BY <3>1, <3>4, WebTurns DEF Authenticated, Stage
    <3>5. CASE o \in Actions /\ LoggedIn(o)
      <4>1. session
        BY <2>1, <3>1, <3>5, WebFrame DEF LoggedIn, Stage, OneByOne
      <4> QED BY <3>5, <4>1, WebTurns DEF LoggedIn, Stage
    <3>6. CASE Refetched(o)
      BY <3>1, <3>6, WebTurns DEF Refetched, Stage
    <3>7. CASE LogoutServed(o)
      BY <3>1, <3>7, WebTurns DEF LogoutServed, Stage
    <3>8. CASE LoggedOut(o)
      BY <3>8, WebTurns DEF LoggedOut, Stage
    <3> QED BY <1>2, <3>2, <3>3, <3>4, <3>5, <3>6, <3>7, <3>8 DEF Further
  <2> QED BY <2>2, <2>3
<1> QED BY <1>1, <1>2

LEMMA WebStepTells ==
  ASSUME WebInv, NEW o \in Calls, Further(o)
  PROVE  TabTellsTheSession'
<1> USE DEF WebInv, WebTypeOK
<1> SUFFICES ASSUME ~drifted', UnderWay' = {}
             PROVE  (status = "authenticated" <=> session)'
  BY DEF TabTellsTheSession
<1>1. action'[o].at = "idle"
  BY DEF UnderWay
<1>2. CASE o \in Actions /\ EscapeHatch(o)
  <2>1. UnderWay = {}
    BY <1>2, WebFrame DEF UnderWay
  <2> QED BY <1>2, <2>1 DEF TabTellsTheSession, EscapeHatch
<1>3. CASE ~(o \in Actions /\ EscapeHatch(o))
  <2>1. \/ o = Boot /\ Bootstrapped
        \/ o \in Actions /\ (AuthenticateFails(o) \/ MeFails(o) \/ LogoutFails(o) \/ Leave(o))
    BY <1>1, <1>3, WebTurns DEF Further, Authenticated, LoggedIn, LoggedOut
  <2>2. ~drifted /\ Stage(o)
    BY <2>1, Zenon DEF Bootstrapped, AuthenticateFails, MeFails, LogoutFails, Leave
  <2>3. CASE o = Boot /\ Bootstrapped
    BY <2>2, <2>3 DEF Bootstrapped, Stage
  <2>4. CASE AuthenticateFails(o)
    <3>1. action[o].at = "authenticate" /\ session' \in {session, FALSE} /\ status' = status
      BY <2>4, Zenon DEF AuthenticateFails
    <3>2. status # "authenticated" /\ ~session
      BY <2>2, <3>1 DEF Stage
    <3>3. session' = session \/ session' = FALSE
      BY <3>1
    <3>4. ~session'
      BY <3>2, <3>3
    <3> QED BY <3>1, <3>2, <3>4
  <2>5. CASE o \in Actions /\ MeFails(o)
    BY <2>2, <2>5, WebSessionAssumption DEF MeFails, Stage
  <2>6. CASE LogoutFails(o)
    <3>1. session /\ session' = session /\ status' = status
      BY <2>6, Zenon DEF LogoutFails
    <3> QED BY <2>2, <2>6, <3>1 DEF LogoutFails, Stage
  <2>7. CASE Leave(o)
    BY <2>2, <2>7 DEF Leave, Stage
  <2> QED BY <2>1, <2>3, <2>4, <2>5, <2>6, <2>7
<1> QED BY <1>2, <1>3

LEMMA WebStepPage ==
  ASSUME WebTypeOK, PageFollowsStore, NEW o \in Calls, Further(o)
  PROVE  PageFollowsStore'
<1> USE DEF WebTypeOK
<1>1. CASE LoggedIn(o) \/ Refetched(o) \/ LoggedOut(o)
  <2>1. action'[o].at \in {"refetch", "leave"}
    BY <1>1, WebTurns DEF LoggedIn, LoggedOut
  <2> QED BY <2>1 DEF PageFollowsStore
<1>2. CASE Bootstrapped \/ Leave(o)
  BY <1>2 DEF Bootstrapped, Leave, PageFollowsStore, Guarded
<1>3. ASSUME \/ MeServed(o) \/ Authenticated(o) \/ AuthenticateFails(o) \/ MeFails(o)
             \/ LogoutServed(o) \/ LogoutFails(o) \/ EscapeHatch(o)
      PROVE  PageFollowsStore'
  <2>1. status' = status /\ route' = route
    BY <1>3 DEF MeServed, Authenticated, AuthenticateFails, MeFails, LogoutServed, LogoutFails, EscapeHatch
  <2>2. action[o].at \in {"refetch", "leave"} => action'[o].at = action[o].at
    BY <1>3 DEF MeServed, Authenticated, AuthenticateFails, MeFails, LogoutServed, LogoutFails,
       EscapeHatch, ActionRecord
  <2> QED BY <2>1, <2>2, WebFrame DEF PageFollowsStore, Guarded
<1> QED BY <1>1, <1>2, <1>3 DEF Further

LEMMA WebStep ==
  ASSUME WebInv, WebNext \/ UNCHANGED webVars
  PROVE  WebInv'
<1> USE DEF WebInv
<1>1. CASE UNCHANGED webVars
  BY <1>1 DEF webVars, WebTypeOK, BootFirst, OneByOne, Stage, UnderWay, TabTellsTheSession,
     PageFollowsStore, Guarded
<1>2. ASSUME WebNext, NEW o \in Calls, Further(o)
      PROVE  WebInv'
  BY <1>2, WebStepType, WebStepBoot, WebStepAlone, WebStepStage, WebStepTells, WebStepPage
<1>3. CASE WebNext /\ Navigate
  <2>1. WebTypeOK'
    BY <1>3, WebStepType
  <2> QED BY <1>3, <2>1 DEF WebTypeOK, BootFirst, OneByOne, Stage, UnderWay, TabTellsTheSession, Navigate,
     PageFollowsStore, Guarded
<1>4. CASE WebNext /\ Elsewhere
  <2>1. WebTypeOK'
    BY <1>4, WebStepType
  <2>2. \A o \in Calls : action'[o].at = action[o].at /\ ~action'[o].alone
    BY <1>4 DEF Elsewhere, WebTypeOK, ActionRecord
  <2>3. drifted' /\ status' = status /\ route' = route
    BY <1>4 DEF Elsewhere
  <2>4. BootFirst'
    BY <2>2, <2>3, WebSessionAssumption DEF BootFirst, Calls
  <2> QED BY <2>1, <2>2, <2>3, <2>4 DEF OneByOne, UnderWay, TabTellsTheSession, PageFollowsStore, Guarded
<1>5. ASSUME WebNext, NEW o \in Actions, SignIn(o) \/ SignOut(o)
      PROVE  WebInv'
  <2>1. WebTypeOK' /\ o \in Calls
    BY <1>5, WebStepType DEF Calls
  <2>2. PICK at \in {"authenticate", "logout"} :
          /\ action[o].at = "idle" /\ action'[o].at = at
          /\ action'[o].alone <=> UnderWay = {}
          /\ \A p \in Calls \ {o} : action'[p].at = action[p].at /\ action'[p].ok = action[p].ok
                                    /\ ~action'[p].alone
          /\ drifted' <=> drifted \/ UnderWay # {}
          /\ at = "authenticate" <=> SignIn(o)
    BY <1>5, WebBegins DEF SignIn, SignOut
  <2>3. status' = status /\ session' = session /\ route' = route
    BY <1>5 DEF SignIn, SignOut
  <2>4. UnderWay' = UnderWay \cup {o}
    BY <2>1, <2>2 DEF UnderWay
  <2>5. route # "none"
    BY <1>5 DEF SignIn, SignOut
  <2>6. BootFirst'
    BY <2>2, <2>3, <2>5, WebSessionAssumption DEF BootFirst, Calls
  <2>7. OneByOne'
    BY <2>2, <2>4 DEF OneByOne, UnderWay
  <2>8. ASSUME ~drifted', NEW p \in Calls
        PROVE  Stage(p)'
    <3>1. UnderWay = {} /\ ~drifted
      BY <2>2, <2>8
    <3>2. CASE p # o
      BY <2>2, <3>1, <3>2 DEF UnderWay, Stage
    <3>3. CASE p = o
      <4>1. route = Guarded /\ (status = "authenticated" <=> session)
        BY <2>5, <3>1 DEF PageFollowsStore, TabTellsTheSession, UnderWay
      <4> QED BY <1>5, <2>2, <2>3, <3>3, <4>1 DEF Stage, Guarded, SignIn, SignOut
    <3> QED BY <3>2, <3>3
  <2>9. TabTellsTheSession'
    BY <2>4 DEF TabTellsTheSession
  <2>10. PageFollowsStore'
    BY <2>2, <2>3 DEF PageFollowsStore, Guarded
  <2> QED BY <2>1, <2>6, <2>7, <2>8, <2>9, <2>10
<1> QED BY <1>1, <1>2, <1>3, <1>4, <1>5, WebActions

-----------------------------------------------------------------------------
(* bootstrap-session.ts: unless something touched the session elsewhere, a *)
(* call failed or two actions overlapped, the store tells the session.     *)
THEOREM TabKnowsItsSession == Spec => []TabTellsTheSession
<1>1. Init => WebInv
  BY WebInitInv DEF Init
<1>2. WebInv /\ [Next]_vars => WebInv'
  BY StepsOfParts, WebStep
<1>3. WebInv => TabTellsTheSession
  BY DEF WebInv
<1> QED BY <1>1, <1>2, <1>3, PTL DEF Spec

(* The route guards: the page is one the store allows, however many logins *)
(* and logouts are under way, or a navigation is still to come.            *)
THEOREM PageIsGuarded == Spec => []PageFollowsStore
<1>1. Init => WebInv
  BY WebInitInv DEF Init
<1>2. WebInv /\ [Next]_vars => WebInv'
  BY StepsOfParts, WebStep
<1>3. WebInv => PageFollowsStore
  BY DEF WebInv
<1> QED BY <1>1, <1>2, <1>3, PTL DEF Spec

-----------------------------------------------------------------------------
(* The parts keep their types, for every value of the constants.           *)
THEOREM TypesHold == Spec => []TypeOK
<1> DEFINE Inv == RateInv /\ SignUpInv /\ RecordsInv /\ NotesInv /\ ListTypeOK /\ WebInv
<1>1. Init => Inv
  <2>1. Init => ListTypeOK
    BY DEF Init, ListInit, ListTypeOK
  <2> QED BY <2>1, RateInitInv, SignUpInitInv, RecordsInitInv, NotesInitInv, WebInitInv DEF Init
<1>2. Inv /\ [Next]_vars => Inv'
  BY StepsOfParts, RateStep, SignUpStep, RecordsStep, NotesStep, ListStepType, WebStep
<1>3. Inv => TypeOK
  BY DEF RateInv, SignUpInv, RecordsInv, NotesInv, WebInv, TypeOK
<1> QED BY <1>1, <1>2, <1>3, PTL DEF Spec

-----------------------------------------------------------------------------
(* Pagination.                                                             *)

Pages(rows, limit) == Calculate(Len(rows), 1, limit).totalPages

(* The row of the list that is number i of a page.                         *)
RowNumber(page, i, limit) == (page - 1) * limit + i

LEMMA Divided ==
  ASSUME NEW a \in Nat, NEW b \in Nat \ {0}
  PROVE  /\ a \div b \in Nat
         /\ (a \div b) * b <= a
         /\ a < (a \div b) * b + b
OBVIOUS

LEMMA Multiples ==
  ASSUME NEW p \in Nat, NEW q \in Nat, NEW b \in Nat \ {0}
  PROVE  /\ p * b \in Nat /\ (p + 1) * b = p * b + b
         /\ p < q => p * b + b <= q * b
         /\ p <= q => p * b <= q * b
<1>1. p * b \in Nat /\ (p + 1) * b = p * b + b
  OBVIOUS
<1>2. ASSUME p < q
      PROVE  p * b + b <= q * b
  <2>1. PICK d \in Nat : q = p + 1 + d
    <3>1. q - p - 1 \in Nat /\ q = p + 1 + (q - p - 1)
      BY <1>2
    <3> QED BY <3>1
  <2>2. q * b = p * b + b + d * b /\ d * b \in Nat
    BY <2>1
  <2> QED BY <1>1, <2>2
<1>3. p <= q => p * b <= q * b
  <2>1. p <= q => p < q \/ p = q
    OBVIOUS
  <2>2. q * b \in Nat
    OBVIOUS
  <2> QED BY <1>1, <1>2, <2>1, <2>2
<1> QED BY <1>1, <1>2, <1>3

(* The number of pages is the number of limits that do not fill the list.  *)
LEMMA PagesAre ==
  ASSUME NEW S, NEW rows \in Seq(S), NEW limit \in Nat \ {0}
  PROVE  /\ Pages(rows, limit) \in Nat
         /\ \A before \in Nat : before * limit < Len(rows) <=> before < Pages(rows, limit)
<1> DEFINE total == Len(rows)
           pages == Pages(rows, limit)
<1>1. total \in Nat /\ total + limit - 1 \in Nat
  BY LenProperties
<1>2. pages = (total + limit - 1) \div limit
  BY DEF Pages, Calculate
<1>3. pages \in Nat /\ pages * limit <= total + limit - 1 /\ total + limit - 1 < pages * limit + limit
  BY <1>1, <1>2, Divided
<1>4. pages * limit \in Nat
  BY <1>3, Multiples
<1> HIDE DEF total, pages
<1>5. ASSUME NEW before \in Nat
      PROVE  before * limit < total <=> before < pages
  <2>1. before * limit \in Nat
    BY Multiples
  <2>2. before < pages => before * limit + limit <= pages * limit
    BY <1>3, Multiples
  <2>3. pages <= before => pages * limit <= before * limit
    BY <1>3, Multiples
  <2> QED BY <1>1, <1>3, <1>4, <2>1, <2>2, <2>3
<1> QED BY <1>3, <1>5 DEF total, pages

LEMMA PageLength ==
  ASSUME NEW S, NEW rows \in Seq(S), NEW limit \in Nat \ {0}, NEW page \in Nat \ {0}
  PROVE  LET first == (page - 1) * limit
             length == Len(PageRows(rows, page, limit))
         IN  /\ first \in Nat /\ page * limit = first + limit
             /\ length \in Nat
             /\ \A i \in Nat \ {0} : i <= length <=> i <= limit /\ first + i <= Len(rows)
             /\ \A i \in 1 .. length : PageRows(rows, page, limit)[i] = rows[first + i]
<1> DEFINE first == (page - 1) * limit
           total == Len(rows)
           last == IF page * limit < total THEN page * limit ELSE total
<1>1. total \in Nat
  BY LenProperties
<1>2. first \in Nat /\ page * limit = first + limit
  <2>1. page - 1 \in Nat /\ (page - 1) + 1 = page
    OBVIOUS
  <2>2. ((page - 1) + 1) * limit = (page - 1) * limit + limit /\ (page - 1) * limit \in Nat
    BY <2>1, Multiples
  <2> QED BY <2>1, <2>2
<1>3. PageRows(rows, page, limit) = SubSeq(rows, first + 1, last)
  BY DEF PageRows
<1> HIDE DEF first
<1>4. last \in Nat /\ last <= total /\ last <= first + limit
      /\ (last = total \/ last = first + limit)
  BY <1>1, <1>2
<1> HIDE DEF last, total
<1>5. \A i \in (first + 1) .. last : rows[i] \in S
  BY <1>1, <1>2, <1>4, ElementOfSeq DEF total
<1>6. /\ Len(SubSeq(rows, first + 1, last)) =
            IF first + 1 <= last THEN last - (first + 1) + 1 ELSE 0
      /\ \A i \in 1 .. last - (first + 1) + 1 :
            SubSeq(rows, first + 1, last)[i] = rows[first + 1 + i - 1]
  <2> DEFINE m == first + 1
  <2>1. m \in Int /\ last \in Int
    BY <1>2, <1>4
  <2>2. \A i \in m .. last : rows[i] \in S
    BY <1>5
  <2> HIDE DEF m
  <2>3. /\ Len(SubSeq(rows, m, last)) = IF m <= last THEN last - m + 1 ELSE 0
        /\ \A i \in 1 .. last - m + 1 : SubSeq(rows, m, last)[i] = rows[m + i - 1]
    BY <2>1, <2>2, SubSeqProperties
  <2> QED BY <2>3 DEF m
<1> DEFINE length == Len(PageRows(rows, page, limit))
<1>7. length = IF first + 1 <= last THEN last - first ELSE 0
  BY <1>2, <1>3, <1>4, <1>6
<1>8. \A i \in 1 .. length : PageRows(rows, page, limit)[i] = rows[first + i]
  <2> SUFFICES ASSUME NEW i \in 1 .. length PROVE PageRows(rows, page, limit)[i] = rows[first + i]
    OBVIOUS
  <2>1. i \in 1 .. last - (first + 1) + 1 /\ first + 1 + i - 1 = first + i
    BY <1>2, <1>4, <1>7
  <2> QED BY <2>1, <1>3, <1>6
<1> HIDE DEF length
<1>9. length \in Nat /\ \A i \in Nat \ {0} : i <= length <=> i <= limit /\ first + i <= total
  BY <1>1, <1>2, <1>4, <1>7
<1> QED BY <1>2, <1>8, <1>9 DEF first, length, total

(* The pages of a list one after the other are its rows, for every list    *)
(* and limit: a page is empty exactly when it is past totalPages, and      *)
(* hasNextPage says whether the next one is; row i of a page is the row of *)
(* the list with its number; every row is on a page, and the rows of an    *)
(* earlier page come before those of a later one (Pagination.calculate,    *)
(* skip and take).                                                         *)
THEOREM PagesMakeEveryList ==
  ASSUME NEW S, NEW rows \in Seq(S), NEW limit \in Nat \ {0}
  PROVE  LET Page(p) == PageRows(rows, p, limit)
         IN  /\ \A p \in Nat \ {0} :
                  /\ Page(p) # <<>> <=> p <= Pages(rows, limit)
                  /\ Calculate(Len(rows), p, limit).hasNextPage <=> p < Pages(rows, limit)
             /\ \A p \in Nat \ {0} : \A i \in 1 .. Len(Page(p)) :
                  Page(p)[i] = rows[RowNumber(p, i, limit)]
             /\ \A n \in 1 .. Len(rows) : \E p \in 1 .. Pages(rows, limit) :
                  \E i \in 1 .. Len(Page(p)) : n = RowNumber(p, i, limit)
             /\ \A p, q \in Nat \ {0} :
                  p < q => \A i \in 1 .. Len(Page(p)), j \in 1 .. Len(Page(q)) :
                              RowNumber(p, i, limit) < RowNumber(q, j, limit)
<1> DEFINE Page(p) == PageRows(rows, p, limit)
           pages == Pages(rows, limit)
           total == Len(rows)
<1>0. total \in Nat /\ pages \in Nat
  BY LenProperties, PagesAre
<1> HIDE DEF pages
<1>1. ASSUME NEW p \in Nat \ {0}
      PROVE  /\ Page(p) # <<>> <=> p <= pages
             /\ Calculate(total, p, limit).hasNextPage <=> p < pages
             /\ \A i \in 1 .. Len(Page(p)) : Page(p)[i] = rows[RowNumber(p, i, limit)]
  <2>1. (p - 1) * limit < total <=> p - 1 < pages
    BY PagesAre DEF pages
  <2>2. p * limit < total <=> p < pages
    BY PagesAre DEF pages
  <2>3. Page(p) # <<>> <=> 1 <= Len(Page(p))
    <3>1. Page(p) \in Seq(S)
      <4>1. (p - 1) * limit \in Nat /\ p * limit = (p - 1) * limit + limit
        BY PageLength
      <4>2. \A i \in (p - 1) * limit + 1 .. (IF p * limit < total THEN p * limit ELSE total) :
               rows[i] \in S
        BY <1>0, <4>1, ElementOfSeq
      <4> QED BY <1>0, <4>1, <4>2, SubSeqProperties DEF PageRows
    <3> QED BY <3>1, EmptySeq, LenProperties
  <2>4. 1 <= Len(Page(p)) <=> 1 <= limit /\ (p - 1) * limit + 1 <= total
    BY PageLength
  <2>5. (p - 1) * limit \in Nat
    BY PageLength
  <2>6. Page(p) # <<>> <=> p <= pages
    BY <1>0, <2>1, <2>3, <2>4, <2>5
  <2>7. Calculate(total, p, limit).hasNextPage <=> p < pages
    BY <2>2 DEF Calculate
  <2> QED BY <2>6, <2>7, PageLength DEF RowNumber
<1>2. ASSUME NEW n \in 1 .. total
      PROVE  \E p \in 1 .. pages : \E i \in 1 .. Len(Page(p)) : n = RowNumber(p, i, limit)
  <2> DEFINE before == (n - 1) \div limit
             p == before + 1
             i == n - before * limit
  <2>1. n - 1 \in Nat
    BY <1>0
  <2>2. before \in Nat /\ before * limit <= n - 1 /\ n - 1 < before * limit + limit
    BY <2>1, Divided
  <2>3. before * limit \in Nat
    BY <2>2, Multiples
  <2>4. before * limit < total <=> before < pages
    BY <2>2, PagesAre DEF pages
  <2> HIDE DEF before
  <2>5. p \in 1 .. pages /\ p - 1 = before
    BY <1>0, <2>2, <2>3, <2>4
  <2>6. i \in Nat \ {0} /\ i <= limit /\ before * limit + i = n /\ n <= total
    BY <1>0, <2>2, <2>3
  <2> HIDE DEF p, i
  <2>7. i <= Len(Page(p)) /\ Len(Page(p)) \in Nat
    <3>1. p \in Nat \ {0} /\ (p - 1) * limit + i <= total
      BY <1>0, <2>5, <2>6
    <3> QED BY <2>6, <3>1, PageLength
  <2>8. i \in 1 .. Len(Page(p)) /\ n = RowNumber(p, i, limit)
    BY <2>5, <2>6, <2>7 DEF RowNumber
  <2> QED BY <2>5, <2>8
<1>3. ASSUME NEW p \in Nat \ {0}, NEW q \in Nat \ {0}, p < q,
             NEW i \in 1 .. Len(Page(p)), NEW j \in 1 .. Len(Page(q))
      PROVE  RowNumber(p, i, limit) < RowNumber(q, j, limit)
  <2>1. /\ (p - 1) * limit \in Nat /\ (q - 1) * limit \in Nat
        /\ (p - 1) * limit + limit <= (q - 1) * limit
    <3>1. p - 1 \in Nat /\ q - 1 \in Nat /\ p - 1 < q - 1
      BY <1>3
    <3> QED BY <3>1, Multiples
  <2>2. i \in Nat \ {0} /\ i <= limit /\ j \in Nat \ {0}
    <3>1. Len(Page(p)) \in Nat /\ Len(Page(q)) \in Nat
      BY PageLength
    <3>2. i \in Nat \ {0} /\ j \in Nat \ {0} /\ i <= Len(Page(p))
      BY <3>1
    <3> QED BY <3>2, PageLength
  <2> QED BY <2>1, <2>2 DEF RowNumber
<1> QED BY <1>1, <1>2, <1>3 DEF pages
=============================================================================
