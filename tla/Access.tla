------------------------------- MODULE Access -------------------------------
(***************************************************************************)
(* Who is let in, and how often: the API keys of one user, as the site's   *)
(* handlers change them, and the three counters that every request of the  *)
(* user runs rate_limit.lua on.  The counters belong to the user and not   *)
(* to a key; their limits follow the tier the user had when the request    *)
(* was authenticated.  Each script call is one step; Window ticks make the *)
(* 60 seconds of a counter.                                                *)
(***************************************************************************)
EXTENDS Sums

CONSTANTS KeyIds,      \* ids of rows of api_keys
          MaxStrings,  \* bound on the key strings ever generated
          UserRequests,
          TierLimits,  \* server.tier_limits: [tiers with an entry -> [rpm, tpm, model]]
          RPMLimit, TPMLimit, \* server.rpm_limit and server.tpm_limit
          Tiers,       \* tier levels of users
          Window,      \* ticks to a window
          Tokens       \* token counts that requests may be estimated at

ASSUME AccessAssumption ==
  /\ MaxStrings \in Nat /\ RPMLimit \in Nat /\ TPMLimit \in Nat
  /\ Window \in Nat \ {0}
  /\ Tokens \subseteq Nat
  /\ IsFiniteSet(Tiers) /\ IsFiniteSet(Tokens)
  /\ \A t \in DOMAIN TierLimits :
       t \in Tiers /\ TierLimits[t] \in [rpm : Int, tpm : Int, model : Int]

VARIABLES keys,     \* [KeyIds -> [string, on]], string 0 for no row
          strings,  \* how many strings were generated: 1 .. strings
          tier,     \* users.tier_level
          counter,  \* [Counters -> [value, left]], left 0 for no key in Redis
          req,      \* [UserRequests -> [at, tier, tokens]]
          withdrawn,\* history: strings their owner rotated, deleted or disabled
          recent    \* history: recent[c][i] was counted i ticks ago

accessVars == <<keys, strings, tier, counter, req, withdrawn, recent>>

Counters == {"rpm", "tpm", "model"}
Ages == 0 .. Window - 1
NoKey == [string |-> 0, on |-> FALSE]
Away == [at |-> "away", tier |-> 0, tokens |-> 0]

AccessInit ==
  /\ keys = [k \in KeyIds |-> NoKey]
  /\ strings = 0
  /\ tier \in Tiers
  /\ counter = [c \in Counters |-> [value |-> 0, left |-> 0]]
  /\ req = [r \in UserRequests |-> Away]
  /\ withdrawn = {}
  /\ recent = [c \in Counters |-> [i \in Ages |-> 0]]

-----------------------------------------------------------------------------
(* The site's handlers.                                                    *)

(* generateAPIKey: twelve random bytes, taken to be new. *)
generateAPIKey == strings + 1

(* The statements: each names the row by its id and its owner. *)
createAPIKey(k) ==
  /\ keys[k] = NoKey
  /\ keys' = [keys EXCEPT ![k] = [string |-> generateAPIKey, on |-> TRUE]]
updateAPIKeyStatus(k, on) ==
  keys[k] # NoKey /\ keys' = [keys EXCEPT ![k] = [string |-> @.string, on |-> on]]
deleteAPIKey(k) == keys[k] # NoKey /\ keys' = [keys EXCEPT ![k] = NoKey]
rotateAPIKey(k) ==
  /\ keys[k] # NoKey
  /\ keys' = [keys EXCEPT ![k] = [string |-> generateAPIKey, on |-> @.on]]

(* The handlers.  An id that is not there, or not the user's, matches no   *)
(* row: the answer is success all the same, and nothing changes.           *)
CreateAPIKey(k) ==
  /\ strings < MaxStrings /\ strings' = generateAPIKey
  /\ createAPIKey(k)
  /\ UNCHANGED <<tier, counter, req, withdrawn, recent>>

(* Any status but "active" disables. *)
UpdateAPIKeyStatus(k, on) ==
  /\ updateAPIKeyStatus(k, on)
  /\ withdrawn' = IF on THEN withdrawn \ {keys[k].string}
                  ELSE withdrawn \cup {keys[k].string}
  /\ UNCHANGED <<strings, tier, counter, req, recent>>

DeleteAPIKey(k) ==
  /\ deleteAPIKey(k)
  /\ withdrawn' = withdrawn \cup {keys[k].string}
  /\ UNCHANGED <<strings, tier, counter, req, recent>>

(* The row keeps its id and its status. *)
RotateAPIKey(k) ==
  /\ strings < MaxStrings /\ strings' = generateAPIKey
  /\ rotateAPIKey(k)
  /\ withdrawn' = withdrawn \cup {keys[k].string}
  /\ UNCHANGED <<tier, counter, req, recent>>

(* A subscription is applied or expires: the tier follows. *)
SetTier(t) ==
  /\ t # tier
  /\ tier' = t
  /\ UNCHANGED <<keys, strings, counter, req, withdrawn, recent>>

-----------------------------------------------------------------------------
(* Requests.                                                               *)

(* Mutant of getUserByAPIKey: the status of the key is not asked for. *)
getUserByAnyAPIKey(s) == \E k \in KeyIds : keys[k].string = s

(* An active key of an active user is found; nothing is remembered. *)
getUserByAPIKey(s) == \E k \in KeyIds : keys[k].string = s /\ keys[k].on

(* A billed request that was let in goes to the counters with the tier and *)
(* the estimate it carries.  (Others are not limited.)                     *)
Authenticate(r, s, n) ==
  /\ req[r] = Away
  /\ getUserByAPIKey(s)
  /\ req' = [req EXCEPT ![r] = [at |-> "rpm", tier |-> tier,
                                tokens |-> IF n <= 0 THEN 1 ELSE n]]
  /\ UNCHANGED <<keys, strings, tier, counter, withdrawn, recent>>

(* A tier without an entry has the server's limits, and so has an entry    *)
(* that leaves a field out; a model limit of zero is no limit.             *)
ResolveTierLimit(t) ==
  IF t \notin DOMAIN TierLimits
  THEN [rpm |-> RPMLimit, tpm |-> TPMLimit, model |-> 0]
  ELSE [rpm |-> IF TierLimits[t].rpm <= 0 THEN RPMLimit ELSE TierLimits[t].rpm,
        tpm |-> IF TierLimits[t].tpm <= 0 THEN TPMLimit ELSE TierLimits[t].tpm,
        model |-> TierLimits[t].model]

Increment(r) == IF req[r].at = "tpm" THEN req[r].tokens ELSE 1
LimitOf(r) == ResolveTierLimit(req[r].tier)[req[r].at]

(* After the last counter that applies the request goes on to the proxy. *)
Passed(r) ==
  LET onTo(c) == [at |-> c, tier |-> req[r].tier, tokens |-> req[r].tokens] IN
  req' = [req EXCEPT ![r] =
    IF req[r].at = "rpm" THEN onTo("tpm")
    ELSE IF req[r].at = "tpm" /\ ResolveTierLimit(req[r].tier).model > 0
    THEN onTo("model") ELSE Away]

(* Mutant of OverLimit: the increment is left out of the comparison. *)
OverLimitAfter(r) ==
  counter[req[r].at].left > 0 /\ counter[req[r].at].value > LimitOf(r)

(* rate_limit.lua: a counter that is not there is not compared.            *)
OverLimit(r) ==
  /\ counter[req[r].at].left > 0
  /\ counter[req[r].at].value + Increment(r) > LimitOf(r)

(* The script returns 1; only the call that creates the counter makes it   *)
(* expire.                                                                 *)
Admit(r) ==
  /\ req[r] # Away
  /\ ~OverLimit(r)
  /\ LET c == req[r].at IN
     /\ counter' = [counter EXCEPT ![c] =
          [value |-> @.value + Increment(r),
           left |-> IF @.left = 0 THEN Window ELSE @.left]]
     /\ recent' = [recent EXCEPT ![c] =
          [i \in Ages |-> IF i = 0 THEN @[i] + Increment(r) ELSE @[i]]]
  /\ Passed(r)
  /\ UNCHANGED <<keys, strings, tier, withdrawn>>

(* Mutant of Refuse: the expiry is set on every call. *)
RefuseRefreshes(r) ==
  /\ req[r] # Away
  /\ OverLimit(r)
  /\ req' = [req EXCEPT ![r] = Away]
  /\ counter' = [counter EXCEPT ![req[r].at].left = Window]
  /\ UNCHANGED <<keys, strings, tier, withdrawn, recent>>

(* The script returns 0: the deduction is given back and the request ends; *)
(* the counters that it passed before keep its increments.                 *)
Refuse(r) ==
  /\ req[r] # Away
  /\ OverLimit(r)
  /\ req' = [req EXCEPT ![r] = Away]
  /\ UNCHANGED <<keys, strings, tier, counter, withdrawn, recent>>

(* Redis does not answer: the request passes, uncounted or refused in vain.  *)
(* (If the script ran and its answer was lost, the step is Admit's.)         *)
AdmitUncounted(r) ==
  /\ req[r] # Away
  /\ Passed(r)
  /\ UNCHANGED <<keys, strings, tier, counter, withdrawn, recent>>

(* Time, and Redis's expiry. *)
AccessTick ==
  /\ counter' = [c \in Counters |->
       IF counter[c].left <= 1 THEN [value |-> 0, left |-> 0]
       ELSE [value |-> counter[c].value, left |-> counter[c].left - 1]]
  /\ recent' = [c \in Counters |->
                  [i \in Ages |-> IF i = 0 THEN 0 ELSE recent[c][i - 1]]]
  /\ UNCHANGED <<keys, strings, tier, req, withdrawn>>

AccessNext ==
  \/ \E k \in KeyIds : \/ CreateAPIKey(k) \/ DeleteAPIKey(k) \/ RotateAPIKey(k)
                       \/ \E on \in BOOLEAN : UpdateAPIKeyStatus(k, on)
  \/ \E t \in Tiers : SetTier(t)
  \/ \E r \in UserRequests :
       \/ \E s \in 1 .. strings, n \in Tokens : Authenticate(r, s, n)
       \/ Admit(r) \/ Refuse(r) \/ AdmitUncounted(r)
  \/ AccessTick

AccessSpec == AccessInit /\ [][AccessNext]_accessVars /\ WF_accessVars(AccessTick)

-----------------------------------------------------------------------------
(* Properties.                                                             *)

(* The most one window may count: the highest limit of any tier, or one    *)
(* larger request that found no counter.                                   *)
PerWindow(c) ==
  Max({ResolveTierLimit(t)[c] : t \in Tiers} \cup
      (IF c = "tpm" THEN Tokens \cup {1} ELSE {1}))

(* The guarantee of a fixed window: whatever keys the user makes, rotates  *)
(* and deletes, and however the tier goes up and down, any Window ticks in *)
(* a row count at most what two windows may.                               *)
AtMostTwoWindows ==
  \A c \in Counters :
    SumOver(recent[c], Ages) <= 2 * PerWindow(c)

(* A user who was refused is not shut out: each window ends, however many  *)
(* requests keep coming.                                                   *)
WindowEnds == \A c \in Counters : (counter[c].left > 0) ~> (counter[c].left = 0)

(* No request is let in by a string its owner has withdrawn, whatever was  *)
(* done to that key and to others since.                                   *)
WithdrawnKeyOut ==
  [][\A r \in UserRequests : \A s \in withdrawn, n \in Tokens :
       ~Authenticate(r, s, n)]_accessVars
=============================================================================
