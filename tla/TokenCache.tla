------------------------------ MODULE TokenCache ------------------------------
(***************************************************************************)
(* _AccessTokenCache (serve/channels/_googlechat_internals.py): any number *)
(* of send() coroutines call get_token() on one event loop. The refresh    *)
(* itself runs on a worker thread and works on the credentials object that *)
(* was cached when it began; the coroutine resumes later and looks at the  *)
(* object cached then.                                                     *)
(***************************************************************************)
EXTENDS Integers, FiniteSets

CONSTANTS Caller,   \* coroutines that call get_token()
          MaxLoads  \* bound: reads of the service-account file

ASSUME TokenAssumption == MaxLoads \in Nat

Object == 1..MaxLoads  \* credentials objects, in the order they are loaded
None == 0

VARIABLES
  credentials,  \* _credentials
  loads,        \* objects created so far
  token,        \* object -> its token
  calls,        \* caller -> where its call is
  refreshing,   \* caller -> the object its refresh works on
  threads,      \* refreshes still running on a worker thread
  overlapped,   \* history: calls during which another call was refreshing
  broken        \* history: objects a refresh of which failed or was cancelled

cacheVars == <<credentials, loads, token, calls, refreshing, threads, overlapped, broken>>

Raised == {"load_error", "refresh_error", "cancelled", "attribute_error"}
Returned == {"valid", "none", "stale"}  \* str(token): "none" is the string "None"
Idle == {"idle"} \cup Raised \cup Returned

Refreshing(c) == calls[c] \in {"refreshing", "refreshed", "refresh_failed"}
Others(c) == {d \in Caller \ {c} : Refreshing(d)}

-----------------------------------------------------------------------------
NeedsRefresh(o) == token[o] # "valid"

(* The await of the refresh begins, or the cached token is returned.       *)
UseCredentials(c, o) ==
  IF NeedsRefresh(o)
  THEN /\ calls' = [calls EXCEPT ![c] = "refreshing"]
       /\ refreshing' = [refreshing EXCEPT ![c] = o]
       /\ threads' = threads \cup {<<c, o>>}
       /\ overlapped' = IF Others(c) = {} THEN overlapped \ {c}
                        ELSE overlapped \cup {c} \cup Others(c)
  ELSE /\ calls' = [calls EXCEPT ![c] = token[o]]
       /\ overlapped' = overlapped \ {c}
       /\ UNCHANGED <<refreshing, threads>>

(* get_token() up to its first await. A caller whose cancelled refresh is  *)
(* still running on its thread is another coroutine by then.               *)
GetToken(c) ==
  /\ calls[c] \in Idle /\ \A o \in Object : <<c, o>> \notin threads
  /\ IF credentials # None
     THEN UseCredentials(c, credentials) /\ UNCHANGED <<credentials, loads>>
     ELSE /\ loads < MaxLoads
          /\ loads' = loads + 1 /\ credentials' = loads'
          /\ UseCredentials(c, loads')
  /\ UNCHANGED <<token, broken>>

LoadFails(c) ==
  /\ calls[c] \in Idle /\ credentials = None
  /\ calls' = [calls EXCEPT ![c] = "load_error"]
  /\ UNCHANGED <<credentials, loads, token, refreshing, threads, overlapped, broken>>

(* The worker thread ends. It sets the token of its object, whatever has   *)
(* become of the coroutine that waits for it.                              *)
ThreadEnds(c, o, ok) ==
  /\ <<c, o>> \in threads /\ threads' = threads \ {<<c, o>>}
  /\ token' = [token EXCEPT ![o] = IF ok THEN "valid" ELSE @]
  /\ calls' = IF calls[c] = "refreshing"
              THEN [calls EXCEPT ![c] = IF ok THEN "refreshed" ELSE "refresh_failed"]
              ELSE calls
  /\ UNCHANGED <<credentials, loads, refreshing, overlapped, broken>>

(* The coroutine resumes: whatever is cached now provides the token.       *)
Resume(c) ==
  /\ calls[c] = "refreshed"
  /\ calls' = [calls EXCEPT ![c] = IF credentials = None THEN "attribute_error"
                                   ELSE token[credentials]]
  /\ UNCHANGED <<credentials, loads, token, refreshing, threads, overlapped, broken>>

(* Mutant: the object before this one is cached again.                     *)
PreviousObject(error) == loads - 1

(* Mutant: a cancellation keeps the half-refreshed object.                 *)
OrdinaryErrorsOnly(error) == IF error = "cancelled" THEN credentials ELSE None

CredentialsAfter(error) == None

Drop(c, error) ==
  /\ credentials' = CredentialsAfter(error)
  /\ broken' = broken \cup {refreshing[c]}
  /\ calls' = [calls EXCEPT ![c] = error]
  /\ UNCHANGED <<loads, token, refreshing, threads, overlapped>>

ResumeFails(c) == calls[c] = "refresh_failed" /\ Drop(c, "refresh_error")
CancelCall(c) == Refreshing(c) /\ Drop(c, "cancelled")

(* A token comes within five minutes of its expiry.                        *)
Expire(o) ==
  /\ token[o] = "valid" /\ token' = [token EXCEPT ![o] = "stale"]
  /\ UNCHANGED <<credentials, loads, calls, refreshing, threads, overlapped, broken>>

-----------------------------------------------------------------------------
CacheInit ==
  /\ credentials = None /\ loads = 0
  /\ token = [o \in Object |-> "none"]
  /\ calls = [c \in Caller |-> "idle"] /\ refreshing = [c \in Caller |-> None]
  /\ threads = {} /\ overlapped = {} /\ broken = {}

CacheNext ==
  \/ \E c \in Caller :
       GetToken(c) \/ LoadFails(c) \/ Resume(c) \/ ResumeFails(c) \/ CancelCall(c)
  \/ \E c \in Caller, o \in Object, ok \in BOOLEAN : ThreadEnds(c, o, ok)
  \/ \E o \in Object : Expire(o)

CacheSpec == CacheInit /\ [][CacheNext]_cacheVars

-----------------------------------------------------------------------------
(* Properties.                                                             *)

(* Every variable keeps its type, a refresh works on an object that was    *)
(* loaded, and only the newest object is ever cached.                      *)
CacheTypeOK ==
  /\ loads \in 0..MaxLoads /\ credentials \in {None, loads}
  /\ token \in [Object -> {"none", "valid", "stale"}]
  /\ calls \in [Caller -> {"refreshing", "refreshed", "refresh_failed"} \cup Idle]
  /\ refreshing \in [Caller -> 0..loads]
  /\ threads \subseteq Caller \X (1..loads)
  /\ overlapped \subseteq Caller /\ broken \subseteq 1..loads

(* An object whose refresh failed or was cancelled is never cached again,  *)
(* whatever other callers did meanwhile (_googlechat_internals.py:83-100). *)
NoBrokenCredentials == credentials \notin broken

(* A call that no other refresh overlapped either raises what google-auth  *)
(* raised or returns a token that was fetched: it neither trips over       *)
(* missing credentials nor returns the text of a missing token             *)
(* (_googlechat_internals.py:64-101).                                      *)
AloneGetsToken ==
  \A c \in Caller \ overlapped : calls[c] \notin {"attribute_error", "none"}

-----------------------------------------------------------------------------
(* What the documentation says, and the cache does not do.                 *)

(* _googlechat_internals.py:65-70: get_token() returns a valid token, or   *)
(* raises what loading the file or its own refresh raised.                 *)
SuccessfulRefreshReturnsToken ==
  \A c \in Caller : calls[c] \notin {"attribute_error", "none"}
=============================================================================
