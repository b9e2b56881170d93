----------------------------- MODULE ApiKeyState -----------------------------
(***************************************************************************)
(* The API key in the browser: AuthProvider of                             *)
(* frontend/src/context/AuthContext.tsx, the store and the header of       *)
(* api/client.ts and the form of pages/Settings.tsx, against api/auth.py.  *)
(*                                                                         *)
(* A probe and a submitted key are each a request whose answer is awaited; *)
(* they can overlap, because the form is there while the first probe is    *)
(* out and forgets that it is checking when the user leaves it.            *)
(***************************************************************************)
EXTENDS Integers, FiniteSets, Reconcilers

CONSTANTS Keys,         \* what the user types
          Slots,        \* bound: requests in flight
          MaxLoads      \* bound: loads of the page

\* The form submits no empty key.
ASSUME KeysAssumption == "none" \notin Keys

VARIABLES configured,   \* the keys in API_KEYS
          storage,      \* whether this browser lets the page use sessionStorage
          apiKey,       \* apiKeyStore
          session,      \* sessionStorage's copy
          status,       \* what the app shows
          requests,     \* slot -> the request in flight
          checking,     \* the slot whose end enables the form again, if any
          overlapped,   \* history: a request or a clear began while one was out
          failed,       \* history: the network failed since the page was loaded
          cleared,      \* history: the last thing the user did was to clear the key,
                        \* and no request was out
          loads         \* history: loads of the page

keys == <<configured, storage, apiKey, session, status, requests, checking, overlapped, failed, cleared, loads>>

Free == [kind |-> "none", key |-> "none"]

Out == {s \in Slots : requests[s] # Free}

\* request: the header is made from the store when the request begins.
Ask(s, kind, key) == /\ requests[s] = Free
                     /\ requests' = [requests EXCEPT ![s] = [kind |-> kind, key |-> key]]

Answer(s) == Authorized(configured, requests[s].key)

FirstProbe(key) ==
  [s \in Slots |-> IF s = CHOOSE x \in Slots : TRUE THEN [kind |-> "probe", key |-> key] ELSE Free]

NoAnswer == 0

KeyInit ==
  /\ configured \in SUBSET Keys
  /\ storage \in BOOLEAN
  /\ session = "none" /\ apiKey = "none"
  /\ status = "checking"
  /\ requests = FirstProbe("none")
  /\ checking = {}
  /\ overlapped = FALSE /\ failed = FALSE /\ cleared = FALSE
  /\ loads = 1

\* A reload forgets all but the session's copy; the first effect takes that and
\* probes.  A new tab has no copy.
Reload ==
  /\ loads < MaxLoads /\ loads' = loads + 1
  /\ apiKey' = session
  /\ status' = "checking"
  /\ requests' = FirstProbe(session)
  /\ checking' = {}
  /\ overlapped' = FALSE /\ failed' = FALSE
  /\ UNCHANGED <<configured, storage, session, cleared>>

Fill(s) == requests' = [requests EXCEPT ![s] = Free]

\* probe: the store is read again when the answer is there.
ProbeEnds(s, answer) ==
  /\ requests[s].kind = "probe"
  /\ Fill(s)
  /\ status' = CASE answer = 200 -> IF apiKey # "none" THEN "authenticated" ELSE "no-auth-required"
                 [] answer \in {401, 403} -> "needs-key"
                 [] OTHER -> "no-auth-required"
  /\ UNCHANGED <<apiKey, session, checking>>

\* Variant with a bug: the key is stored before it is known to be good.
SetApiKeySaves(s, key) ==
  /\ Ask(s, "set", key)
  /\ apiKey' = key
  /\ session' = IF storage THEN key ELSE session

\* setApiKey, up to its request.
SetApiKey(s, key) ==
  /\ Ask(s, "set", key)
  /\ apiKey' = key
  /\ UNCHANGED session

\* The form, when it is shown and enabled.
Submit(s, key) ==
  /\ status \in {"needs-key", "invalid-key", "checking"} /\ checking = {}
  /\ SetApiKey(s, key)
  /\ checking' = {s}
  /\ overlapped' = (overlapped \/ Out # {})
  /\ cleared' = FALSE
  /\ UNCHANGED <<configured, storage, status, failed, loads>>

\* The user leaves the form and comes back: it does not know of the request.
Remount == /\ checking' = {}
           /\ UNCHANGED <<configured, storage, apiKey, session, status, requests, overlapped, failed, cleared, loads>>

\* setApiKey, from its answer on.
SetEnds(s, answer) ==
  /\ requests[s].kind = "set"
  /\ Fill(s)
  /\ checking' = checking \ {s}
  /\ IF answer = 200
     THEN /\ session' = IF storage THEN requests[s].key ELSE session
          /\ status' = "authenticated"
          /\ UNCHANGED apiKey
     ELSE /\ apiKey' = "none"
          /\ status' = IF answer \in {401, 403} THEN "invalid-key" ELSE status
          /\ UNCHANGED session

Ends(s) == \/ /\ ProbeEnds(s, Answer(s)) \/ SetEnds(s, Answer(s))
              /\ UNCHANGED <<configured, storage, overlapped, failed, cleared, loads>>
           \/ /\ ProbeEnds(s, NoAnswer) \/ SetEnds(s, NoAnswer)
              /\ failed' = TRUE
              /\ UNCHANGED <<configured, storage, overlapped, cleared, loads>>

\* Variant with a bug: the copy in memory survives.
ForgetSessionOnly == session' = (IF storage THEN "none" ELSE session) /\ UNCHANGED apiKey

\* removeItem may throw; the store is cleared before.
Forget == apiKey' = "none" /\ session' = IF storage THEN "none" ELSE session

\* clearApiKey: the button is there while the status is authenticated.
ClearApiKey ==
  /\ status = "authenticated"
  /\ Forget
  /\ status' = "needs-key"
  /\ overlapped' = (overlapped \/ Out # {})
  /\ cleared' = (Out = {})
  /\ UNCHANGED <<configured, storage, requests, checking, failed, loads>>

KeyNext == \/ Reload \/ Remount \/ ClearApiKey
           \/ \E s \in Slots : Ends(s) \/ (\E k \in Keys : Submit(s, k))

-----------------------------------------------------------------------------
(* Properties                                                              *)

\* "the UI state and the actual auth state can never disagree" (clearApiKey):
\* with no request out, 'authenticated' means that a key is held and accepted,
\* and a prompt for a key means that the next request would be refused.  It
\* holds unless requests have overlapped; a failed network only hides the
\* prompt.  Where no keys are configured a cleared key still prompts.
StatusMatchesKey ==
  Out = {} /\ ~overlapped =>
    /\ status = "authenticated" => apiKey # "none" /\ Authorized(configured, apiKey) = 200
    /\ status \in {"needs-key", "invalid-key"} /\ configured # {} => Authorized(configured, apiKey) # 200
    /\ status = "no-auth-required" /\ ~failed => configured = {}

\* Only a key that was accepted survives a reload, in every overlap of requests.
SavedKeysWork == session # "none" => Authorized(configured, session) = 200

\* A cleared key is gone for good: it is in no header and in no reload, unless a
\* request was out when it was cleared.
ClearedStaysCleared == cleared => apiKey = "none" /\ session = "none"

\* What outlives the page is a key that works, and nothing after a clear.
StoredKeysAreGood == SavedKeysWork /\ ClearedStaysCleared
=============================================================================
