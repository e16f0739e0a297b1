----------------------------- MODULE Credentials -----------------------------
(***************************************************************************)
(* Credentials in memory and in the auth store.  A request to ChatGPT      *)
(* first has its binding refresh tokens that are due (ensureFresh in       *)
(* runtime/src/auth/provider-auth.ts): the refresh token is spent, the     *)
(* rotated ones are used at once and then saved.  Requests of a client set *)
(* a key, sign in and sign out (app-server/config-handlers.ts).  Whoever   *)
(* changes the store loads it, changes its copy and saves that, to the     *)
(* keyring of the system or, when that cannot be reached, to a file        *)
(* (auth/auth-store.ts in its default mode).                               *)
(*                                                                         *)
(* Tokens are a sign-in and how often they were rotated; of the keys there *)
(* is one.                                                                 *)
(***************************************************************************)
EXTENDS Naturals

CONSTANTS Refreshes,    \* refreshes in progress at once
          MaxSignIns,   \* bound
          MaxRotations, \* bound: rotations of the tokens of the first sign-in, of the
                        \* next one fewer, and so on
          NoTokens

SignIns == 1..MaxSignIns
Tokens == [signIn : SignIns, rotation : 0..MaxRotations]

ASSUME CredentialsConstants == {MaxSignIns, MaxRotations} \subseteq Nat /\ NoTokens \notin Tokens

VARIABLES
  server,     \* of a sign-in: the rotation whose refresh token is not spent
  keyring, authFile,    \* where the store is: whether it has the key, and its tokens
  hasKey, tokens,   \* ProviderManager's key; the tokens of the last binding it had or has
  binding,    \* the sign-in whose binding it has, or 0
  running,    \* "down", "starting" (awaits a refresh), "up"
  update,     \* what set, signIn and signOut hold of the store
  refresh,    \* of a refresh: how far it is, its tokens, and its copy of the store
  signIns,
  mishap,     \* history: what went wrong, of "overwritten", "hidden", "unread", "late",
              \* "unremoved"
  signedIn,   \* history: the last sign-in that was completed; 0 once the user signed out,
              \* or was told at a start that could not refresh the tokens to sign in again
  lost        \* history: sign-ins of which rotated tokens never came, or were not saved

storeVars == <<keyring, authFile>>
credentialVars == <<server, storeVars, hasKey, tokens, binding, running, update, refresh,
                    signIns, mishap, signedIn, lost>>

Store == [key : BOOLEAN, tokens : Tokens \cup {NoTokens}]
Empty == [key |-> FALSE, tokens |-> NoTokens]
Writers == {"set", "signIn", "signOut", "forget"}

Idle == [stage |-> "none", copy |-> Empty]
NoRefresh == [stage |-> "none", tokens |-> NoTokens, copy |-> Empty]

Rotated(t) == [t EXCEPT !.rotation = @ + 1]

\* shouldRefresh(): when tokens expire is open.
MayBeDue(t) == t.signIn + t.rotation <= MaxRotations

\* load(): the keyring's entries go before the file's; without the keyring, the file's.
Merged(f, k) == [key |-> f.key \/ k.key,
                 tokens |-> IF k.tokens = NoTokens THEN f.tokens ELSE k.tokens]
Stored == Merged(authFile, keyring)
Loads == {Stored, authFile}

\* save() and delete(): what is in the keyring is no longer in the file; what could not be
\* put into the keyring goes to the file, and the keyring keeps what it has.
SaveStore(copy, changed, others) ==
  /\ \/ keyring' = changed /\ authFile' = Empty
     \/ keyring' = keyring /\ authFile' = changed
  /\ mishap' = mishap \cup others \cup (IF copy = Stored THEN {} ELSE {"overwritten"})
                      \cup (IF Stored' = changed THEN {} ELSE {"hidden"})

Begin(w) == \E copy \in Loads : update' = [update EXCEPT ![w] = [stage |-> "saving", copy |-> copy]]
End(w) == update' = [update EXCEPT ![w] = Idle]
Saving(w) == update[w].stage = "saving"

-----------------------------------------------------------------------------
\* Refreshing

RefreshVars == <<server, hasKey, binding, running, update, signIns, signedIn>>

Unused == CHOOSE r \in Refreshes : refresh[r] = NoRefresh

\* refreshLock: a second request waits for the refresh in progress.
MutLocked(s) == FALSE
Locked(s) == \E r \in Refreshes : refresh[r].stage # "none" /\ refresh[r].tokens.signIn = s

\* ensureFresh(), of a request or at the start.
EnsureFresh(r) ==
  /\ running = "up" /\ binding # 0 /\ refresh[r] = NoRefresh /\ r = Unused /\ ~Locked(binding)
  /\ MayBeDue(tokens)
  /\ refresh' = [refresh EXCEPT ![r] = [NoRefresh EXCEPT !.stage = "asking", !.tokens = tokens]]
  /\ UNCHANGED <<RefreshVars, storeVars, tokens, mishap, lost>>

\* The authorization server takes a refresh token once; it may also answer with an error,
\* or not be reached, and then the token is not spent.
Rotate(r) ==
  /\ refresh[r].stage = "asking"
  /\ LET t == refresh[r].tokens
     IN \/ /\ server[t.signIn] = t.rotation
           /\ server' = [server EXCEPT ![t.signIn] = @ + 1]
           /\ refresh' = [refresh EXCEPT ![r].stage = "granted", ![r].tokens = Rotated(t)]
        \/ server' = server /\ refresh' = [refresh EXCEPT ![r].stage = "refused"]
  /\ UNCHANGED <<storeVars, hasKey, tokens, binding, running, update, signIns, mishap,
                 signedIn, lost>>

\* The binding uses the new tokens from now on.
Granted(r) ==
  /\ refresh[r].stage = "granted"
  /\ tokens' = IF tokens.signIn = refresh[r].tokens.signIn THEN refresh[r].tokens ELSE tokens
  /\ refresh' = [refresh EXCEPT ![r].stage = "loading"]
  /\ UNCHANGED <<RefreshVars, storeVars, mishap, lost>>

\* A refresh that fails, or whose answer is lost, is the request's error, and the tokens
\* stay; at the start the sign-in is forgotten, whatever the reason.
Forgets == running = "starting"

Failed(r) ==
  /\ refresh[r].stage \in {"granted", "refused"}
  /\ lost' = IF refresh[r].stage = "granted" THEN lost \cup {refresh[r].tokens.signIn} ELSE lost
  /\ refresh' = [refresh EXCEPT ![r] = NoRefresh]
  /\ IF Forgets
     THEN /\ binding' = 0
          /\ Begin("forget")
     ELSE UNCHANGED <<binding, update>>
  /\ UNCHANGED <<server, storeVars, hasKey, tokens, running, signIns, mishap, signedIn>>

\* onTokensRefreshed
LoadForRefresh(r) ==
  /\ refresh[r].stage = "loading"
  /\ \E copy \in Loads : refresh' = [refresh EXCEPT ![r].stage = "saving", ![r].copy = copy]
  /\ UNCHANGED <<RefreshVars, storeVars, tokens, mishap, lost>>

Refreshed(r) ==
  /\ refresh' = [refresh EXCEPT ![r] = NoRefresh]
  /\ running' = "up"
  /\ UNCHANGED <<server, hasKey, tokens, binding, update, signIns, signedIn>>

SaveRefreshed(r) ==
  /\ refresh[r].stage = "saving"
  /\ SaveStore(refresh[r].copy, [refresh[r].copy EXCEPT !.tokens = refresh[r].tokens],
           IF refresh[r].tokens.signIn = binding THEN {} ELSE {"late"})
  /\ Refreshed(r) /\ lost' = lost

\* Nobody is told that rotated tokens could not be saved.
SaveRefreshedFails(r) ==
  /\ refresh[r].stage = "saving" /\ Refreshed(r)
  /\ lost' = lost \cup {refresh[r].tokens.signIn} /\ UNCHANGED <<storeVars, mishap>>

-----------------------------------------------------------------------------
\* Requests of clients

UpdateVars == <<server, running, refresh, lost>>

\* handleAuthSet: the key is used when it is saved.
SetKey ==
  /\ running = "up" /\ ~hasKey /\ update["set"] = Idle /\ Begin("set")
  /\ UNCHANGED <<UpdateVars, storeVars, hasKey, tokens, binding, signIns, mishap, signedIn>>

KeySaved ==
  /\ Saving("set") /\ End("set")
  /\ SaveStore(update["set"].copy, [update["set"].copy EXCEPT !.key = TRUE], {})
  /\ hasKey' = TRUE
  /\ UNCHANGED <<UpdateVars, tokens, binding, signIns, signedIn>>

\* handleAuthOAuthStart, one at a time: the flow is over, the tokens are saved and bound.
SignIn ==
  /\ running = "up" /\ update["signIn"] = Idle /\ signIns < MaxSignIns
  /\ Begin("signIn") /\ signIns' = signIns + 1
  /\ UNCHANGED <<UpdateVars, storeVars, hasKey, tokens, binding, mishap, signedIn>>

SignedIn ==
  /\ Saving("signIn") /\ End("signIn")
  /\ tokens' = [signIn |-> signIns, rotation |-> 0] /\ binding' = signIns
  /\ signedIn' = signIns
  /\ SaveStore(update["signIn"].copy, [update["signIn"].copy EXCEPT !.tokens = tokens'], {})
  /\ UNCHANGED <<UpdateVars, hasKey, signIns>>

\* handleAuthRemove of ChatGPT: removes a key, which it does not have, then the tokens, and
\* then the binding; a refresh of the binding goes on.
SignOut ==
  /\ running = "up" /\ update["signOut"] = Idle /\ Begin("signOut")
  /\ UNCHANGED <<UpdateVars, storeVars, hasKey, tokens, binding, signIns, mishap, signedIn>>

KeyRemoved ==
  /\ Saving("signOut") /\ SaveStore(update["signOut"].copy, update["signOut"].copy, {})
  /\ update' = [update EXCEPT !["signOut"].stage = "between"]
  /\ UNCHANGED <<UpdateVars, hasKey, tokens, binding, signIns, signedIn>>

RemoveTokens ==
  /\ update["signOut"].stage = "between"
  /\ \E copy \in Loads :
       update' = [update EXCEPT !["signOut"] = [stage |-> "removing", copy |-> copy]]
  /\ UNCHANGED <<UpdateVars, storeVars, hasKey, tokens, binding, signIns, mishap, signedIn>>

SignedOut ==
  /\ update["signOut"].stage = "removing" /\ End("signOut")
  /\ SaveStore(update["signOut"].copy, [update["signOut"].copy EXCEPT !.tokens = NoTokens], {})
  /\ binding' = 0 /\ signedIn' = 0
  /\ UNCHANGED <<UpdateVars, hasKey, tokens, signIns>>

\* A request whose save fails changes nothing more.
SaveFails(w) ==
  /\ update[w].stage \in {"saving", "removing"} /\ w # "forget" /\ End(w)
  /\ UNCHANGED <<UpdateVars, storeVars, hasKey, tokens, binding, signIns, mishap, signedIn>>

-----------------------------------------------------------------------------
\* The process

\* bootstrap (config/runtime.ts): the store is loaded, and tokens that are due refreshed,
\* before the server takes requests.
Start ==
  /\ running = "down"
  /\ \E store \in Loads :
       /\ hasKey' = store.key
       /\ mishap' = IF store = Stored THEN mishap ELSE mishap \cup {"unread"}
       /\ IF store.tokens = NoTokens
          THEN UNCHANGED <<tokens, binding, refresh>> /\ running' = "up"
          ELSE /\ tokens' = store.tokens /\ binding' = store.tokens.signIn
               /\ \/ running' = "up" /\ UNCHANGED refresh
                  \/ /\ running' = "starting" /\ MayBeDue(store.tokens)
                     /\ refresh' = [refresh EXCEPT
                                      ![Unused] = [NoRefresh EXCEPT !.stage = "asking",
                                                                    !.tokens = store.tokens]]
  /\ UNCHANGED <<server, storeVars, update, signIns, signedIn, lost>>

\* The tokens could not be refreshed: the user has to sign in again, and they are removed;
\* if that fails, not.
ForgetSignIn ==
  /\ Saving("forget") /\ End("forget") /\ running' = "up" /\ signedIn' = 0
  /\ \/ SaveStore(update["forget"].copy, [update["forget"].copy EXCEPT !.tokens = NoTokens], {})
     \/ mishap' = mishap \cup {"unremoved"} /\ UNCHANGED storeVars
  /\ UNCHANGED <<server, hasKey, tokens, binding, refresh, signIns, lost>>

\* The process ends at any moment, and what a refresh has not saved is gone.
Unsaved == {r \in Refreshes : refresh[r].stage \in {"granted", "loading", "saving"}}
Exit ==
  /\ running # "down" /\ running' = "down"
  /\ hasKey' = FALSE /\ binding' = 0
  /\ update' = [w \in Writers |-> Idle] /\ refresh' = [r \in Refreshes |-> NoRefresh]
  /\ lost' = lost \cup {refresh[r].tokens.signIn : r \in Unsaved}
  /\ UNCHANGED <<server, storeVars, tokens, signIns, mishap, signedIn>>

CredentialsInit ==
  /\ server = [s \in SignIns |-> 0] /\ keyring = Empty /\ authFile = Empty
  /\ hasKey = FALSE /\ tokens = NoTokens /\ binding = 0
  /\ running = "down" /\ update = [w \in Writers |-> Idle]
  /\ refresh = [r \in Refreshes |-> NoRefresh] /\ signIns = 0 /\ mishap = {}
  /\ signedIn = 0 /\ lost = {}

CredentialsStep ==
  \/ \E r \in Refreshes :
       \/ EnsureFresh(r) \/ Rotate(r) \/ Granted(r) \/ Failed(r)
       \/ LoadForRefresh(r) \/ SaveRefreshed(r) \/ SaveRefreshedFails(r)
  \/ SetKey \/ KeySaved \/ SignIn \/ SignedIn
  \/ SignOut \/ KeyRemoved \/ RemoveTokens \/ SignedOut
  \/ \E w \in Writers : SaveFails(w)
  \/ Start \/ ForgetSignIn \/ Exit

\* Nothing is claimed after a mishap: it is the last step explored (a bound).  Tokens that
\* cannot be refreshed, and answers that are lost, are no mishap.
CredentialsNext == mishap = {} /\ CredentialsStep

CredentialsSpec == CredentialsInit /\ [][CredentialsNext]_credentialVars

-----------------------------------------------------------------------------
\* The types of the store, the process and what is in progress.
CredentialsTypeOK ==
  /\ server \in [SignIns -> 0..MaxRotations] /\ {keyring, authFile} \subseteq Store
  /\ hasKey \in BOOLEAN /\ tokens \in Tokens \cup {NoTokens} /\ binding \in SignIns \cup {0}
  /\ running \in {"down", "starting", "up"} /\ signIns \in 0..MaxSignIns
  /\ signedIn \in SignIns \cup {0} /\ lost \subseteq SignIns
  /\ \A w \in Writers : update[w].copy \in Store
                        /\ update[w].stage \in {"none", "saving", "between", "removing"}
  /\ \A r \in Refreshes :
       /\ refresh[r].copy \in Store /\ refresh[r].tokens \in Tokens \cup {NoTokens}
       /\ refresh[r].stage \in {"none", "asking", "granted", "refused", "loading", "saving"}

\* A refresh token is spent once: the tokens in use are those the server expects next,
\* except while it answers.  Only an answer that never came, or was not saved, leaves a
\* sign-in that cannot be refreshed.
TokensCanBeRefreshed ==
  /\ binding \notin {0} \cup lost /\ mishap = {}
  /\ \A r \in Refreshes : refresh[r].stage # "granted"
  => server[binding] = tokens.rotation

\* When nothing is in progress the next process will have the credentials of this one, the
\* newest tokens too unless they were lost; and nothing else than two updates that
\* overlapped, a file behind a keyring, a refresh that came in after its sign-in was removed
\* or replaced, or a removal that failed keeps it from that.
NextProcessKnows ==
  /\ running = "up" /\ mishap = {}
  /\ \A w \in Writers : update[w] = Idle
  /\ \A r \in Refreshes : refresh[r].stage \in {"none", "asking", "refused"}
  => /\ Stored.key = hasKey
     /\ IF binding = 0 THEN Stored.tokens = NoTokens
        ELSE /\ Stored.tokens # NoTokens /\ Stored.tokens.signIn = binding
             /\ Stored.tokens = tokens \/ binding \in lost

\* Who signed in stays signed in, and who signed out stays out, through refreshes that
\* coincide or fail and processes that end -- but for a start that cannot refresh tokens
\* that are due, which tells the user to sign in again.
StaysSignedIn == running = "up" /\ mishap = {} => binding = signedIn

\* Sign-ins are kept although refresh tokens are single-use (refresh.ts) and the server
\* may be out of reach.
SignInIsKept == TokensCanBeRefreshed /\ NextProcessKnows /\ StaysSignedIn
=============================================================================
