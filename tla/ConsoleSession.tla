--------------------------- MODULE ConsoleSession ---------------------------
(***************************************************************************)
(* The signed-in session of the web console: the token, the selected      *)
(* client company and the query cache of each browser tab, the            *)
(* localStorage the tabs share, and the gateway that answers their calls. *)
(*                                                                         *)
(* One action per handler: a page load, the login form, "Logout", the     *)
(* client selector, a query or a save being sent, and the answer to each  *)
(* call.  Every query key but "me" stands for one cache entry: the keys   *)
(* carry no client (lib/queryClient.ts), so one entry shows what can be   *)
(* wrong with all of them.                                                 *)
(***************************************************************************)
EXTENDS Integers, FiniteSets

CONSTANTS
    Tabs,       \* browser tabs on one profile: they share localStorage
    Users,      \* accounts somebody may sign in with on this browser
    Clients,    \* client companies, existing at the start
    Tenant,     \* [Users \cup Clients -> tenant]
    None,
    MaxCalls    \* bound: calls in flight beside which a tab sends another query

ASSUME NoneAssumption == None \notin Users \cup Clients
ASSUME CallsAssumption == MaxCalls \in Nat

VARIABLES
    stored,         \* localStorage "hrp_token": the account whose token it is
    storedClient,   \* localStorage "hr_selected_client_id"
    existing,       \* client-service: the clients not deleted
    tab             \* [Tabs -> the state of the page loaded in the tab]

vars == <<stored, storedClient, existing, tab>>

MaybeUser   == Users \cup {None}
MaybeClient == Clients \cup {None}

\* A call in flight whose answer is waited for, with the account of the token and
\* the x-client-id the request interceptor put on it ("login": the account that
\* was typed in).
Call == [kind : {"login", "me", "query", "password"}, as : Users,
         client : MaybeClient]

\* No data in the cache; data fetched with no client header is of None.
Empty == "empty"

Tab == [at : {"login", "shell"},    \* the route: /login or any other
        mem : MaybeUser,            \* _memToken
        me : MaybeUser,             \* data of the "me" query
        meFailed : BOOLEAN,         \* the "me" query of this mount ended in an error
        sel : MaybeClient,          \* selectedClientId, the one on screen
        tracked : MaybeClient,      \* cachedClientRef
        data : MaybeClient \cup {Empty},  \* the client a cached query was sent with
        calls : SUBSET Call,
        late : BOOLEAN]             \* calls of dropped queries are in flight

TypeOK ==
    /\ stored \in MaybeUser
    /\ storedClient \in MaybeClient
    /\ existing \subseteq Clients
    /\ tab \in [Tabs -> Tab]

-----------------------------------------------------------------------------
(* lib/auth.ts *)

\* getToken(): the module's copy, else what localStorage holds.
Token(t) == IF tab[t].mem # None THEN tab[t].mem ELSE stored

\* isAuthenticated
Authenticated(t) == tab[t].me # None /\ Token(t) # None

\* ClientProvider and everything under it is mounted: the route is not /login
\* and ProtectedRoute lets the page through.
Mounted(t) == tab[t].at = "shell" /\ Authenticated(t)

\* The page a full load starts from: an empty cache and no call in flight.
FreshTab(at, token) ==
    [at |-> at, mem |-> token, me |-> None, meFailed |-> FALSE,
     sel |-> None, tracked |-> None, data |-> Empty, calls |-> {}, late |-> FALSE]

Init ==
    /\ stored = None
    /\ storedClient = None
    /\ existing = Clients
    /\ tab = [t \in Tabs |-> FreshTab("shell", None)]

-----------------------------------------------------------------------------
(* Requests: lib/api.ts *)

\* (Mutant: a header with nothing in it where no client is selected.)
Outgoing_EmptyHeader(kind, as) ==
    [kind |-> kind, as |-> as, client |-> IF storedClient = None THEN Empty ELSE storedClient]

\* The request interceptor: token and client as they are when it is sent.
Outgoing(kind, as) == [kind |-> kind, as |-> as, client |-> storedClient]

OfKind(t, kinds) == {c \in tab[t].calls : c.kind \in kinds}
Pending(t, kind) == OfKind(t, {kind}) # {}

Put(t, r) == tab' = [tab EXCEPT ![t] = r]

\* The tab's calls without those of queries leaving the cache: their answers
\* reach only the response interceptor.
Dropping(r, calls) ==
    [r EXCEPT !.calls = @ \ calls, !.late = @ \/ calls # {}]

Room(t) == Cardinality(tab[t].calls) < MaxCalls

Send(t, kind) ==
    Put(t, [tab[t] EXCEPT !.mem = Token(t),
                          !.calls = @ \cup {Outgoing(kind, Token(t))}])

\* gateway proxy(): a client header is forwarded only for a client of the
\* token's tenant that client-service still knows; anything else is a 403.
Forwarded(c) ==
    c.client # None => c.client \in existing /\ Tenant[c.client] = Tenant[c.as]

\* useAuth's query: enabled while there is a token, sent when a component that
\* uses it mounts and there is no answer yet or the one there is was invalidated.
FetchMe(t) ==
    /\ Token(t) # None
    /\ ~Pending(t, "me")
    /\ IF tab[t].me = None THEN ~tab[t].meFailed ELSE tab[t].meFailed
    /\ Send(t, "me")
    /\ UNCHANGED <<stored, storedClient, existing>>

\* A mounted page sends a client-scoped query (a mount, an invalidation, an
\* interval), or a save, which differs only in having nothing to store.
FetchQuery(t) ==
    /\ Mounted(t) /\ ~Pending(t, "query") /\ Room(t)
    /\ Send(t, "query")
    /\ UNCHANGED <<stored, storedClient, existing>>

\* Account.submit(): one change of password at a time (busy).
SubmitPassword(t) ==
    /\ Mounted(t) /\ ~Pending(t, "password") /\ Room(t)
    /\ Send(t, "password")
    /\ UNCHANGED <<stored, storedClient, existing>>

-----------------------------------------------------------------------------
(* Answers *)

\* A 401: the response interceptor clears the token there is NOW, whichever
\* token the call carried, and reloads the page at /login unless it is there.
Unauthorized(t, answered) ==
    /\ stored' = None
    /\ Put(t, IF tab[t].at = "login"
              THEN [tab[t] EXCEPT !.mem = None, !.calls = @ \ answered,
                        !.meFailed = @ \/ answered \cap OfKind(t, {"me"}) # {}]
              ELSE FreshTab("login", None))
    /\ UNCHANGED <<storedClient, existing>>

AnswerMe(t) == \E c \in OfKind(t, {"me"}) :
    /\ Forwarded(c)
    /\ LET stays == Mounted(t) \/ tab[t].at = "login"
       IN Put(t, [tab[t] EXCEPT !.me = c.as, !.meFailed = FALSE, !.calls = @ \ {c},
                                !.sel = IF stays THEN @ ELSE storedClient,
                                !.tracked = IF stays THEN @ ELSE storedClient])
    /\ UNCHANGED <<stored, storedClient, existing>>

\* Any failure but a 401 leaves the query in error, and ProtectedRoute will leave
\* for /login: the gateway's own refusal, or a service that cannot be reached.
FailMe(t, refused) == \E c \in OfKind(t, {"me"}) :
    /\ refused <=> ~Forwarded(c)
    /\ Put(t, [tab[t] EXCEPT !.meFailed = TRUE, !.calls = @ \ {c}])
    /\ UNCHANGED <<stored, storedClient, existing>>

AnswerQuery(t) == \E c \in OfKind(t, {"query"}) :
    /\ Forwarded(c)
    /\ Put(t, [tab[t] EXCEPT !.data = c.client, !.calls = @ \ {c}])
    /\ UNCHANGED <<stored, storedClient, existing>>

\* A password changed; a failure that is not a 401; an answer nobody waits for.
AnswerOther(t) ==
    /\ \/ \E c \in OfKind(t, {"query", "password"}) :
              Put(t, [tab[t] EXCEPT !.calls = @ \ {c}])
       \/ tab[t].late /\ Put(t, [tab[t] EXCEPT !.late = FALSE])
    /\ UNCHANGED <<stored, storedClient, existing>>

\* An expired token, or a current password typed wrong on the account page.
AnswerUnauthorized(t) ==
    \/ \E c \in OfKind(t, {"me", "query", "password"}) : Unauthorized(t, {c})
    \/ tab[t].late /\ Unauthorized(t, {})

-----------------------------------------------------------------------------
(* Signing in and out *)

SubmitLogin(t, u) ==
    /\ tab[t].at = "login" /\ ~Authenticated(t)
    /\ ~Pending(t, "login")          \* busy
    /\ Put(t, [tab[t] EXCEPT !.calls = @ \cup {Outgoing("login", u)}])
    /\ UNCHANGED <<stored, storedClient, existing>>

\* (Mutant: "me" is not invalidated.)
LoginAccepted_KeepsMe(t) == \E c \in OfKind(t, {"login"}) :
    /\ stored' = c.as
    /\ Put(t, [tab[t] EXCEPT !.mem = c.as, !.at = "shell", !.meFailed = FALSE,
                             !.sel = IF Mounted(t) THEN @ ELSE storedClient,
                             !.tracked = IF Mounted(t) THEN @ ELSE storedClient,
                             !.calls = @ \ {c}])
    /\ UNCHANGED <<storedClient, existing>>

\* setToken, invalidate "me" (which replaces a fetch of it under way), go to "/".
LoginAccepted(t) == \E c \in OfKind(t, {"login"}) :
    /\ stored' = c.as
    /\ Put(t, [Dropping(tab[t], OfKind(t, {"me"}))
                 EXCEPT !.mem = c.as, !.at = "shell", !.meFailed = FALSE,
                        !.sel = IF Mounted(t) THEN @ ELSE storedClient,
                        !.tracked = IF Mounted(t) THEN @ ELSE storedClient,
                        !.calls = (@ \ {c}) \cup {Outgoing("me", c.as)}])
    /\ UNCHANGED <<storedClient, existing>>

LoginRefused(t) == \E c \in OfKind(t, {"login"}) : Unauthorized(t, {c})

LoginFailed(t) == \E c \in OfKind(t, {"login"}) :
    /\ Put(t, [tab[t] EXCEPT !.calls = @ \ {c}])
    /\ UNCHANGED <<stored, storedClient, existing>>

\* handleLogout: clearToken, qc.clear(), nav("/login").  The selected client
\* stays in localStorage.
Logout(t) ==
    /\ Mounted(t)
    /\ stored' = None
    /\ Put(t, [Dropping(tab[t], OfKind(t, {"me", "query"}))
                 EXCEPT !.mem = None, !.me = None, !.meFailed = FALSE,
                        !.data = Empty, !.at = "login"])
    /\ UNCHANGED <<storedClient, existing>>

\* (Mutant: a "me" that failed shows an error in place of the login page.)
Redirect_NotOnError(t) ==
    /\ \/ /\ tab[t].at = "shell" /\ Token(t) = None
          /\ Put(t, [tab[t] EXCEPT !.at = "login", !.meFailed = FALSE])
       \/ /\ tab[t].at = "login" /\ Authenticated(t)
          /\ Put(t, [tab[t] EXCEPT !.at = "shell", !.sel = storedClient,
                                   !.tracked = storedClient])
    /\ UNCHANGED <<stored, storedClient, existing>>

\* ProtectedRoute's two redirects to /login, and Login's redirect to "/".  The
\* page mounted next asks for "me" anew where it had failed.
Redirect(t) ==
    /\ \/ /\ tab[t].at = "shell"
          /\ Token(t) = None \/ (tab[t].me = None /\ tab[t].meFailed)
          /\ Put(t, [tab[t] EXCEPT !.at = "login", !.meFailed = FALSE])
       \/ /\ tab[t].at = "login" /\ Authenticated(t)
          /\ Put(t, [tab[t] EXCEPT !.at = "shell", !.sel = storedClient,
                                   !.tracked = storedClient])
    /\ UNCHANGED <<stored, storedClient, existing>>

\* A full page load, of any route.
Load(t) ==
    /\ \E at \in {"login", "shell"} : Put(t, FreshTab(at, stored))
    /\ UNCHANGED <<stored, storedClient, existing>>

-----------------------------------------------------------------------------
(* The client selector: ClientContext.tsx *)

\* (Mutant: the cache is kept.)
SelectClient_KeepsCache(t, c) ==
    /\ Mounted(t)
    /\ c # None => Tenant[c] = Tenant[tab[t].me]
    /\ tab[t].sel # c
    /\ storedClient' = c
    /\ Put(t, [tab[t] EXCEPT !.sel = c, !.tracked = c])
    /\ UNCHANGED <<stored, existing>>

\* setSelectedClientId and the effect that follows in the same commit: the id
\* goes to localStorage, then every query but "me" leaves the cache.  The list
\* it is picked from is cached too and may still show a deleted client.
SelectClient(t, c) ==
    /\ Mounted(t)
    /\ c # None => Tenant[c] = Tenant[tab[t].me]
    /\ tab[t].sel # c
    /\ storedClient' = c
    /\ Put(t, [Dropping(tab[t], OfKind(t, {"query"}))
                 EXCEPT !.sel = c, !.tracked = c, !.data = Empty])
    /\ UNCHANGED <<stored, existing>>

\* client-service delete_client, asked for by anyone of the tenant.
DeleteClient(c) ==
    /\ c \in existing
    /\ existing' = existing \ {c}
    /\ UNCHANGED <<stored, storedClient, tab>>

-----------------------------------------------------------------------------
TabStep(t) ==
    \/ FetchMe(t) \/ FetchQuery(t) \/ SubmitPassword(t)
    \/ AnswerMe(t) \/ FailMe(t, TRUE) \/ FailMe(t, FALSE)
    \/ AnswerQuery(t) \/ AnswerOther(t) \/ AnswerUnauthorized(t)
    \/ \E u \in Users : SubmitLogin(t, u)
    \/ LoginAccepted(t) \/ LoginRefused(t) \/ LoginFailed(t)
    \/ Logout(t) \/ Redirect(t) \/ Load(t)
    \/ \E c \in MaybeClient : SelectClient(t, c)

Next == (\E t \in Tabs : TabStep(t)) \/ (\E c \in Clients : DeleteClient(c))

Spec == Init /\ [][Next]_vars

\* The browser renders redirects and sends "me"; somebody in front of the tab
\* keeps signing in, and sooner or later stops reloading the page by hand; a call
\* that can be answered well, again and again, is.
SignsIn(t) == \E u \in Users : SubmitLogin(t, u)
Fairness == \A t \in Tabs :
    /\ WF_vars(Redirect(t)) /\ WF_vars(FetchMe(t)) /\ WF_vars(FailMe(t, TRUE))
    /\ SF_vars(SignsIn(t)) /\ SF_vars(LoginAccepted(t)) /\ SF_vars(AnswerMe(t))
    /\ <>[][~Load(t)]_vars

FairSpec == Spec /\ Fairness

-----------------------------------------------------------------------------
(* Properties *)

\* The roles the page renders with are those of the account its calls are made
\* as, or the question is being asked again, or was and its failure was shown
\* (useAuth keeps "me" for ever, so only an invalidation asks again).
RolesAreOfTheToken == \A t \in Tabs :
    tab[t].me # None /\ tab[t].mem # None =>
        \/ tab[t].me = tab[t].mem \/ tab[t].meFailed
        \/ \E c \in OfKind(t, {"me"}) : c.as = tab[t].mem

\* What a tab has cached was asked for with the client that cachedClientRef
\* "tracks", the "client the cache currently holds data for" (ClientContext.tsx).
CacheHoldsTrackedClient == \A t \in Tabs :
    tab[t].data # Empty => tab[t].data = tab[t].tracked

\* Whoever keeps signing in gets in, over and over, while the client the browser
\* remembers is still one this person's tenant has: that client, which only the
\* selector inside could change, is all that keeps people out.
RememberedClientIsValid(t) ==
    \A u \in Users : Token(t) = u =>
        Forwarded([as |-> u, client |-> storedClient])
LetInWithValidClient == \A t \in Tabs :
    []<>(Mounted(t) \/ ~RememberedClientIsValid(t))

=============================================================================
