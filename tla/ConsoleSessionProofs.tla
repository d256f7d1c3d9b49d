------------------------ MODULE ConsoleSessionProofs ------------------------
(***************************************************************************)
(* The session of the console for any accounts, tenants and clients: its   *)
(* typing with any number of tabs and, with one tab, that nobody is shown  *)
(* the roles of another account or the data of another client.  With two   *)
(* tabs both are false (MCTwoTabs): the tabs share the token and the       *)
(* client in localStorage and do not hear of each other's changes.         *)
(***************************************************************************)
EXTENDS ConsoleSession, TLAPS

-----------------------------------------------------------------------------
(* Typing *)

\* Replacing one tab by another keeps the tabs well-formed.
LEMMA PutTab ==
  ASSUME tab \in [Tabs -> Tab], NEW t \in Tabs, NEW r \in Tab, Put(t, r)
  PROVE  /\ tab' \in [Tabs -> Tab]
         /\ tab'[t] = r
         /\ \A u \in Tabs : u # t => tab'[u] = tab[u]
  BY DEF Put

LEMMA FreshType ==
  ASSUME NEW at \in {"login", "shell"}, NEW u \in MaybeUser
  PROVE  FreshTab(at, u) \in Tab
  BY DEF FreshTab, Tab, MaybeUser, MaybeClient

LEMMA OutgoingType ==
  ASSUME TypeOK, NEW kind \in {"login", "me", "query", "password"}, NEW u \in Users
  PROVE  Outgoing(kind, u) \in Call
  BY DEF TypeOK, Outgoing, Call

LEMMA TokenType ==
  ASSUME TypeOK, NEW t \in Tabs
  PROVE  /\ Token(t) \in MaybeUser
         /\ Token(t) # None => Token(t) \in Users
  BY DEF TypeOK, Token, MaybeUser, Tab

LEMMA DroppingType ==
  ASSUME NEW r \in Tab, NEW calls \in SUBSET Call
  PROVE  Dropping(r, calls) \in Tab
<1>1. (r.late \/ calls # {}) \in BOOLEAN
  OBVIOUS
<1> QED
  BY <1>1 DEF Dropping, Tab

LEMMA OfKindType ==
  ASSUME TypeOK, NEW t \in Tabs, NEW kinds
  PROVE  OfKind(t, kinds) \in SUBSET Call
  BY DEF TypeOK, OfKind, Tab

\* Sending a call, which is how "me", a query and a change of password begin.
LEMMA SendType ==
  ASSUME TypeOK, NEW t \in Tabs, NEW kind \in {"me", "query", "password"},
         Token(t) # None, Send(t, kind)
  PROVE  tab' \in [Tabs -> Tab]
<1> DEFINE o == Outgoing(kind, Token(t))
           r == [tab[t] EXCEPT !.mem = Token(t), !.calls = @ \cup {o}]
<1>1. /\ Token(t) \in MaybeUser
      /\ o \in Call
      /\ tab[t] \in Tab
  BY OutgoingType, TokenType DEF TypeOK
<1>2. Put(t, r)
  BY DEF Send
<1> HIDE DEF o
<1>3. r \in Tab
  BY <1>1 DEF Tab
<1> HIDE DEF r
<1> QED
  BY <1>2, <1>3, PutTab DEF TypeOK

LEMMA UnauthorizedType ==
  ASSUME TypeOK, NEW t \in Tabs, NEW answered \in SUBSET Call, Unauthorized(t, answered)
  PROVE  TypeOK'
<1> DEFINE f == tab[t].meFailed \/ answered \cap OfKind(t, {"me"}) # {}
           r == [tab[t] EXCEPT !.mem = None, !.calls = @ \ answered, !.meFailed = f]
<1>1. f \in BOOLEAN /\ None \in MaybeUser /\ tab[t] \in Tab
  BY DEF TypeOK, MaybeUser, Tab
<1>2. CASE tab[t].at = "login"
  <2>1. Put(t, r)
    BY <1>2 DEF Unauthorized
  <2> HIDE DEF f
  <2>2. r \in Tab
    BY <1>1 DEF Tab
  <2> HIDE DEF r
  <2> QED
    BY <1>1, <2>1, <2>2, PutTab DEF Unauthorized, TypeOK
<1>3. CASE tab[t].at # "login"
  <2>1. Put(t, FreshTab("login", None))
    BY <1>3 DEF Unauthorized
  <2> QED
    BY <1>1, <2>1, PutTab, FreshType DEF Unauthorized, TypeOK
<1> QED
  BY <1>2, <1>3

\* What is left to show of an action that changes the tab only.
LEMMA MoveType ==
  ASSUME TypeOK, NEW t \in Tabs, NEW r \in Tab, Put(t, r),
         UNCHANGED <<stored, storedClient, existing>>
  PROVE  TypeOK'
  BY PutTab DEF TypeOK

LEMMA AnswersType ==
  ASSUME TypeOK, NEW t \in Tabs,
         \/ AnswerMe(t) \/ FailMe(t, TRUE) \/ FailMe(t, FALSE)
         \/ AnswerQuery(t) \/ AnswerOther(t) \/ AnswerUnauthorized(t)
  PROVE  TypeOK'
<1>t. tab[t] \in Tab /\ storedClient \in MaybeClient
  BY DEF TypeOK
<1>1. ASSUME AnswerMe(t) PROVE TypeOK'
  <2>1. PICK c \in OfKind(t, {"me"}) :
          LET stays == Mounted(t) \/ tab[t].at = "login"
          IN Put(t, [tab[t] EXCEPT !.me = c.as, !.meFailed = FALSE, !.calls = @ \ {c},
                                   !.sel = IF stays THEN @ ELSE storedClient,
                                   !.tracked = IF stays THEN @ ELSE storedClient])
    BY <1>1 DEF AnswerMe
  <2> DEFINE stays == Mounted(t) \/ tab[t].at = "login"
             s == IF stays THEN tab[t].sel ELSE storedClient
             k == IF stays THEN tab[t].tracked ELSE storedClient
             r == [tab[t] EXCEPT !.me = c.as, !.meFailed = FALSE, !.calls = @ \ {c},
                                 !.sel = s, !.tracked = k]
  <2>2. Put(t, r)
    BY <2>1
  <2>3. c.as \in MaybeUser /\ s \in MaybeClient /\ k \in MaybeClient
    BY <1>t DEF OfKind, Tab, Call, MaybeUser
  <2> HIDE DEF s, k
  <2>4. r \in Tab
    BY <1>t, <2>3 DEF Tab
  <2> HIDE DEF r
  <2> QED
    BY <1>1, <2>2, <2>4, MoveType DEF AnswerMe
<1>2. ASSUME NEW b \in BOOLEAN, FailMe(t, b) PROVE TypeOK'
  <2>1. PICK c \in OfKind(t, {"me"}) :
          Put(t, [tab[t] EXCEPT !.meFailed = TRUE, !.calls = @ \ {c}])
    BY <1>2 DEF FailMe
  <2> DEFINE r == [tab[t] EXCEPT !.meFailed = TRUE, !.calls = @ \ {c}]
  <2>2. r \in Tab
    BY <1>t DEF Tab
  <2> HIDE DEF r
  <2> QED
    BY <1>2, <2>1, <2>2, MoveType DEF FailMe, r
<1>3. ASSUME AnswerQuery(t) PROVE TypeOK'
  <2>1. PICK c \in OfKind(t, {"query"}) :
          Put(t, [tab[t] EXCEPT !.data = c.client, !.calls = @ \ {c}])
    BY <1>3 DEF AnswerQuery
  <2> DEFINE r == [tab[t] EXCEPT !.data = c.client, !.calls = @ \ {c}]
  <2>2. c.client \in MaybeClient
    BY <1>t DEF OfKind, Tab, Call
  <2>3. r \in Tab
    BY <1>t, <2>2 DEF Tab
  <2> HIDE DEF r
  <2> QED
    BY <1>3, <2>1, <2>3, MoveType DEF AnswerQuery, r
<1>4. ASSUME AnswerOther(t) PROVE TypeOK'
  <2>1. ASSUME NEW c \in OfKind(t, {"query", "password"}),
               Put(t, [tab[t] EXCEPT !.calls = @ \ {c}])
        PROVE  TypeOK'
    <3>1. [tab[t] EXCEPT !.calls = @ \ {c}] \in Tab
      BY <1>t DEF Tab
    <3> QED
      BY <1>4, <2>1, <3>1, MoveType DEF AnswerOther
  <2>2. ASSUME Put(t, [tab[t] EXCEPT !.late = FALSE]) PROVE TypeOK'
    <3>1. [tab[t] EXCEPT !.late = FALSE] \in Tab
      BY <1>t DEF Tab
    <3> QED
      BY <1>4, <2>2, <3>1, MoveType DEF AnswerOther
  <2> QED
    BY <1>4, <2>1, <2>2 DEF AnswerOther
<1>5. ASSUME AnswerUnauthorized(t) PROVE TypeOK'
  <2>1. ASSUME NEW c \in OfKind(t, {"me", "query", "password"}), Unauthorized(t, {c})
        PROVE  TypeOK'
    <3>1. {c} \in SUBSET Call
      BY OfKindType
    <3> QED
      BY <2>1, <3>1, UnauthorizedType
  <2> QED
    BY <1>5, <2>1, UnauthorizedType DEF AnswerUnauthorized
<1> QED
  BY <1>1, <1>2, <1>3, <1>4, <1>5

LEMMA LoginType ==
  ASSUME TypeOK, NEW t \in Tabs,
         \/ \E u \in Users : SubmitLogin(t, u)
         \/ LoginAccepted(t) \/ LoginRefused(t) \/ LoginFailed(t)
  PROVE  TypeOK'
<1>t. tab[t] \in Tab /\ storedClient \in MaybeClient
  BY DEF TypeOK
<1>1. ASSUME NEW u \in Users, SubmitLogin(t, u) PROVE TypeOK'
  <2> DEFINE o == Outgoing("login", u)
             r == [tab[t] EXCEPT !.calls = @ \cup {o}]
  <2>1. o \in Call
    BY OutgoingType
  <2>2. Put(t, r)
    BY <1>1 DEF SubmitLogin
  <2> HIDE DEF o
  <2>3. r \in Tab
    BY <1>t, <2>1 DEF Tab
  <2> HIDE DEF r
  <2> QED
    BY <1>1, <2>2, <2>3, MoveType DEF SubmitLogin
<1>2. ASSUME LoginAccepted(t) PROVE TypeOK'
  <2>1. PICK c \in OfKind(t, {"login"}) :
          /\ stored' = c.as
          /\ Put(t, [Dropping(tab[t], OfKind(t, {"me"}))
                 EXCEPT !.mem = c.as, !.at = "shell", !.meFailed = FALSE,
                        !.sel = IF Mounted(t) THEN @ ELSE storedClient,
                        !.tracked = IF Mounted(t) THEN @ ELSE storedClient,
                        !.calls = (@ \ {c}) \cup {Outgoing("me", c.as)}])
    BY <1>2 DEF LoginAccepted
  <2> DEFINE d == Dropping(tab[t], OfKind(t, {"me"}))
             s == IF Mounted(t) THEN d.sel ELSE storedClient
             k == IF Mounted(t) THEN d.tracked ELSE storedClient
             o == Outgoing("me", c.as)
             r == [d EXCEPT !.mem = c.as, !.at = "shell", !.meFailed = FALSE,
                            !.sel = s, !.tracked = k, !.calls = (@ \ {c}) \cup {o}]
  <2>2. Put(t, r)
    BY <2>1
  <2>3. c.as \in Users
    BY <1>t DEF OfKind, Tab, Call
  <2>4. o \in Call /\ c.as \in MaybeUser
    BY <2>3, OutgoingType DEF MaybeUser
  <2>5. d \in Tab
    BY <1>t, OfKindType, DroppingType
  <2> HIDE DEF d
  <2>6. s \in MaybeClient /\ k \in MaybeClient
    BY <1>t, <2>5 DEF Tab
  <2> HIDE DEF o, s, k
  <2>7. r \in Tab
    BY <2>4, <2>5, <2>6 DEF Tab
  <2> HIDE DEF r
  <2> QED
    BY <1>2, <2>1, <2>2, <2>4, <2>7, PutTab DEF LoginAccepted, TypeOK
<1>3. ASSUME LoginRefused(t) PROVE TypeOK'
  <2>1. PICK c \in OfKind(t, {"login"}) : Unauthorized(t, {c})
    BY <1>3 DEF LoginRefused
  <2>2. {c} \in SUBSET Call
    BY OfKindType
  <2> QED
    BY <2>1, <2>2, UnauthorizedType
<1>4. ASSUME LoginFailed(t) PROVE TypeOK'
  <2>1. PICK c \in OfKind(t, {"login"}) : Put(t, [tab[t] EXCEPT !.calls = @ \ {c}])
    BY <1>4 DEF LoginFailed
  <2>2. [tab[t] EXCEPT !.calls = @ \ {c}] \in Tab
    BY <1>t DEF Tab
  <2> QED
    BY <1>4, <2>1, <2>2, MoveType DEF LoginFailed
<1> QED
  BY <1>1, <1>2, <1>3, <1>4

LEMMA LogoutType ==
  ASSUME TypeOK, NEW t \in Tabs, Logout(t) PROVE TypeOK'
<1> DEFINE d == Dropping(tab[t], OfKind(t, {"me", "query"}))
           r == [d EXCEPT !.mem = None, !.me = None, !.meFailed = FALSE,
                          !.data = Empty, !.at = "login"]
<1>1. Put(t, r)
  BY DEF Logout
<1>2. d \in Tab /\ None \in MaybeUser
  BY OfKindType, DroppingType DEF TypeOK, MaybeUser
<1> HIDE DEF d
<1>3. r \in Tab
  BY <1>2 DEF Tab
<1> HIDE DEF r
<1> QED
  BY <1>1, <1>2, <1>3, PutTab DEF Logout, TypeOK

LEMMA RedirectType ==
  ASSUME TypeOK, NEW t \in Tabs, Redirect(t) PROVE TypeOK'
<1> DEFINE r == [tab[t] EXCEPT !.at = "login", !.meFailed = FALSE]
           s == [tab[t] EXCEPT !.at = "shell", !.sel = storedClient,
                               !.tracked = storedClient]
<1>1. r \in Tab /\ s \in Tab
  BY DEF TypeOK, Tab
<1>2. Put(t, r) \/ Put(t, s)
  BY DEF Redirect
<1> HIDE DEF r, s
<1> QED
  BY <1>1, <1>2, MoveType DEF Redirect

LEMMA SelectClientType ==
  ASSUME TypeOK, NEW t \in Tabs, NEW c \in MaybeClient, SelectClient(t, c)
  PROVE  TypeOK'
<1> DEFINE d == Dropping(tab[t], OfKind(t, {"query"}))
           r == [d EXCEPT !.sel = c, !.tracked = c, !.data = Empty]
<1>1. Put(t, r)
  BY DEF SelectClient
<1>2. d \in Tab
  BY OfKindType, DroppingType DEF TypeOK
<1> HIDE DEF d
<1>3. r \in Tab
  BY <1>2 DEF Tab
<1> HIDE DEF r
<1> QED
  BY <1>1, <1>3, PutTab DEF SelectClient, TypeOK

LEMMA TypingStep == TypeOK /\ [Next]_vars => TypeOK'
<1> SUFFICES ASSUME TypeOK, [Next]_vars PROVE TypeOK'
  OBVIOUS
<1>1. CASE UNCHANGED vars
  BY <1>1 DEF vars, TypeOK
<1>2. ASSUME NEW c \in Clients, DeleteClient(c) PROVE TypeOK'
  BY <1>2 DEF DeleteClient, TypeOK
<1>3. ASSUME NEW t \in Tabs, TabStep(t) PROVE TypeOK'
  <2>1. ASSUME FetchMe(t) \/ FetchQuery(t) \/ SubmitPassword(t) PROVE TypeOK'
    <3>1. Token(t) # None
      BY <2>1 DEF FetchMe, FetchQuery, SubmitPassword, Mounted, Authenticated
    <3>2. tab' \in [Tabs -> Tab]
      BY <2>1, <3>1, SendType DEF FetchMe, FetchQuery, SubmitPassword
    <3> QED
      BY <2>1, <3>2 DEF FetchMe, FetchQuery, SubmitPassword, TypeOK
  <2>2. ASSUME Load(t) PROVE TypeOK'
    <3>1. PICK at \in {"login", "shell"} : Put(t, FreshTab(at, stored))
      BY <2>2 DEF Load
    <3>2. FreshTab(at, stored) \in Tab
      BY FreshType DEF TypeOK
    <3> QED
      BY <2>2, <3>1, <3>2, MoveType DEF Load
  <2>3. CASE \/ AnswerMe(t) \/ FailMe(t, TRUE) \/ FailMe(t, FALSE)
             \/ AnswerQuery(t) \/ AnswerOther(t) \/ AnswerUnauthorized(t)
    BY <2>3, AnswersType
  <2>4. CASE \/ \E u \in Users : SubmitLogin(t, u)
             \/ LoginAccepted(t) \/ LoginRefused(t) \/ LoginFailed(t)
    BY <2>4, LoginType
  <2> QED
    BY <1>3, <2>1, <2>2, <2>3, <2>4, LogoutType, RedirectType, SelectClientType
    DEF TabStep
<1> QED
  BY <1>1, <1>2, <1>3 DEF Next

\* The session is well typed, for any tabs, accounts and clients: no call goes out
\* in nobody's name, and no header is sent that is not a client's.
THEOREM SessionTyping == Spec => []TypeOK
<1>1. Init => TypeOK
  <2> SUFFICES ASSUME Init PROVE TypeOK
    OBVIOUS
  <2>1. FreshTab("shell", None) \in Tab
    BY FreshType DEF MaybeUser
  <2> QED
    BY <2>1 DEF Init, TypeOK, MaybeUser, MaybeClient
<1> QED
  BY <1>1, TypingStep, PTL DEF Spec

-----------------------------------------------------------------------------
(* One tab *)

OneTab == \A t, u \in Tabs : t = u

\* Every question about "me" under way was asked for the token there is, and the
\* roles there are, are its own, asked for again, or failed.
MineOf(r) ==
    r.mem # None =>
      /\ \A c \in r.calls : c.kind = "me" => c.as = r.mem
      /\ r.me # None => \/ r.me = r.mem \/ r.meFailed
                        \/ \E c \in r.calls : c.kind = "me" /\ c.as = r.mem

MountedOf(r) == r.at = "shell" /\ r.me # None /\ r.mem # None

\* What is cached, and what is being fetched, is of the client in localStorage,
\* which is the tracked one once anything is mounted, fetched or cached.
CacheOf(r, client) ==
    /\ \A c \in r.calls : c.kind = "query" => c.client = client /\ r.tracked = client
    /\ r.data # Empty => r.data = client /\ r.tracked = client
    /\ MountedOf(r) => r.tracked = client

TabInv(r, token, client) ==
    /\ r.mem = token
    /\ MineOf(r)
    /\ CacheOf(r, client)

SessionInv == TypeOK /\ \A t \in Tabs : TabInv(tab[t], stored, storedClient)

LEMMA PutIs ==
  ASSUME tab \in [Tabs -> Tab], NEW t \in Tabs, NEW r, Put(t, r)
  PROVE  tab'[t] = r
  BY DEF Put

LEMMA TokenIsMem ==
  ASSUME SessionInv, NEW t \in Tabs
  PROVE  /\ Token(t) = tab[t].mem
         /\ Mounted(t) <=> MountedOf(tab[t])
  BY DEF SessionInv, TabInv, Token, Mounted, Authenticated, MountedOf

\* What an action of a tab has to show when it is the only one.
LEMMA OneTabStep ==
  ASSUME OneTab, TypeOK', NEW t \in Tabs, TabInv(tab'[t], stored', storedClient')
  PROVE  SessionInv'
  BY DEF OneTab, SessionInv

LEMMA SendInv ==
  ASSUME SessionInv, NEW t \in Tabs, NEW kind \in {"me", "query", "password"},
         Token(t) # None, kind = "query" => Mounted(t), Send(t, kind),
         UNCHANGED <<stored, storedClient>>
  PROVE  TabInv(tab'[t], stored', storedClient')
<1> DEFINE o == Outgoing(kind, Token(t))
           r == [tab[t] EXCEPT !.mem = Token(t), !.calls = @ \cup {o}]
<1>1. tab'[t] = r
  BY PutIs DEF SessionInv, TypeOK, Send
<1>2. /\ tab[t] \in Tab
      /\ TabInv(tab[t], stored, storedClient)
  BY DEF SessionInv, TypeOK
<1>3. /\ o.kind = kind
      /\ o.as = Token(t)
      /\ o.client = storedClient
  BY DEF Outgoing
<1> HIDE DEF o
<1>4. /\ r.mem = Token(t) /\ r.calls = tab[t].calls \cup {o}
      /\ r.me = tab[t].me /\ r.meFailed = tab[t].meFailed /\ r.at = tab[t].at
      /\ r.data = tab[t].data /\ r.tracked = tab[t].tracked
  BY <1>2 DEF Tab
<1> HIDE DEF r
<1> QED
  BY <1>1, <1>2, <1>3, <1>4, TokenIsMem DEF TabInv, MineOf, CacheOf, MountedOf

\* A page just loaded has nothing but the token localStorage holds.
LEMMA FreshInv ==
  ASSUME NEW at, NEW token, NEW client
  PROVE  TabInv(FreshTab(at, token), token, client)
  BY DEF TabInv, MineOf, CacheOf, MountedOf, FreshTab

\* A tab on the login page, or whose token is gone, that only loses calls.
LEMMA UnauthorizedInv ==
  ASSUME SessionInv, NEW t \in Tabs, NEW answered \in SUBSET Call,
         Unauthorized(t, answered)
  PROVE  TabInv(tab'[t], stored', storedClient')
<1> DEFINE f == tab[t].meFailed \/ answered \cap OfKind(t, {"me"}) # {}
           r == [tab[t] EXCEPT !.mem = None, !.calls = @ \ answered, !.meFailed = f]
<1>1. /\ tab[t] \in Tab
      /\ TabInv(tab[t], stored, storedClient)
  BY DEF SessionInv, TypeOK
<1>2. CASE tab[t].at = "login"
  <2>1. tab'[t] = r
    BY <1>2, PutIs DEF Unauthorized, SessionInv, TypeOK
  <2> HIDE DEF f
  <2>2. /\ r.mem = None /\ r.calls = tab[t].calls \ answered
        /\ r.at = "login" /\ r.data = tab[t].data /\ r.tracked = tab[t].tracked
    BY <1>1, <1>2 DEF Tab
  <2> HIDE DEF r
  <2> QED
    BY <1>1, <2>1, <2>2 DEF TabInv, MineOf, CacheOf, MountedOf, Unauthorized
<1>3. CASE tab[t].at # "login"
  <2>1. tab'[t] = FreshTab("login", None)
    BY <1>3, PutIs DEF Unauthorized, SessionInv, TypeOK
  <2> QED
    BY <2>1, FreshInv DEF Unauthorized
<1> QED
  BY <1>2, <1>3

LEMMA AnswersInv ==
  ASSUME SessionInv, NEW t \in Tabs,
         \/ AnswerMe(t) \/ FailMe(t, TRUE) \/ FailMe(t, FALSE)
         \/ AnswerQuery(t) \/ AnswerOther(t) \/ AnswerUnauthorized(t)
  PROVE  TabInv(tab'[t], stored', storedClient')
<1>t. /\ tab[t] \in Tab
      /\ TabInv(tab[t], stored, storedClient)
      /\ Mounted(t) <=> MountedOf(tab[t])
  BY TokenIsMem DEF SessionInv, TypeOK
<1>1. ASSUME AnswerMe(t) PROVE TabInv(tab'[t], stored', storedClient')
  <2>1. PICK c \in OfKind(t, {"me"}) :
          LET stays == Mounted(t) \/ tab[t].at = "login"
          IN Put(t, [tab[t] EXCEPT !.me = c.as, !.meFailed = FALSE, !.calls = @ \ {c},
                                   !.sel = IF stays THEN @ ELSE storedClient,
                                   !.tracked = IF stays THEN @ ELSE storedClient])
    BY <1>1 DEF AnswerMe
  <2> DEFINE stays == Mounted(t) \/ tab[t].at = "login"
             s == IF stays THEN tab[t].sel ELSE storedClient
             k == IF stays THEN tab[t].tracked ELSE storedClient
             r == [tab[t] EXCEPT !.me = c.as, !.meFailed = FALSE, !.calls = @ \ {c},
                                 !.sel = s, !.tracked = k]
  <2>2. tab'[t] = r
    BY <2>1, PutIs DEF SessionInv, TypeOK
  <2>3. /\ c \in tab[t].calls /\ c.kind = "me"
        /\ k = tab[t].tracked \/ k = storedClient
        /\ k = storedClient \/ tab[t].at = "login" \/ Mounted(t)
    BY DEF OfKind
  <2>4. tab[t].mem # None => c.as = tab[t].mem
    BY <1>t, <2>3 DEF TabInv, MineOf
  <2> HIDE DEF s, k
  <2>5. /\ r.mem = tab[t].mem /\ r.me = c.as /\ r.calls = tab[t].calls \ {c}
        /\ r.at = tab[t].at /\ r.data = tab[t].data /\ r.tracked = k
    BY <1>t DEF Tab
  <2> HIDE DEF r
  <2>6. MineOf(r)
    BY <1>t, <2>4, <2>5 DEF TabInv, MineOf
  <2>7. CacheOf(r, storedClient)
    BY <1>t, <2>3, <2>5 DEF TabInv, CacheOf, MountedOf
  <2> QED
    BY <1>1, <1>t, <2>2, <2>5, <2>6, <2>7 DEF AnswerMe, TabInv
<1>2. ASSUME NEW b \in BOOLEAN, FailMe(t, b)
      PROVE  TabInv(tab'[t], stored', storedClient')
  <2>1. PICK c \in OfKind(t, {"me"}) :
          Put(t, [tab[t] EXCEPT !.meFailed = TRUE, !.calls = @ \ {c}])
    BY <1>2 DEF FailMe
  <2> DEFINE r == [tab[t] EXCEPT !.meFailed = TRUE, !.calls = @ \ {c}]
  <2>2. tab'[t] = r
    BY <2>1, PutIs DEF SessionInv, TypeOK
  <2>3. /\ r.mem = tab[t].mem /\ r.me = tab[t].me /\ r.calls = tab[t].calls \ {c}
        /\ r.meFailed = TRUE
        /\ r.at = tab[t].at /\ r.data = tab[t].data /\ r.tracked = tab[t].tracked
    BY <1>t DEF Tab
  <2> HIDE DEF r
  <2> QED
    BY <1>2, <1>t, <2>2, <2>3 DEF FailMe, TabInv, MineOf, CacheOf, MountedOf
<1>3. ASSUME AnswerQuery(t) PROVE TabInv(tab'[t], stored', storedClient')
  <2>1. PICK c \in OfKind(t, {"query"}) :
          Put(t, [tab[t] EXCEPT !.data = c.client, !.calls = @ \ {c}])
    BY <1>3 DEF AnswerQuery
  <2> DEFINE r == [tab[t] EXCEPT !.data = c.client, !.calls = @ \ {c}]
  <2>2. tab'[t] = r
    BY <2>1, PutIs DEF SessionInv, TypeOK
  <2>3. c.kind = "query" /\ c \in tab[t].calls
    BY DEF OfKind
  <2>4. c.client = storedClient /\ tab[t].tracked = storedClient
    BY <1>t, <2>3 DEF TabInv, CacheOf
  <2>5. /\ r.mem = tab[t].mem /\ r.me = tab[t].me /\ r.calls = tab[t].calls \ {c}
        /\ r.meFailed = tab[t].meFailed
        /\ r.at = tab[t].at /\ r.data = c.client /\ r.tracked = tab[t].tracked
    BY <1>t DEF Tab
  <2> HIDE DEF r
  <2>6. MineOf(r)
    BY <1>t, <2>3, <2>5 DEF TabInv, MineOf
  <2>7. CacheOf(r, storedClient)
    BY <1>t, <2>4, <2>5 DEF TabInv, CacheOf, MountedOf
  <2> QED
    BY <1>3, <1>t, <2>2, <2>5, <2>6, <2>7 DEF AnswerQuery, TabInv
<1>4. ASSUME AnswerOther(t) PROVE TabInv(tab'[t], stored', storedClient')
  <2>1. ASSUME NEW c \in OfKind(t, {"query", "password"}),
               Put(t, [tab[t] EXCEPT !.calls = @ \ {c}])
        PROVE  TabInv(tab'[t], stored', storedClient')
    <3> DEFINE r == [tab[t] EXCEPT !.calls = @ \ {c}]
    <3>1. tab'[t] = r
      BY <2>1, PutIs DEF SessionInv, TypeOK
    <3>2. c.kind # "me"
      BY DEF OfKind
    <3>3. /\ r.mem = tab[t].mem /\ r.me = tab[t].me /\ r.calls = tab[t].calls \ {c}
          /\ r.meFailed = tab[t].meFailed
          /\ r.at = tab[t].at /\ r.data = tab[t].data /\ r.tracked = tab[t].tracked
      BY <1>t DEF Tab
    <3> HIDE DEF r
    <3> QED
      BY <1>4, <1>t, <3>1, <3>2, <3>3
      DEF AnswerOther, TabInv, MineOf, CacheOf, MountedOf
  <2>2. ASSUME Put(t, [tab[t] EXCEPT !.late = FALSE])
        PROVE  TabInv(tab'[t], stored', storedClient')
    <3> DEFINE r == [tab[t] EXCEPT !.late = FALSE]
    <3>1. tab'[t] = r
      BY <2>2, PutIs DEF SessionInv, TypeOK
    <3>2. /\ r.mem = tab[t].mem /\ r.me = tab[t].me /\ r.calls = tab[t].calls
          /\ r.meFailed = tab[t].meFailed
          /\ r.at = tab[t].at /\ r.data = tab[t].data /\ r.tracked = tab[t].tracked
      BY <1>t DEF Tab
    <3> HIDE DEF r
    <3> QED
      BY <1>4, <1>t, <3>1, <3>2 DEF AnswerOther, TabInv, MineOf, CacheOf, MountedOf
  <2> QED
    BY <1>4, <2>1, <2>2 DEF AnswerOther
<1>5. ASSUME AnswerUnauthorized(t) PROVE TabInv(tab'[t], stored', storedClient')
  <2>1. ASSUME NEW c \in OfKind(t, {"me", "query", "password"}), Unauthorized(t, {c})
        PROVE  TabInv(tab'[t], stored', storedClient')
    <3>1. {c} \in SUBSET Call
      BY OfKindType DEF SessionInv
    <3> QED
      BY <2>1, <3>1, UnauthorizedInv
  <2> QED
    BY <1>5, <2>1, UnauthorizedInv DEF AnswerUnauthorized
<1> QED
  BY <1>1, <1>2, <1>3, <1>4, <1>5

\* What the calls of dropped queries leave behind.
LEMMA DroppingIs ==
  ASSUME NEW r \in Tab, NEW calls
  PROVE  LET d == Dropping(r, calls)
         IN /\ d.calls = r.calls \ calls
            /\ d.mem = r.mem /\ d.me = r.me /\ d.meFailed = r.meFailed /\ d.at = r.at
            /\ d.data = r.data /\ d.tracked = r.tracked
  BY DEF Dropping, Tab

LEMMA LoginInv ==
  ASSUME SessionInv, NEW t \in Tabs,
         \/ \E u \in Users : SubmitLogin(t, u)
         \/ LoginAccepted(t) \/ LoginRefused(t) \/ LoginFailed(t)
  PROVE  TabInv(tab'[t], stored', storedClient')
<1>t. /\ tab[t] \in Tab
      /\ TabInv(tab[t], stored, storedClient)
      /\ Mounted(t) <=> MountedOf(tab[t])
  BY TokenIsMem DEF SessionInv, TypeOK
<1>1. ASSUME NEW u \in Users, SubmitLogin(t, u)
      PROVE  TabInv(tab'[t], stored', storedClient')
  <2> DEFINE o == Outgoing("login", u)
             r == [tab[t] EXCEPT !.calls = @ \cup {o}]
  <2>1. tab'[t] = r
    BY <1>1, PutIs DEF SubmitLogin, SessionInv, TypeOK
  <2>2. o.kind = "login"
    BY DEF Outgoing
  <2> HIDE DEF o
  <2>3. /\ r.mem = tab[t].mem /\ r.me = tab[t].me /\ r.calls = tab[t].calls \cup {o}
        /\ r.meFailed = tab[t].meFailed
        /\ r.at = tab[t].at /\ r.data = tab[t].data /\ r.tracked = tab[t].tracked
    BY <1>t DEF Tab
  <2> HIDE DEF r
  <2> QED
    BY <1>1, <1>t, <2>1, <2>2, <2>3 DEF SubmitLogin, TabInv, MineOf, CacheOf, MountedOf
<1>2. ASSUME LoginAccepted(t) PROVE TabInv(tab'[t], stored', storedClient')
  <2>1. PICK c \in OfKind(t, {"login"}) :
          /\ stored' = c.as
          /\ Put(t, [Dropping(tab[t], OfKind(t, {"me"}))
                 EXCEPT !.mem = c.as, !.at = "shell", !.meFailed = FALSE,
                        !.sel = IF Mounted(t) THEN @ ELSE storedClient,
                        !.tracked = IF Mounted(t) THEN @ ELSE storedClient,
                        !.calls = (@ \ {c}) \cup {Outgoing("me", c.as)}])
    BY <1>2 DEF LoginAccepted
  <2> DEFINE d == Dropping(tab[t], OfKind(t, {"me"}))
             s == IF Mounted(t) THEN d.sel ELSE storedClient
             k == IF Mounted(t) THEN d.tracked ELSE storedClient
             o == Outgoing("me", c.as)
             r == [d EXCEPT !.mem = c.as, !.at = "shell", !.meFailed = FALSE,
                            !.sel = s, !.tracked = k, !.calls = (@ \ {c}) \cup {o}]
  <2>2. tab'[t] = r
    BY <2>1, PutIs DEF SessionInv, TypeOK
  <2>3. d \in Tab
    BY <1>t, OfKindType, DroppingType DEF SessionInv
  <2>4. /\ d.calls = {b \in tab[t].calls : b.kind # "me"}
        /\ d.me = tab[t].me /\ d.data = tab[t].data /\ d.tracked = tab[t].tracked
    BY <1>t, DroppingIs DEF OfKind
  <2> HIDE DEF d
  <2>5. /\ k = tab[t].tracked \/ k = storedClient
        /\ Mounted(t) => k = tab[t].tracked
        /\ ~Mounted(t) => k = storedClient
    BY <2>4
  <2>6. o.kind = "me" /\ o.as = c.as
    BY DEF Outgoing
  <2> HIDE DEF o, s, k
  <2>7. /\ r.mem = c.as /\ r.me = tab[t].me /\ r.calls = (d.calls \ {c}) \cup {o}
        /\ r.data = tab[t].data /\ r.tracked = k
    BY <2>3, <2>4 DEF Tab
  <2> HIDE DEF r
  <2>8. MineOf(r)
    BY <2>4, <2>6, <2>7 DEF MineOf
  <2>9. CacheOf(r, storedClient)
    BY <1>t, <2>4, <2>5, <2>6, <2>7 DEF TabInv, CacheOf, MountedOf
  <2> QED
    BY <1>2, <2>1, <2>2, <2>7, <2>8, <2>9 DEF LoginAccepted, TabInv
<1>3. ASSUME LoginRefused(t) PROVE TabInv(tab'[t], stored', storedClient')
  <2>1. PICK c \in OfKind(t, {"login"}) : Unauthorized(t, {c})
    BY <1>3 DEF LoginRefused
  <2>2. {c} \in SUBSET Call
    BY OfKindType DEF SessionInv
  <2> QED
    BY <2>1, <2>2, UnauthorizedInv
<1>4. ASSUME LoginFailed(t) PROVE TabInv(tab'[t], stored', storedClient')
  <2>1. PICK c \in OfKind(t, {"login"}) : Put(t, [tab[t] EXCEPT !.calls = @ \ {c}])
    BY <1>4 DEF LoginFailed
  <2> DEFINE r == [tab[t] EXCEPT !.calls = @ \ {c}]
  <2>2. tab'[t] = r
    BY <2>1, PutIs DEF SessionInv, TypeOK
  <2>3. c.kind = "login"
    BY DEF OfKind
  <2>4. /\ r.mem = tab[t].mem /\ r.me = tab[t].me /\ r.calls = tab[t].calls \ {c}
        /\ r.meFailed = tab[t].meFailed
        /\ r.at = tab[t].at /\ r.data = tab[t].data /\ r.tracked = tab[t].tracked
    BY <1>t DEF Tab
  <2> HIDE DEF r
  <2> QED
    BY <1>4, <1>t, <2>2, <2>3, <2>4 DEF LoginFailed, TabInv, MineOf, CacheOf, MountedOf
<1> QED
  BY <1>1, <1>2, <1>3, <1>4

LEMMA LogoutInv ==
  ASSUME SessionInv, NEW t \in Tabs, Logout(t)
  PROVE  TabInv(tab'[t], stored', storedClient')
<1> DEFINE d == Dropping(tab[t], OfKind(t, {"me", "query"}))
           r == [d EXCEPT !.mem = None, !.me = None, !.meFailed = FALSE,
                          !.data = Empty, !.at = "login"]
<1>1. tab'[t] = r
  BY PutIs DEF Logout, SessionInv, TypeOK
<1>2. d \in Tab
  BY OfKindType, DroppingType DEF SessionInv, TypeOK
<1>3. d.calls = {b \in tab[t].calls : b.kind \notin {"me", "query"}}
  BY DroppingIs DEF SessionInv, TypeOK, OfKind
<1> HIDE DEF d
<1>4. r.mem = None /\ r.data = Empty /\ r.at = "login" /\ r.calls = d.calls
  BY <1>2 DEF Tab
<1> HIDE DEF r
<1> QED
  BY <1>1, <1>3, <1>4 DEF Logout, TabInv, MineOf, CacheOf, MountedOf

LEMMA RedirectInv ==
  ASSUME SessionInv, NEW t \in Tabs, Redirect(t)
  PROVE  TabInv(tab'[t], stored', storedClient')
<1> DEFINE r == [tab[t] EXCEPT !.at = "login", !.meFailed = FALSE]
           s == [tab[t] EXCEPT !.at = "shell", !.sel = storedClient,
                               !.tracked = storedClient]
<1>t. /\ tab[t] \in Tab
      /\ TabInv(tab[t], stored, storedClient)
      /\ Token(t) = tab[t].mem
  BY TokenIsMem DEF SessionInv, TypeOK
<1>1. CASE /\ Token(t) = None \/ (tab[t].me = None /\ tab[t].meFailed)
           /\ tab'[t] = r
  <2>1. /\ r.mem = tab[t].mem /\ r.me = tab[t].me /\ r.calls = tab[t].calls
        /\ r.at = "login" /\ r.data = tab[t].data /\ r.tracked = tab[t].tracked
    BY <1>t DEF Tab
  <2> HIDE DEF r
  <2> QED
    BY <1>1, <1>t, <2>1 DEF Redirect, TabInv, MineOf, CacheOf, MountedOf
<1>2. CASE tab'[t] = s
  <2>1. /\ s.mem = tab[t].mem /\ s.me = tab[t].me /\ s.calls = tab[t].calls
        /\ s.meFailed = tab[t].meFailed
        /\ s.at = "shell" /\ s.data = tab[t].data /\ s.tracked = storedClient
    BY <1>t DEF Tab
  <2> HIDE DEF s
  <2> QED
    BY <1>2, <1>t, <2>1 DEF Redirect, TabInv, MineOf, CacheOf, MountedOf
<1> QED
  BY <1>1, <1>2, PutIs DEF Redirect, SessionInv, TypeOK

LEMMA SelectClientInv ==
  ASSUME SessionInv, NEW t \in Tabs, NEW c \in MaybeClient, SelectClient(t, c)
  PROVE  TabInv(tab'[t], stored', storedClient')
<1> DEFINE d == Dropping(tab[t], OfKind(t, {"query"}))
           r == [d EXCEPT !.sel = c, !.tracked = c, !.data = Empty]
<1>t. /\ tab[t] \in Tab
      /\ TabInv(tab[t], stored, storedClient)
  BY DEF SessionInv, TypeOK
<1>1. tab'[t] = r
  BY PutIs DEF SelectClient, SessionInv, TypeOK
<1>2. d \in Tab
  BY <1>t, OfKindType, DroppingType DEF SessionInv
<1>3. /\ d.calls = {b \in tab[t].calls : b.kind # "query"}
      /\ d.mem = tab[t].mem /\ d.me = tab[t].me /\ d.meFailed = tab[t].meFailed
  BY <1>t, DroppingIs DEF OfKind
<1> HIDE DEF d
<1>4. /\ r.mem = d.mem /\ r.me = d.me /\ r.meFailed = d.meFailed /\ r.calls = d.calls
      /\ r.data = Empty /\ r.tracked = c
  BY <1>2 DEF Tab
<1> HIDE DEF r
<1>5. MineOf(r)
  BY <1>t, <1>3, <1>4 DEF TabInv, MineOf
<1>6. CacheOf(r, c)
  BY <1>3, <1>4 DEF CacheOf
<1> QED
  BY <1>t, <1>1, <1>3, <1>4, <1>5, <1>6 DEF SelectClient, TabInv

LEMMA SessionStep ==
  ASSUME OneTab, SessionInv, [Next]_vars PROVE SessionInv'
<1>t. TypeOK'
  BY TypingStep DEF SessionInv
<1>1. CASE UNCHANGED vars
  BY <1>1, <1>t DEF vars, SessionInv
<1>2. ASSUME NEW c \in Clients, DeleteClient(c) PROVE SessionInv'
  BY <1>2, <1>t DEF DeleteClient, SessionInv
<1>3. ASSUME NEW t \in Tabs, TabStep(t) PROVE TabInv(tab'[t], stored', storedClient')
  <2>1. ASSUME FetchMe(t) \/ FetchQuery(t) \/ SubmitPassword(t)
        PROVE  TabInv(tab'[t], stored', storedClient')
    <3>1. Token(t) # None
      BY <2>1 DEF FetchMe, FetchQuery, SubmitPassword, Mounted, Authenticated
    <3> QED
      BY <2>1, <3>1, SendInv DEF FetchMe, FetchQuery, SubmitPassword
  <2>2. ASSUME Load(t) PROVE TabInv(tab'[t], stored', storedClient')
    BY <2>2, PutIs, FreshInv DEF Load, SessionInv, TypeOK
  <2>3. CASE \/ AnswerMe(t) \/ FailMe(t, TRUE) \/ FailMe(t, FALSE)
             \/ AnswerQuery(t) \/ AnswerOther(t) \/ AnswerUnauthorized(t)
    BY <2>3, AnswersInv
  <2>4. CASE \/ \E u \in Users : SubmitLogin(t, u)
             \/ LoginAccepted(t) \/ LoginRefused(t) \/ LoginFailed(t)
    BY <2>4, LoginInv
  <2> QED
    BY <1>3, <2>1, <2>2, <2>3, <2>4, LogoutInv, RedirectInv, SelectClientInv
    DEF TabStep
<1> QED
  BY <1>1, <1>2, <1>3, <1>t, OneTabStep DEF Next

LEMMA SessionAlways ==
  ASSUME OneTab PROVE Spec => []SessionInv
<1>1. Init => SessionInv
  <2> SUFFICES ASSUME Init PROVE SessionInv
    OBVIOUS
  <2>1. FreshTab("shell", None) \in Tab
    BY FreshType DEF MaybeUser
  <2>2. TabInv(FreshTab("shell", None), None, None)
    BY FreshInv
  <2> QED
    BY <2>1, <2>2 DEF Init, SessionInv, TypeOK, MaybeUser, MaybeClient
<1>2. SessionInv /\ [Next]_vars => SessionInv'
  BY SessionStep
<1> QED
  BY <1>1, <1>2, PTL DEF Spec

\* In the only tab of a browser nobody sees a menu or a page by the roles of
\* another account than the one whose token its calls carry (useAuth, api.ts).
THEOREM OneTabRoles ==
  ASSUME OneTab PROVE Spec => []RolesAreOfTheToken
<1>1. SessionInv => RolesAreOfTheToken
  BY DEF SessionInv, TabInv, MineOf, RolesAreOfTheToken, OfKind
<1> QED
  BY <1>1, SessionAlways, PTL

\* In the only tab of a browser the cache never holds the data of a client other
\* than the one ClientContext takes it to hold, whatever answers arrive late.
THEOREM OneTabCache ==
  ASSUME OneTab PROVE Spec => []CacheHoldsTrackedClient
<1>1. SessionInv => CacheHoldsTrackedClient
  BY DEF SessionInv, TabInv, CacheOf, CacheHoldsTrackedClient
<1> QED
  BY <1>1, SessionAlways, PTL

=============================================================================
