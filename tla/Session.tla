------------------------------ MODULE Session ------------------------------
(***************************************************************************)
(* How a user of the explorer gets in: the login page of packages/app      *)
(* (useWallet, useLogin, useRpcToken, LoginView), the session of           *)
(* packages/proxy and the tokens of packages/private-rpc.                  *)
(*                                                                         *)
(* The page leads through three steps: connect the wallet, sign in with    *)
(* the connected address, get a token for the private network.  The proxy  *)
(* keeps nothing: its session is a cookie, which every request carries as  *)
(* it was when the request was sent and an answer may replace.  The token  *)
(* is kept in local storage and outlives the page; the session outlives    *)
(* the page too, and ends after a day.  Requests may fail, the user may    *)
(* refuse to sign, switch the account of the wallet and reload the page.   *)
(***************************************************************************)
EXTENDS Integers, Sequences

CONSTANTS
    Accounts,  \* the accounts of the wallet
    None,      \* no account, no token, no request
    MaxNonce,  \* bound on the nonces the proxy gives
    MaxTokens, \* bound on the tokens private-rpc creates
    Patient,   \* the user signs in only once initializeLogin is answered
    Lossy      \* requests and answers may be lost

VARIABLES
    wallet,    \* the account selected in the wallet
    jar,       \* the session in the cookie of the browser
    rpcToken,  \* local storage: the token, or None
    address,   \* useWallet state.address
    user,      \* context.user: the account logged in, or None
    isLoginPending,
    signing,   \* the message the wallet shows, or None
    request,   \* kind of request -> the one under way, or None
    nonces,    \* how many nonces the proxy gave
    users      \* table users of private-rpc: token -> address

pageVars  == <<address, user, isLoginPending, signing>>
proxyVars == <<nonces, users>>
vars == <<wallet, jar, rpcToken, pageVars, request, proxyVars>>

Kinds == {"user", "nonce", "verify", "token", "logout"}

\* No cookie, or one that has expired, is a session without anything in it.
Empty == [nonce |-> 0, siwe |-> None]

Message == [address : Accounts, nonce : 1 .. MaxNonce]

\* fetch with credentials: the request carries the cookie of now.
Sent(body) == [phase |-> "sent", session |-> jar, body |-> body]

Send(kind, body) == request' = [request EXCEPT ![kind] = Sent(body)]

Idle == [k \in Kinds |-> None]

IsSent(kind) == request[kind] # None /\ request[kind].phase = "sent"
IsAnswered(kind) == request[kind] # None /\ request[kind].phase = "answered"

\* The page loads: nothing but local storage, the cookie and the wallet's
\* permission are left, and initializeLogin asks who is logged in.
Init ==
    /\ wallet \in Accounts
    /\ jar = Empty
    /\ rpcToken = None
    /\ address = None
    /\ user = None
    /\ isLoginPending = FALSE
    /\ signing = None
    /\ request = [Idle EXCEPT !["user"] = Sent(None)]
    /\ nonces = 0
    /\ users = << >>

-----------------------------------------------------------------------------
(***************************************************************************)
(* The page.                                                               *)
(***************************************************************************)
\* isAuthenticated of useWallet keeps the wallet connected over a reload.
Reload ==
    /\ user' = None
    /\ isLoginPending' = FALSE
    /\ signing' = None
    /\ address' = IF address = None THEN None ELSE wallet
    /\ request' = [Idle EXCEPT !["user"] = Sent(None)]
    /\ UNCHANGED <<wallet, jar, rpcToken, proxyVars>>

\* useWallet.connect: the first step.
Connect ==
    /\ address = None
    /\ address' = wallet
    /\ UNCHANGED <<wallet, jar, rpcToken, user, isLoginPending, signing, request, proxyVars>>

\* useWallet.handleAccountsChanged.  The wallet tells the page only if it was
\* ever connected: then the page is connected again, also after a logout.
SwitchAccount(a) ==
    /\ a # wallet
    /\ wallet' = a
    /\ address' \in {a} \cup ({address} \cap {None})
    /\ UNCHANGED <<jar, rpcToken, user, isLoginPending, signing, request, proxyVars>>

\* useLogin.login: the second step, offered while it is the first that is not
\* completed, and disabled while isLoginPending.
Login ==
    /\ address # None
    /\ user = None
    /\ ~isLoginPending
    /\ Patient => request["user"] = None
    /\ isLoginPending' = TRUE
    /\ Send("nonce", wallet)
    /\ UNCHANGED <<wallet, jar, rpcToken, address, user, signing, proxyVars>>

\* The user signs, or refuses: login throws and isLoginPending stays.
Sign ==
    /\ signing # None
    /\ signing' = None
    /\ Send("verify", signing)
    /\ UNCHANGED <<wallet, jar, rpcToken, address, user, isLoginPending, proxyVars>>

Refuse ==
    /\ signing # None
    /\ signing' = None
    /\ UNCHANGED <<wallet, jar, rpcToken, address, user, isLoginPending, request, proxyVars>>

\* useRpcToken.updateRpcToken: the third step, completed when there is a token.
UpdateRpcToken ==
    /\ address # None
    /\ user # None
    /\ rpcToken = None
    /\ request["token"] = None
    /\ Send("token", None)
    /\ UNCHANGED <<wallet, jar, rpcToken, pageVars, proxyVars>>

\* LoginView.logout, offered when all steps are completed.
Logout ==
    /\ address # None
    /\ user # None
    /\ rpcToken # None
    /\ address' = None
    /\ rpcToken' = None
    /\ Send("logout", None)
    /\ UNCHANGED <<wallet, jar, user, isLoginPending, signing, proxyVars>>

-----------------------------------------------------------------------------
(***************************************************************************)
(* The proxy answers a request from the session it carries.  The hook that *)
(* prolongs a session makes the answer set the cookie again, unchanged,    *)
(* when half of its time is over.                                          *)
(***************************************************************************)
Answer(kind, ok, value, cookies) ==
    \E cookie \in cookies :
        request' = [request EXCEPT ![kind] =
            [phase |-> "answered", ok |-> ok, value |-> value, cookie |-> cookie,
             body |-> request[kind].body]]

Prolonged(kind) == {None, request[kind].session}

\* GET /user: 401 without a user.
ServeUser ==
    /\ IsSent("user")
    /\ LET siwe == request["user"].session.siwe
       IN  Answer("user", siwe # None, siwe, Prolonged("user"))
    /\ UNCHANGED proxyVars

ServeNonce ==
    /\ IsSent("nonce")
    /\ nonces < MaxNonce
    /\ nonces' = nonces + 1
    /\ Answer("nonce", TRUE, nonces + 1,
              {[request["nonce"].session EXCEPT !.nonce = nonces + 1]})
    /\ UNCHANGED users

\* POST /verify: 422 unless the message has the nonce of the session.
ServeVerify ==
    LET message == request["verify"].body
        session == request["verify"].session
        valid == message.nonce = session.nonce
    IN  /\ IsSent("verify")
        /\ Answer("verify", valid, None,
                  IF valid THEN {[session EXCEPT !.siwe = message.address]}
                  ELSE Prolonged("verify"))
        /\ UNCHANGED proxyVars

\* GET /token: private-rpc adds a row; those the address has stay.
ServeToken ==
    LET siwe == request["token"].session.siwe
    IN  /\ IsSent("token")
        /\ Len(users) < MaxTokens
        /\ Answer("token", siwe # None, Len(users) + 1, Prolonged("token"))
        /\ users' = IF siwe = None THEN users ELSE Append(users, siwe)
        /\ UNCHANGED nonces

ServeLogout ==
    /\ IsSent("logout")
    /\ Answer("logout", TRUE, None, {Empty})
    /\ UNCHANGED proxyVars

Serve == /\ ServeUser \/ ServeNonce \/ ServeVerify \/ ServeToken \/ ServeLogout
         /\ UNCHANGED <<wallet, jar, rpcToken, pageVars>>

-----------------------------------------------------------------------------
(***************************************************************************)
(* An answer arrives: the browser takes its cookie and the page goes on.   *)
(***************************************************************************)
Arrives(kind) ==
    /\ IsAnswered(kind)
    /\ request' = [request EXCEPT ![kind] = None]
    /\ jar' = IF request[kind].cookie = None THEN jar ELSE request[kind].cookie

UserArrives ==
    /\ Arrives("user")
    /\ user' = IF request["user"].ok THEN request["user"].value ELSE None
    /\ UNCHANGED <<wallet, rpcToken, address, isLoginPending, signing, proxyVars>>

\* The signer was taken from the wallet before the nonce was asked for.
NonceArrives ==
    /\ Arrives("nonce")
    /\ signing' = [address |-> request["nonce"].body, nonce |-> request["nonce"].value]
    /\ UNCHANGED <<wallet, rpcToken, address, user, isLoginPending, proxyVars>>

VerifyArrives ==
    /\ Arrives("verify")
    /\ isLoginPending' = ~request["verify"].ok
    /\ user' = IF request["verify"].ok THEN request["verify"].body.address ELSE user
    /\ UNCHANGED <<wallet, rpcToken, address, signing, proxyVars>>

TokenArrives ==
    /\ Arrives("token")
    /\ rpcToken' = IF request["token"].ok THEN request["token"].value ELSE rpcToken
    /\ UNCHANGED <<wallet, pageVars, proxyVars>>

LogoutArrives ==
    /\ Arrives("logout")
    /\ user' = None
    /\ UNCHANGED <<wallet, rpcToken, address, isLoginPending, signing, proxyVars>>

\* A request is lost, or its answer is; only initializeLogin catches the error.
Lose(kind) ==
    /\ Lossy
    /\ request[kind] # None
    /\ request' = [request EXCEPT ![kind] = None]
    /\ user' = IF kind = "user" THEN None ELSE user
    /\ UNCHANGED <<wallet, jar, rpcToken, address, isLoginPending, signing, proxyVars>>

\* A day has passed since the session was started or prolonged.
Expire ==
    /\ jar # Empty
    /\ \A k \in Kinds : request[k] = None
    /\ jar' = Empty
    /\ UNCHANGED <<wallet, rpcToken, pageVars, request, proxyVars>>

-----------------------------------------------------------------------------
Next ==
    \/ Reload \/ Connect \/ Login \/ Sign \/ Refuse \/ UpdateRpcToken \/ Logout
    \/ \E a \in Accounts : SwitchAccount(a)
    \/ Serve
    \/ UserArrives \/ NonceArrives \/ VerifyArrives \/ TokenArrives \/ LogoutArrives
    \/ \E k \in Kinds : Lose(k)
    \/ Expire

Spec == Init /\ [][Next]_vars

(***************************************************************************)
(* The token the page shows, and the network it adds to the wallet, are    *)
(* those of the user who has gone through the login process: "To see the   *)
(* balance of another address, you must go through the login process again *)
(* with that address."  It does not hold: updateRpcToken keeps a token     *)
(* that is left from before the session ended.                             *)
(***************************************************************************)
TokenOfUser == user # None /\ rpcToken # None => users[rpcToken] = user
============================================================================
