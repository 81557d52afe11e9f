----------------------------- MODULE OAuthLogin -----------------------------
(***************************************************************************)
(* The OAuth tokens of one MCP server (internal/oauth, cmd/mcp_auth.go,    *)
(* internal/mcpclient/pool.go): the login commands ask for a token in the  *)
(* browser or by a device code and put it into the keyring of the system;  *)
(* logout removes it, export reads it, and the gateway reads and refreshes *)
(* it.  The keyring fails and answers late, the user answers late, twice   *)
(* or in the tab of an earlier login, and commands overlap.                *)
(***************************************************************************)
EXTENDS Naturals, Sequences, FiniteSets

CONSTANTS
    Command,             \* commands, numbers
    Settings,            \* configurations of the server, see IsSetting
    MaxCallback,         \* bound: requests to the callback server
    MaxKeyringFault,     \* bound: failed and late calls of the keyring
    MaxRefresh           \* bound: refreshes of the gateway

\* client and file: client_id or client_registration_file is configured;
\* large: tokens exceed what the keyring takes; seeded: access_token or
\* token_file is configured; grant is the grant type of the gateway.
IsSetting(c) ==
    /\ {c.client, c.file, c.pkce, c.large, c.seeded} \subseteq BOOLEAN
    /\ c.s256 \in {"yes", "no", "silent"} /\ c.grant \in {"code", "client_credentials"}
ASSUME OAuthAssumption ==
    /\ Command \subseteq Nat \ {0} /\ \A c \in Settings : IsSetting(c)
    /\ {MaxCallback, MaxKeyringFault, MaxRefresh} \subseteq Nat

VARIABLES
    setting,
    keyring,      \* the token and the registration of the server
    overdue,         \* calls of the keyring given up by their callers
    command,          \* the commands
    port,         \* the login that listens on the redirect address, or 0
    tabs,         \* pages the browser opened and device codes the user was told
    spent,         \* authorization codes that were exchanged
    gw,           \* the gateway: its identity, the token in its hands
    counts,       \* callbacks, keyring faults, refreshes
    disturbed     \* a keyring call failed, or commands overlapped
oauthVars == <<setting, keyring, overdue, command, port, tabs, spent, gw, counts, disturbed>>

\* An identity is configured, read from a file or registered by a login; a
\* token is known by the login the user granted it to and its identity.
NoClient == <<>>
FromConfig == <<"config">>
FromFile == <<"file">>
Registered(c) == <<"login", c>>
NoToken == <<>>
Granted(c, client) == <<c, client>>

NoRun == [at |-> "idle", kind |-> "none", client |-> NoClient,
              answers |-> <<>>, answer |-> <<>>, token |-> NoToken]

OAuthInit ==
    /\ setting \in Settings /\ keyring = [token |-> NoToken, client |-> NoClient] /\ overdue = {}
    /\ command = [c \in Command |-> NoRun] /\ port = 0 /\ tabs = {} /\ spent = {}
    /\ gw = [at |-> "off", client |-> NoClient, token |-> NoToken]
    /\ counts = [callback |-> 0, keyring |-> 0, refresh |-> 0] /\ disturbed = FALSE

Places == {"idle", "identify", "lookup", "register", "save client", "check", "wait", "shut", "exchange",
           "discover", "request", "poll", "save token", "delete token", "delete client", "read token", "read client", "ok", "error"}
OAuthTypeOK ==
    /\ setting \in Settings /\ port \in Command \cup {0} /\ spent \subseteq Command
    /\ \A c \in Command : command[c].at \in Places /\ Len(command[c].answers) <= MaxCallback
    /\ keyring.client \in {NoClient} \cup {Registered(c) : c \in Command}

Over(c) == command[c].at \in {"idle", "ok", "error"}
IsAt(c, place) == command[c].at = place
Moves(c, place) == command' = [command EXCEPT ![c].at = place]
KeepGw == UNCHANGED <<setting, gw>>
KeepCmd == UNCHANGED <<command, port, tabs, spent>>
Counted(k, max) == counts[k] < max /\ counts' = [counts EXCEPT ![k] = @ + 1]

(***************************************************************************)
(* The keyring behind its timeouts: a call succeeds, fails, or is given up *)
(* and may still be carried out.                                           *)
(***************************************************************************)

KeyringCall(field, value, ok, failed) ==
    \/ keyring' = [keyring EXCEPT ![field] = value] /\ ok /\ UNCHANGED <<overdue, counts, disturbed>>
    \/ /\ Counted("keyring", MaxKeyringFault) /\ disturbed' = TRUE /\ UNCHANGED keyring
       /\ overdue' \in {overdue, overdue \cup {<<field, value>>}} /\ failed

KeyringReadFails(failed) ==
    Counted("keyring", MaxKeyringFault) /\ disturbed' = TRUE /\ failed /\ UNCHANGED <<keyring, overdue>>

KeyringLate(op) ==
    /\ op \in overdue /\ overdue' = overdue \ {op} /\ keyring' = [keyring EXCEPT ![op[1]] = op[2]]
    /\ KeepCmd /\ KeepGw /\ UNCHANGED <<counts, disturbed>>

SaveToken(token, ok, failed) ==
    IF setting.large THEN failed /\ UNCHANGED <<keyring, overdue, counts, disturbed>>
    ELSE KeyringCall("token", token, ok, failed)

KeepKeyring == UNCHANGED <<keyring, overdue, counts, disturbed>>

(***************************************************************************)
(* The commands.                                                           *)
(***************************************************************************)

\* Login binds the redirect address first: a second login fails at once.
Begin(c, kind) ==
    /\ IsAt(c, "idle") /\ \A d \in Command : d < c => command[d].at # "idle"
    /\ command' = [command EXCEPT ![c].kind = kind, ![c].at =
                 CASE kind = "login" -> IF port = 0 THEN "identify" ELSE "error"
                   [] kind = "device" -> IF setting.client THEN "discover" ELSE "error"
                   [] kind = "logout" -> "delete token"
                   [] kind = "export" -> "read token"]
    /\ port' = IF kind = "login" /\ port = 0 THEN c ELSE port
    /\ disturbed' = (disturbed \/ gw.token # NoToken \/ \E d \in Command : ~Over(d))
    /\ KeepGw /\ UNCHANGED <<keyring, overdue, tabs, spent, counts>>

\* The process of a failed login ends, and with it its listener.
Quit(c, place) == Moves(c, place) /\ port' = IF port = c THEN 0 ELSE port

Identify(c) ==
    /\ IsAt(c, "identify")
    /\ command' = [command EXCEPT ![c].client = IF setting.client THEN FromConfig ELSE IF setting.file THEN FromFile ELSE NoClient,
                          ![c].at = IF setting.client \/ setting.file THEN "check" ELSE "lookup"]
    /\ KeepKeyring /\ KeepGw /\ UNCHANGED <<port, tabs, spent>>

\* GetClientRegistration: not found and failed are the same.
Lookup(c) ==
    /\ IsAt(c, "lookup") /\ KeepGw /\ UNCHANGED <<port, tabs, spent>>
    /\ \/ /\ command' = [command EXCEPT ![c].client = keyring.client,
                                ![c].at = IF keyring.client = NoClient THEN "register" ELSE "check"]
          /\ KeepKeyring
       \/ KeyringReadFails(Moves(c, "register"))

\* Dynamic registration with the authorization server.
RegisterClient(c) ==
    /\ IsAt(c, "register") /\ KeepKeyring /\ KeepGw /\ UNCHANGED <<tabs, spent>>
    /\ \/ command' = [command EXCEPT ![c].client = Registered(c), ![c].at = "save client"] /\ UNCHANGED port
       \/ Quit(c, "error")

PersistClientNever(c) ==
    /\ IsAt(c, "save client") /\ Moves(c, "check") /\ KeepKeyring /\ KeepGw /\ UNCHANGED <<port, tabs, spent>>

\* The new registration is kept for the next login; a failure is ignored.
PersistClient(c) ==
    /\ IsAt(c, "save client") /\ KeyringCall("client", command[c].client, Moves(c, "check"), Moves(c, "check"))
    /\ KeepGw /\ UNCHANGED <<port, tabs, spent>>

\* The metadata, the check for S256 and the browser.
OpenBrowser(c) ==
    /\ IsAt(c, "check") /\ KeepKeyring /\ KeepGw /\ UNCHANGED spent
    /\ \/ /\ ~(setting.pkce /\ setting.s256 = "no")
          /\ Moves(c, "wait") /\ tabs' = tabs \cup {c} /\ UNCHANGED port
       \/ Quit(c, "error") /\ UNCHANGED tabs

\* handleCallback of the login that listens: the user's answer to any page
\* that is open.  The channel takes one result; further handlers wait.
UserAnswers(t, granted) ==
    /\ t \in tabs /\ command[t].kind = "login" /\ port # 0 /\ command[port].at = "wait"
    /\ Counted("callback", MaxCallback)
    /\ command' = [command EXCEPT ![port].answers = Append(@, <<t, granted>>)]
    /\ KeepGw /\ UNCHANGED <<port, tabs, spent, keyring, overdue, disturbed>>

\* Wait: the first result, or the end of the time.
Receive(c) ==
    /\ IsAt(c, "wait") /\ command[c].answers # <<>>
    /\ command' = [command EXCEPT ![c].at = "shut", ![c].answer = Head(command[c].answers), ![c].answers = Tail(@)]
    /\ KeepKeyring /\ KeepGw /\ UNCHANGED <<port, tabs, spent>>

WaitTimesOut(c) ==
    /\ IsAt(c, "wait") /\ Len(command[c].answers) <= 1 /\ Quit(c, "error") /\ KeepKeyring /\ KeepGw /\ UNCHANGED <<tabs, spent>>

\* Refused, or an answer to another page: the login fails.
AcceptAny(c) == command[c].answer[2]
Accept(c) == command[c].answer[2] /\ command[c].answer[1] = c

\* Shutdown waits for the handlers: one may still have put its result into
\* the channel, another one never ends.
ShutDown(c) ==
    /\ IsAt(c, "shut") /\ Len(command[c].answers) <= 1
    /\ Quit(c, IF Accept(c) THEN "exchange" ELSE "error") /\ KeepKeyring /\ KeepGw /\ UNCHANGED <<tabs, spent>>

\* The authorization server takes a code once, from the identity it was given
\* to and, with PKCE, from the login that asked for it.
ExchangeCode(c) ==
    LET t == command[c].answer[1] IN
    /\ IsAt(c, "exchange") /\ KeepKeyring /\ KeepGw /\ UNCHANGED <<port, tabs>>
    /\ \/ /\ t \notin spent /\ command[t].client = command[c].client /\ (setting.pkce => t = c)
          /\ spent' = spent \cup {t}
          /\ command' = [command EXCEPT ![c].at = "save token", ![c].token = Granted(t, command[c].client)]
       \/ Moves(c, "error") /\ UNCHANGED spent

DiscoverDeviceEndpoints(c) ==
    /\ IsAt(c, "discover") /\ KeepKeyring /\ KeepGw /\ UNCHANGED <<port, tabs, spent>>
    /\ Moves(c, "request") \/ Moves(c, "error")

RequestDeviceCode(c) ==
    /\ IsAt(c, "request") /\ KeepKeyring /\ KeepGw /\ UNCHANGED <<port, spent>>
    /\ \/ command' = [command EXCEPT ![c].at = "poll", ![c].client = FromConfig] /\ tabs' = tabs \cup {c}
       \/ Moves(c, "error") /\ UNCHANGED tabs

\* PollForToken: pending answers change nothing; any other failure, a lost
\* answer included, ends the login.
PollOnce(c) ==
    /\ IsAt(c, "poll") /\ KeepKeyring /\ KeepGw /\ UNCHANGED <<port, tabs>>
    /\ \/ spent' = spent \cup {c}
          /\ command' = [command EXCEPT ![c].at = "save token", ![c].token = Granted(c, command[c].client)]
       \/ spent' \in {spent, spent \cup {c}} /\ Moves(c, "error")

StoreToken(c) ==
    /\ IsAt(c, "save token") /\ SaveToken(command[c].token, Moves(c, "ok"), Moves(c, "error"))
    /\ KeepGw /\ UNCHANGED <<port, tabs, spent>>

\* Logout ignores the failures of both deletions.
DeleteToken(c) ==
    /\ IsAt(c, "delete token") /\ KeyringCall("token", NoToken, Moves(c, "delete client"), Moves(c, "delete client"))
    /\ KeepGw /\ UNCHANGED <<port, tabs, spent>>

DeleteClient(c) ==
    /\ IsAt(c, "delete client") /\ KeyringCall("client", NoClient, Moves(c, "ok"), Moves(c, "ok"))
    /\ KeepGw /\ UNCHANGED <<port, tabs, spent>>

\* Export reads the token and then, if it can, the registration.
ReadToken(c) ==
    /\ IsAt(c, "read token") /\ KeepGw /\ UNCHANGED <<port, tabs, spent>>
    /\ \/ /\ command' = [command EXCEPT ![c].token = keyring.token,
                                ![c].at = IF keyring.token = NoToken THEN "error" ELSE "read client"]
          /\ KeepKeyring
       \/ KeyringReadFails(Moves(c, "error"))

ReadClient(c) ==
    /\ IsAt(c, "read client") /\ KeepGw /\ UNCHANGED <<port, tabs, spent>>
    /\ \/ command' = [command EXCEPT ![c].client = keyring.client, ![c].at = "ok"] /\ KeepKeyring
       \/ KeyringReadFails(Moves(c, "ok"))

(***************************************************************************)
(* The gateway.                                                            *)
(***************************************************************************)

\* newOAuthTransport; a registration it cannot read is none.
ResolveIdentity(stored) ==
    IF setting.client THEN FromConfig ELSE IF setting.file THEN FromFile ELSE stored

Connect ==
    /\ gw.at # "on" /\ setting.grant = "code" /\ KeepCmd /\ UNCHANGED setting
    /\ \/ gw' = [gw EXCEPT !.at = "on", !.client = ResolveIdentity(keyring.client)] /\ KeepKeyring
       \/ /\ ~setting.client /\ ~setting.file
          /\ KeyringReadFails(gw' = [gw EXCEPT !.at = "on", !.client = NoClient])

\* The token of a client credentials grant is fetched once for the connection
\* and never put into the keyring.
ConnectClientCredentials ==
    /\ gw.at # "on" /\ setting.grant = "client_credentials" /\ KeepCmd /\ KeepKeyring /\ UNCHANGED setting
    /\ gw' \in {[at |-> "on", client |-> ResolveIdentity(NoClient), token |-> NoToken],
                [at |-> "failed", client |-> NoClient, token |-> NoToken]}

\* Tokens that are configured stay in memory; otherwise GetToken of the keyring.
GetToken ==
    /\ gw.at = "on" /\ setting.grant = "code" /\ ~setting.seeded /\ gw.token = NoToken /\ keyring.token # NoToken
    /\ Counted("refresh", MaxRefresh)
    /\ gw' = [gw EXCEPT !.token = keyring.token]
    /\ disturbed' = (disturbed \/ \E d \in Command : ~Over(d))
    /\ KeepCmd /\ UNCHANGED <<setting, keyring, overdue>>

\* An expired token is refreshed for the identity it was granted to and saved.
Refresh ==
    /\ gw.token # NoToken /\ gw.client = gw.token[2]
    /\ LET done == gw' = [gw EXCEPT !.token = NoToken] IN SaveToken(gw.token, done, done)
    /\ KeepCmd /\ UNCHANGED setting

RefreshFails ==
    /\ gw.token # NoToken /\ gw' = [gw EXCEPT !.token = NoToken] /\ KeepKeyring /\ KeepCmd /\ UNCHANGED setting

GatewayEnds ==
    /\ gw.at = "on" /\ gw' = [at |-> "off", client |-> NoClient, token |-> NoToken]
    /\ KeepKeyring /\ KeepCmd /\ UNCHANGED setting

OAuthNext ==
    \/ \E c \in Command :
         \/ \E kind \in {"login", "device", "logout", "export"} : Begin(c, kind)
         \/ Identify(c) \/ Lookup(c) \/ RegisterClient(c) \/ PersistClient(c) \/ OpenBrowser(c)
         \/ Receive(c) \/ WaitTimesOut(c) \/ ShutDown(c) \/ ExchangeCode(c)
         \/ DiscoverDeviceEndpoints(c) \/ RequestDeviceCode(c) \/ PollOnce(c) \/ StoreToken(c)
         \/ DeleteToken(c) \/ DeleteClient(c) \/ ReadToken(c) \/ ReadClient(c)
         \/ \E granted \in BOOLEAN : UserAnswers(c, granted)
    \/ \E op \in overdue : KeyringLate(op)
    \/ Connect \/ ConnectClientCredentials \/ GetToken \/ Refresh \/ RefreshFails \/ GatewayEnds

OAuthSpec == OAuthInit /\ [][OAuthNext]_oauthVars

\* A login takes the token the user granted to it (runMCPLogin, pollOnce): a
\* stray answer to an earlier login's page, on the same address, fails the
\* login and is never exchanged, also without PKCE.  So every token in the
\* keyring was granted to a login that ran here and asked under the identity
\* the token belongs to, whatever came late, failed or overlapped.
OwnToken ==
    /\ \A c \in Command : command[c].kind \in {"login", "device"} /\ command[c].token # NoToken =>
         command[c].token = Granted(c, command[c].client)
    /\ keyring.token # NoToken => \E c \in Command :
         command[c].kind \in {"login", "device"} /\ keyring.token = Granted(c, command[c].client)

\* The gateway resolves the identity on its own (newOAuthTransport) and can
\* refresh a token only for the identity it was granted to.  When the commands
\* of the server ran one after the other and the keyring answered, the token
\* in the keyring belongs to the identity the gateway will resolve, after any
\* sequence of logins that failed, logouts and refreshes.
Refreshable ==
    (~disturbed /\ \A c \in Command : Over(c)) =>
        (keyring.token # NoToken => keyring.token[2] = ResolveIdentity(keyring.client))

\* A token is the user's and can be used (runMCPLogin, newOAuthTransport).
TokensSound == OwnToken /\ Refreshable
=============================================================================
