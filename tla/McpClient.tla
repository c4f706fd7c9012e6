----------------------------- MODULE McpClient -----------------------------
(* A session's MCP servers: the connections its manager makes and shares, the *)
(* tools registered from them as the session opens, the calls that go over    *)
(* them, and the sign-ins of HTTP servers (services/McpManager.ts,            *)
(* core/mcp/connect.ts, core/mcp/oauth.ts, the parts of core/runtime that     *)
(* register the tools, and the sign-ins of cli/mcp.ts).                       *)
(*                                                                            *)
(* All who wait for one connection hear of it in the same turn of the event   *)
(* loop, so that is one step.  What a tool answers is left out.               *)
EXTENDS Naturals, Sequences, FiniteSets

CONSTANTS
  Servers,  \* configured and enabled servers
  Remote,   \* those over HTTP, which ask for a sign-in
  Calls,    \* calls of their tools, each made once
  MaxMade,  \* a bound on the connections made
  MaxLogins \* a bound on the sign-ins

VARIABLES
  made,        \* every connection attempted: its server, state, tokens and list
  connections, \* McpManager.connections: an index into made, or 0
  connecting,  \* McpManager.connecting, likewise
  task,        \* the first listing of each server, and each call
  offers,      \* whether a server's tools were registered
  closed,      \* McpManager.close was called
  tokens,      \* the stored tokens: the sign-in they came of, or 0
  login        \* the sign-ins, one after another

mcVars == <<made, connections, connecting, task, offers, closed, tokens, login>>
manager == <<made, connections, connecting, task, offers, closed>>

Tasks == Servers \cup Calls
Idle == [at |-> "idle", id |-> 0]
Ids == DOMAIN made

Init ==
  /\ made = <<>>
  /\ connections = [s \in Servers |-> 0] /\ connecting = [s \in Servers |-> 0]
  /\ task = [t \in Tasks |-> Idle]
  /\ offers = [s \in Servers |-> "none"]
  /\ closed = FALSE
  /\ tokens = [s \in Servers |-> 0] /\ login = <<>>

(*************************** the manager ************************************)

(* getConnection: the one there is, the one being made, or a new one, with    *)
(* the tokens that are stored as it is made.                                  *)
Goes(t, to, id) ==
  /\ task' = [task EXCEPT ![t] = [at |-> to, id |-> id]]
  /\ UNCHANGED <<made, connecting>>
MakesOne(t, s) ==
  LET id == Len(made) + 1 IN
  /\ made' = Append(made, [server |-> s, state |-> "making", with |-> tokens[s], listed |-> FALSE])
  /\ connecting' = [connecting EXCEPT ![s] = id]
  /\ task' = [task EXCEPT ![t] = [at |-> "awaits", id |-> id]]
GetConnectionAlone(t, s) ==
  IF connections[s] # 0 THEN Goes(t, "asks", connections[s]) ELSE MakesOne(t, s)
GetConnection(t, s) ==
  CASE connections[s] # 0 -> Goes(t, "asks", connections[s])
    [] connections[s] = 0 /\ connecting[s] # 0 -> Goes(t, "awaits", connecting[s])
    [] OTHER -> MakesOne(t, s)

(* registerMcpTools: each server's tools are listed as the session opens.     *)
Registers(s) ==
  /\ task[s] = Idle /\ ~ closed /\ Len(made) < MaxMade
  /\ GetConnection(s, s)
  /\ offers' = [offers EXCEPT ![s] = "waited for"]
  /\ UNCHANGED <<connections, closed, tokens, login>>

(* callServerTool, of a tool its server listed in time; a search for tools,   *)
(* and a server's prompts and resources, ask in the same way.                 *)
CallsTool(c, s) ==
  /\ task[c] = Idle /\ ~ closed /\ Len(made) < MaxMade
  /\ offers[s] = "offered"
  /\ GetConnection(c, s)
  /\ UNCHANGED <<connections, offers, closed, tokens, login>>

(* A prompt or a resource is asked for by name, whether or not its server     *)
(* was heard from in time.                                                    *)
Reads(c, s) ==
  /\ task[c] = Idle /\ ~ closed /\ Len(made) < MaxMade
  /\ offers[s] = "unavailable"
  /\ GetConnection(c, s)
  /\ UNCHANGED <<connections, offers, closed, tokens, login>>

Waiting(id) == {t \in Tasks : task[t] = [at |-> "awaits", id |-> id]}

(* connectMcp: a server over HTTP needs a token; its refreshed tokens are     *)
(* stored, whatever is stored by then.                                        *)
Connected(id) ==
  LET c == made[id] IN
  /\ c.state = "making" /\ (c.server \in Remote => c.with # 0)
  /\ made' = [made EXCEPT ![id].state = "open"]
  /\ connections' = [connections EXCEPT ![c.server] = id]
  /\ connecting' = [connecting EXCEPT ![c.server] = 0]
  /\ task' = [t \in Tasks |-> IF t \in Waiting(id) THEN [at |-> "asks", id |-> id] ELSE task[t]]
  /\ \/ UNCHANGED tokens
     \/ c.server \in Remote /\ tokens' = [tokens EXCEPT ![c.server] = c.with]
  /\ UNCHANGED <<offers, closed, login>>

(* It fails, as one that lacks a token does; tokens refused are forgotten.    *)
NotConnected(id) ==
  LET c == made[id] IN
  /\ c.state = "making"
  /\ made' = [made EXCEPT ![id].state = "failed"]
  /\ connecting' = [connecting EXCEPT ![c.server] = 0]
  /\ task' = [t \in Tasks |-> IF t \in Waiting(id) THEN [at |-> "failed", id |-> id] ELSE task[t]]
  /\ offers' = [s \in Servers |-> IF s \in Waiting(id) /\ offers[s] = "waited for" THEN "unavailable" ELSE offers[s]]
  /\ \/ UNCHANGED tokens
     \/ c.with # 0 /\ tokens' = [tokens EXCEPT ![c.server] = 0]
  /\ UNCHANGED <<connections, closed, login>>

(* withTimeout: a server silent for ten seconds is reported, though the       *)
(* connection to it goes on being made.                                       *)
TimedOut(s) ==
  /\ offers[s] = "waited for" /\ task[s].at \in {"awaits", "asks"}
  /\ offers' = [offers EXCEPT ![s] = "unavailable"]
  /\ UNCHANGED <<made, connections, connecting, task, closed, tokens, login>>

(* listServerTools asks once of each connection; a server whose list comes    *)
(* late is not offered.                                                       *)
Answered(t) ==
  /\ task[t].at = "asks" /\ (made[task[t].id].state = "open" \/ (made[task[t].id].listed /\ t \in Servers))
  /\ task' = [task EXCEPT ![t].at = "done"]
  /\ IF t \in Servers
       THEN /\ made' = [made EXCEPT ![task[t].id].listed = TRUE]
            /\ offers' = [offers EXCEPT ![t] = IF @ = "waited for" THEN "offered" ELSE @]
       ELSE UNCHANGED <<made, offers>>
  /\ UNCHANGED <<connections, connecting, closed, tokens, login>>

(* An error of the server's, or a connection that is gone: it stays the       *)
(* server's connection, and is never made again.                              *)
Refused(t) ==
  /\ task[t].at = "asks"
  /\ task' = [task EXCEPT ![t].at = "failed"]
  /\ offers' = [s \in Servers |-> IF s = t /\ offers[s] = "waited for" THEN "unavailable" ELSE offers[s]]
  /\ UNCHANGED <<made, connections, connecting, closed, tokens, login>>

ServerDies(id) ==
  /\ made[id].state = "open"
  /\ made' = [made EXCEPT ![id].state = "dead"]
  /\ UNCHANGED <<connections, connecting, task, offers, closed, tokens, login>>

(* close: what is connected is closed; what is being made is not waited for.  *)
Held == {connections[s] : s \in Servers} \ {0}
Close ==
  /\ ~ closed
  /\ closed' = TRUE
  /\ made' = [i \in Ids |-> IF i \in Held THEN [made[i] EXCEPT !.state = "closed"] ELSE made[i]]
  /\ connections' = [s \in Servers |-> 0]
  /\ UNCHANGED <<connecting, task, offers, tokens, login>>

(*************************** signing in *************************************)

(* mcpLogin: a listener for the browser's return and a state of its own, then *)
(* a connection, which does if the tokens are good.                           *)
LoginStarts(s) ==
  /\ s \in Remote /\ Len(login) < MaxLogins
  /\ login' = Append(login, [server |-> s, at |-> "connects", page |-> FALSE, came |-> <<>>])
  /\ UNCHANGED <<manager, tokens>>
LoginConnects(n) ==
  /\ login[n].at = "connects"
  /\ \/ tokens[login[n].server] # 0 /\ login' = [login EXCEPT ![n].at = "ended"] /\ UNCHANGED tokens
     \/ login' = [login EXCEPT ![n].at = "ended"] /\ UNCHANGED tokens
     \/ /\ login' = [login EXCEPT ![n].at = "sent", ![n].page = TRUE]
        /\ tokens' = [tokens EXCEPT ![login[n].server] = 0]
  /\ UNCHANGED manager

(* loopbackCallback: the first return counts, whichever login's page it comes *)
(* from: a page left open may come back to a port that is used again.         *)
BrowserReturns(n, m, refused) ==
  /\ login[n].at \in {"connects", "sent"} /\ login[m].page
  /\ login[n].came = <<>>
  /\ login' = [login EXCEPT ![n].came = <<m, refused>>]
  /\ UNCHANGED <<manager, tokens>>

(* The state it carries must be the one this login sent, and the refusal is   *)
(* looked at before it.                                                       *)
OwnState(n) == login[n].came[1] = n
LoginResumes(n) ==
  /\ login[n].at = "sent" /\ login[n].came # <<>>
  /\ login' = [login EXCEPT ![n].at = IF ~ login[n].came[2] /\ OwnState(n) THEN "redeems" ELSE "ended"]
  /\ UNCHANGED <<manager, tokens>>
LoginTimesOut(n) ==
  /\ login[n].at = "sent" /\ login[n].came = <<>>
  /\ login' = [login EXCEPT ![n].at = "ended"]
  /\ UNCHANGED <<manager, tokens>>

(* finishAuth: the code becomes tokens, or is refused; either way the login   *)
(* is over and its listener closed.                                           *)
Redeems(n) ==
  /\ login[n].at = "redeems"
  /\ login' = [login EXCEPT ![n].at = "ended"]
  /\ tokens' \in {tokens, [tokens EXCEPT ![login[n].server] = login[n].came[1]]}
  /\ UNCHANGED manager

(* mcpLogout forgets a server's tokens and registration.                      *)
Logout(s) ==
  /\ s \in Remote /\ tokens[s] # 0
  /\ tokens' = [tokens EXCEPT ![s] = 0]
  /\ UNCHANGED <<manager, login>>

Next ==
  \/ \E s \in Servers : Registers(s) \/ TimedOut(s) \/ LoginStarts(s) \/ Logout(s)
  \/ \E c \in Calls, s \in Servers : CallsTool(c, s) \/ Reads(c, s)
  \/ \E id \in Ids : Connected(id) \/ NotConnected(id) \/ ServerDies(id)
  \/ \E t \in Tasks : Answered(t) \/ Refused(t)
  \/ Close
  \/ \E n \in DOMAIN login : LoginConnects(n) \/ LoginResumes(n) \/ LoginTimesOut(n) \/ Redeems(n)
  \/ \E n, m \in DOMAIN login, refused \in BOOLEAN : BrowserReturns(n, m, refused)

Spec == Init /\ [][Next]_mcVars

Live(s) == {id \in Ids : made[id].server = s /\ made[id].state \in {"making", "open"}}

(* However many ask for a server at once, and whatever fails, times out or is *)
(* closed meanwhile, it is connected to once at a time, and a connection that *)
(* is open is one the manager can close (McpManager.ts getConnection).  The   *)
(* tokens that are kept for a server came of a sign-in to that server, by the *)
(* page it opened itself (oauth.ts mcpLogin).                                 *)
ConnectedOnce ==
  \A s \in Servers :
    /\ Cardinality(Live(s)) <= 1
    /\ \A id \in Live(s) : made[id].state = "open" => connections[s] = id
    /\ tokens[s] # 0 => login[tokens[s]].server = s
=============================================================================
