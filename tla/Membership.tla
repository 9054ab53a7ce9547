------------------------------ MODULE Membership ------------------------------
(***************************************************************************)
(* Who is at which table while connections come and go: the lobby's        *)
(* handlers for connecting, logging in, reviving by a token, entering,     *)
(* leaving and disconnecting (lobby.c), on the clients of Clients.  A      *)
(* disconnected client stays at its tables until the task of its tolerated *)
(* disconnection runs; a new connection that sends its token before that   *)
(* takes its place.                                                        *)
(*                                                                         *)
(* A connection has one lobby client, so both go by the same name; owner   *)
(* is the pointer from the one to the other, which reviving changes.       *)
(***************************************************************************)
EXTENDS Clients, Lists, SequencesExt

CONSTANTS Accounts, Tables,
          MaxTokens    \* bound: tokens created

ASSUME MembershipAssumption == /\ IsFiniteSet(Tables)
                               /\ None \notin Accounts
                               /\ MaxTokens \in Nat

VARIABLES owner,     \* client->owner
          lobby,     \* each connection's lobby client
          entries,   \* the tables in each lobby client's sessions
          members,   \* the lobby clients of each table's session, in order
          holder,    \* authorized_clients: the lobby client of a token
          tokens,    \* the account of each token in Redis, as created
          timers     \* clients whose tolerated disconnection is delayed

lobbyVars == <<owner, lobby, entries, members, holder, tokens, timers>>
vars == <<thread, net, fault, lobbyVars>>

NoToken == 0
NewLobbyClient == [refs |-> 0, client |-> None, account |-> None, token |-> NoToken,
                   tolerant |-> FALSE, disconnected |-> FALSE, connected |-> TRUE,
                   revived |-> FALSE, task |-> None,
                   ghost |-> FALSE] \* Observed only: left at its tables, see Tolerated

Init == /\ ClientsInit
        /\ owner = [c \in Clients |-> None]
        /\ lobby = [c \in Clients |-> NewLobbyClient]
        /\ entries = [c \in Clients |-> {}]
        /\ members = [t \in Tables |-> << >>]
        /\ holder = [k \in 1 .. MaxTokens |-> None]
        /\ tokens = << >>
        /\ timers = {}

-----------------------------------------------------------------------------
\* A lobby client is in use from its connection's task to its last leave.
Known == {c \in Clients : lobby[c].client # None}
FreedLobbyClient(l) == l \in Known /\ lobby[l].refs = 0

\* The event loop takes its first task; the task's client must not be freed.
First == Head(net.queue)
Popped == [net EXCEPT !.queue = Tail(@)]
Handling(op) == Sound /\ net.queue # << >> /\ First.op = op
Client == First.client
Owner == owner[Client]

\* pkrsrv_lobby_session_client_getby_account_id goes member by member to the
\* account of the owner of its client, up to the account it looks for.
Dangling(m) == \/ FreedLobbyClient(m) \/ lobby[m].client \in net.freed
               \/ FreedLobbyClient(owner[lobby[m].client])
AccountAt(m) == lobby[owner[lobby[m].client]].account
Stops(t, a, i) == Dangling(members[t][i]) \/ AccountAt(members[t][i]) = a
PlaceOf(t, a) ==
  LET at == {i \in DOMAIN members[t] : Stops(t, a, i)}
  IN IF at = {} THEN 0 ELSE CHOOSE i \in at : \A j \in at : i <= j
Reaches(t, a) == PlaceOf(t, a) # 0
ReachesFreed(t, a) == Reaches(t, a) /\ Dangling(members[t][PlaceOf(t, a)])

\* A client with a token of its own is only answered (lobby.c:499).
Answers == lobby[Owner].token # NoToken /\ ~lobby[Owner].tolerant

\* on_client_disconnected__tolerated does nothing for a client that is back.
(* A mutant of IsBack: a client that is back is removed all the same. *)
IsBackNever(l) == FALSE
IsBack(l) == ~lobby[l].tolerant /\ ~lobby[l].disconnected /\ lobby[l].connected

\* The tables the first task has its lobby client leave.
Left == IF First.op = "leave" THEN {First.arg} \cap entries[Owner]
        ELSE IF IsBack(Owner) \/ lobby[Owner].revived THEN {} ELSE entries[Owner]

\* The member that the account finds at a table is taken out, and with it goes
\* its use of its lobby client.
Taken(t) == members[t][PlaceOf(t, lobby[Owner].account)]
Uses(m) == Cardinality({t \in Left : Taken(t) = m})

\* The pointer through which the first task uses what is freed or NULL.
Unreachable == \/ Client \in net.freed
               \/ First.op # "connected" /\ (Owner = None \/ FreedLobbyClient(Owner))
AuthHazard ==
  LET r == holder[First.arg]
  IN IF Answers THEN IF lobby[Owner].account = None THEN "answer" ELSE "none"
     ELSE IF r = None THEN "none"
     ELSE IF FreedLobbyClient(r) THEN "node"
     ELSE IF \E t \in entries[r] : \E i \in DOMAIN members[t] : FreedLobbyClient(members[t][i])
       THEN "member" ELSE "none"
EnterHazard ==
  LET a == lobby[Owner].account
  IN IF a # None /\ ReachesFreed(First.arg, a) THEN "member" ELSE "none"
LeaveHazard ==
  LET a == lobby[Owner].account
  IN IF \E t \in Left : ReachesFreed(t, a) THEN "member"
     ELSE IF \E t \in Left : ~Reaches(t, a) THEN "nobody"
     ELSE IF First.op = "tolerated" /\ ~IsBack(Owner) /\ Uses(Owner) >= lobby[Owner].refs
       THEN "owner" ELSE "none"
Hazard == IF Client \in net.freed THEN "task"
          ELSE IF Unreachable THEN "owner"
          ELSE CASE First.op = "auth" -> AuthHazard
                 [] First.op = "enter" -> EnterHazard
                 [] First.op \in {"leave", "tolerated"} -> LeaveHazard
                 [] OTHER -> "none"

Misuse ==
  /\ Sound /\ net.queue # << >>
  /\ Hazard # "none"
  /\ fault' = Hazard
  /\ UNCHANGED <<thread, net, lobbyVars>>

Begin(op) == Handling(op) /\ Hazard = "none"

-----------------------------------------------------------------------------
\* on_client_connected.
Connected ==
  /\ Begin("connected")
  /\ net' = UseClient(Popped, Client)
  /\ lobby' = [lobby EXCEPT ![Client].client = Client, ![Client].refs = 1]
  /\ owner' = [owner EXCEPT ![Client] = Client]
  /\ UNCHANGED <<thread, fault, entries, members, holder, tokens, timers>>

\* An answer that cannot be written disconnects the client it is sent to.
Answered(ok) == IF ok THEN Popped ELSE Disconnect(Popped, Client)

\* on_client_login: a new account object, and so a new token, which finds
\* this lobby client only when the answer could be written.
Login ==
  LET k == Len(tokens) + 1
  IN /\ Begin("login")
     /\ tokens' = Append(tokens, First.arg)
     /\ lobby' = [lobby EXCEPT ![Owner].account = First.arg, ![Owner].token = k]
     /\ \E ok \in BOOLEAN :
          /\ net' = Answered(ok)
          /\ holder' = IF ok THEN [holder EXCEPT ![k] = Owner] ELSE holder
     /\ UNCHANGED <<thread, fault, owner, entries, members, timers>>

-----------------------------------------------------------------------------
\* on_client_auth_session.  A client that has a token is answered; so is one
\* whose token Redis does not know, any more or at the moment.
AuthAnswered ==
  /\ Handling("auth")
  /\ ~Unreachable
  /\ Answers => Hazard = "none"
  /\ net' = Popped
  /\ UNCHANGED <<thread, fault, lobbyVars>>

\* A token nobody holds, or held for another account, stays with the client.
AuthRefused ==
  LET k == First.arg
  IN /\ Begin("auth")
     /\ ~Answers
     /\ holder[k] # None => lobby[holder[k]].account # tokens[k]
     /\ net' = Popped
     /\ lobby' = [lobby EXCEPT ![Owner].token = k]
     /\ UNCHANGED <<thread, fault, owner, entries, members, holder, tokens, timers>>

\* The revived lobby client as the lock protects it, then with a new token
\* (unless it revives itself); when the answer fails it stays revived.
(* A mutant of Revived: it keeps the connection it lost. *)
RevivedAtOldConnection(r, ok) ==
  [lobby[r] EXCEPT !.tolerant = FALSE, !.disconnected = FALSE, !.connected = TRUE,
                   !.revived = ~ok, !.token = IF r = Owner THEN First.arg ELSE Len(tokens) + 1]
Revived(r, ok) ==
  [lobby[r] EXCEPT !.client = lobby[Owner].client,
                   !.tolerant = FALSE, !.disconnected = FALSE, !.connected = TRUE,
                   !.revived = ~ok, !.token = IF r = Owner THEN First.arg ELSE Len(tokens) + 1]

Replaced(list, l, r) == [i \in DOMAIN list |-> IF list[i] = l THEN r ELSE list[i]]

Revive ==
  LET k == First.arg
      r == holder[k]
      from == Owner
  IN /\ Begin("auth")
     /\ ~Answers
     /\ r # None /\ lobby[r].account = tokens[k]
     /\ \E ok \in BOOLEAN :
          /\ net' = Answered(ok)
          /\ lobby' = [lobby EXCEPT ![from].token = k, ![r] = Revived(r, ok)]
     /\ owner' = [owner EXCEPT ![lobby[from].client] = r]
     /\ members' = [t \in Tables |-> IF t \in entries[r]
                                       THEN Replaced(members[t], from, r) ELSE members[t]]
     /\ entries' = [entries EXCEPT ![from] = entries[r]]
     /\ tokens' = IF r = from THEN tokens ELSE Append(tokens, tokens[k])
     /\ UNCHANGED <<thread, fault, holder, timers>>

-----------------------------------------------------------------------------
\* on_client_enter and pkrsrv_lobby_client_enter_session.  An account that
\* left in a hand may still have its player at the table (PlayerLeft).
Enter ==
  LET a == lobby[Owner].account
      t == First.arg
  IN /\ Begin("enter")
     /\ net' = Popped
     /\ \E PlayerLeft \in BOOLEAN :
          IF a = None \/ Reaches(t, a) \/ PlayerLeft
            THEN UNCHANGED <<members, entries, lobby>>
            ELSE /\ members' = [members EXCEPT ![t] = Append(@, Owner)]
                 /\ entries' = [entries EXCEPT ![Owner] = @ \cup {t}]
                 /\ lobby' = [lobby EXCEPT ![Owner].refs = @ + 1]
     /\ UNCHANGED <<thread, fault, owner, holder, tokens, timers>>

\* pkrsrv_lobby_client_leave_session, table by table: the member it takes out
\* is the one its account finds.
MembersAfter(l) ==
  [t \in Tables |-> IF t \in Left THEN RemoveAt(members[t], PlaceOf(t, lobby[l].account))
                                  ELSE members[t]]
(* A mutant of LeaveTables: the lobby client goes on listing the table. *)
LeaveTablesListed(l) == members' = MembersAfter(l) /\ UNCHANGED entries
LeaveTables(l) ==
  /\ members' = MembersAfter(l)
  /\ entries' = [entries EXCEPT ![l] = @ \ Left]

\* The last use of a lobby client frees it and drops its use of its connection.
RefsAfter(m) == lobby[m].refs - Uses(m) - IF First.op = "tolerated" /\ m = Owner THEN 1 ELSE 0
FreeUnused == FoldSet(LAMBDA m, n : LeaveClient(n, lobby[m].client), Popped,
                      {m \in Known : lobby[m].refs > 0 /\ RefsAfter(m) = 0})

LeaveTable ==
  /\ Begin("leave")
  /\ LeaveTables(Owner)
  /\ lobby' = [m \in Clients |-> [lobby[m] EXCEPT !.refs = RefsAfter(m)]]
  /\ net' = FreeUnused
  /\ UNCHANGED <<thread, fault, owner, holder, tokens, timers>>

-----------------------------------------------------------------------------
\* on_client_disconnected: cancels the delayed task the lobby client has, and
\* delays a new one.
Cancelled(n, c) == [n EXCEPT !.queue = Without(@, {Task("tolerated", c, None)})]

Disconnected ==
  LET l == Owner
      old == lobby[l].task
  IN /\ Begin("disconnected")
     /\ net' = Cancelled(Popped, old)
     /\ timers' = (timers \ {old}) \cup {Client}
     /\ lobby' = [lobby EXCEPT ![l].tolerant = TRUE, ![l].connected = FALSE, ![l].task = Client]
     /\ UNCHANGED <<thread, fault, owner, entries, members, holder, tokens>>

\* PKRSRV_LOBBY_DISCONNECTION_TOLERANCE is over.
TimerDue(c) ==
  /\ Sound
  /\ c \in timers
  /\ Orderly => thread[c] = "gone"
  /\ timers' = timers \ {c}
  /\ net' = Call(net, Task("tolerated", c, None))
  /\ UNCHANGED <<thread, fault, owner, lobby, entries, members, holder, tokens>>

\* on_client_disconnected__tolerated, for a client that is back.
ToleratedReturns ==
  /\ Begin("tolerated")
  /\ IsBack(Owner)
  /\ net' = Popped
  /\ UNCHANGED <<thread, fault, lobbyVars>>

\* For one that is not: it leaves its tables, unless it is revived, and drops
\* the connection's own use of the lobby client.
Tolerated ==
  LET l == Owner
      k == lobby[l].token
  IN /\ Begin("tolerated")
     /\ ~IsBack(l)
     /\ LeaveTables(l)
     /\ lobby' = [m \in Clients |->
                    IF m = l THEN [lobby[l] EXCEPT !.disconnected = TRUE, !.task = None,
                                                   !.refs = RefsAfter(l),
                                                   !.ghost = @ \/ lobby[l].revived]
                    ELSE [lobby[m] EXCEPT !.refs = RefsAfter(m)]]
     /\ net' = FreeUnused
     /\ holder' = IF k # NoToken /\ ~lobby[l].revived THEN [holder EXCEPT ![k] = None] ELSE holder
     /\ UNCHANGED <<thread, fault, owner, tokens, timers>>

-----------------------------------------------------------------------------
\* The packets a client sends.  Orderly asks of a client that it logs in or
\* sends a token once, and a token only when the server has noticed that the
\* connection which holds it is lost, or the token is no longer held; of the
\* network, that a connection which failed is closed when its tolerance is
\* over, and does not fail before its task has connected it.
NotYetAuthorised(c) ==
  /\ ~Queued(c, {"login", "auth", "connected"})
  /\ lobby[c].account = None /\ owner[c] = c /\ net.alive[c]

NoticedLoss(k) ==
  /\ holder[k] # None => /\ lobby[holder[k]].tolerant
                         /\ \A c \in Clients : owner[c] = holder[k] => thread[c] = "gone"
  /\ \A i \in DOMAIN net.queue : ~(net.queue[i].op = "auth" /\ net.queue[i].arg = k)

TokensLeft == LET asking == {i \in DOMAIN net.queue : net.queue[i].op \in {"login", "auth"}}
              IN Len(tokens) + Cardinality(asking) < MaxTokens

SendLogin(c) == /\ TokensLeft
                /\ Orderly => NotYetAuthorised(c)
                /\ \E a \in Accounts : Receive(c, "login", a)
SendToken(c) == /\ TokensLeft
                /\ \E k \in DOMAIN tokens :
                     /\ Orderly => NotYetAuthorised(c) /\ NoticedLoss(k)
                     /\ Receive(c, "auth", k)
SendEnter(c) == \E t \in Tables : Receive(c, "enter", t)
SendLeave(c) == \E t \in Tables : Receive(c, "leave", t)

Send == /\ \E c \in Clients : SendLogin(c) \/ SendToken(c) \/ SendEnter(c) \/ SendLeave(c)
        /\ UNCHANGED lobbyVars

ThreadsStep == (\E c \in Clients : ThreadStep(c)) /\ UNCHANGED lobbyVars

LosesReader == (\E c \in Clients : ~net.alive[c] /\ ThreadEnds(c)) /\ UNCHANGED lobbyVars
TimersDue == \E c \in Clients : TimerDue(c)

Handle == \/ Misuse
          \/ Connected \/ Login \/ AuthAnswered \/ AuthRefused \/ Revive
          \/ Enter \/ LeaveTable
          \/ Disconnected \/ ToleratedReturns \/ Tolerated

Next == \/ ThreadsStep
        \/ Send
        \/ TimersDue
        \/ Handle

Spec == Init /\ [][Next]_vars

\* The event loop and the timers go on, and a lost connection's read fails;
\* either happens once to a connection, so that one condition for all will do.
Fairness == WF_vars(Handle) /\ WF_vars(TimersDue) /\ WF_vars(LosesReader)

FairSpec == Spec /\ Fairness

-----------------------------------------------------------------------------
TypeOK ==
  /\ net.refs \in [Clients -> 0 .. 4]
  /\ \A l \in Clients : lobby[l].refs \in 0 .. 1 + Cardinality(Tables)
  /\ net.listed \cup net.freed \cup timers \subseteq Clients
  /\ thread \in [Clients -> {"none", "started", "receiving", "gone"}]

\* No thread uses what the reference counts have freed (ref.c), but for what
\* the README names: a client over capacity, a token that is not its lobby
\* client's any more, the account answered to a second token after a refused
\* one, a lobby client whose revival was not answered and that stayed at its
\* tables without its connection's use of it.
NoUseAfterFree ==
  /\ \/ fault \in {"none", "list", "node", "answer"}
     \/ \E l \in Known : lobby[l].ghost
  /\ fault = "node" => lobby[holder[First.arg]].token # First.arg

\* The session's list of clients and the client's list of sessions, changed
\* one after the other (lobby.c:1593-1603), tell the same of every lobby client
\* its connection still reaches.
BothSidesAgree ==
  \A l \in Known, t \in Tables :
    ~FreedLobbyClient(l) /\ owner[lobby[l].client] = l =>
      ((\E i \in DOMAIN members[t] : members[t][i] = l) <=> t \in entries[l])

\* Nobody but a lobby client whose last connection is lost leaves a table
\* without asking (lobby.h:42): one that came back in time is not removed.
IsMember(l, t) == \E i \in DOMAIN members[t] : members[t][i] = l
Asked(l) == First.op = "leave" /\ Owner = l
OnlyTheGoneAreRemoved ==
  [][\A l \in Clients, t \in Tables :
       IsMember(l, t) /\ ~IsMember(l, t)' => Asked(l) \/ ~net.alive[lobby[l].client]]_vars

\* A client that is disconnected and does not come back is removed in the end
\* (lobby.h:42), unless it was left revived.  There are finitely many, so that
\* at some time none of them is at a table.
Absent == {l \in Clients : /\ \E t \in Tables : IsMember(l, t)
                           /\ ~net.alive[lobby[l].client] /\ ~lobby[l].revived}
GoneAreRemoved == []<>(Absent = {} \/ ~Sound)
=============================================================================
