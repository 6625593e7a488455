-------------------------------- MODULE MatIrc --------------------------------
(***************************************************************************)
(* matirc2: the session state of the IRC client, main.c with the parts of  *)
(* commands.c and screen.c that change it.                                 *)
(*                                                                         *)
(* One thread waits in select and handles one event at a time: a line from *)
(* a server, or a key.  The user's servers, the windows (channel_t) of     *)
(* each, and the two globals that say what is on the screen, server_current*)
(* and channel_current, are the state.  A typed line is one action; the    *)
(* editing of the line and the contents of the scrollback are left out.    *)
(*                                                                         *)
(* The IRC servers are external.  Lines to and from a server are queues, so*)
(* what the user does can cross what the server already sent.              *)
(***************************************************************************)
EXTENDS Integers, Sequences, Functions

CONSTANTS None,         \* NULL
          Nicks,        \* nicknames
          UserNick,     \* getenv("USER")
          Names,        \* channels
          MaxServers,   \* servers the user may have (bound of the model)
          MaxWindows,   \* windows that may be open (bound of the model)
          Cap           \* lines under way at which no new ones are sent (bound of the model)

ASSUME MatIrcAssumption ==
  /\ UserNick \in Nicks
  /\ Nicks \cap Names = {} /\ None \notin Nicks \union Names \union Int
  /\ MaxServers \in Nat \ {0} /\ MaxWindows \in Nat /\ Cap \in Nat \ {0}

VARIABLES
  pc,        \* "run", "exit", "undefined"
  servers,   \* servers[0..nservers-1]
  srv,       \* server_t: nick, socket (is it connected), channels
  win,       \* channel_t: name, part
  scur,      \* server_current
  ccur,      \* channel_current
  changed,   \* the buffers whose changed flag is set
  unread,    \* history: the buffers with text that was never on the screen
  link       \* the connection of each server, with what the far end knows

client == <<pc, servers, srv, win, scur, ccur, changed, unread>>
vars == <<client, link>>

-----------------------------------------------------------------------------
ServerIds == 1..MaxServers
WindowIds == MaxServers + 1 .. MaxServers + MaxWindows
Titles == Names \union Nicks

\* A connection: lines under way in each direction, the nick and the channels
\* the server has the user under, and two facts of its past: a NICK was refused;
\* the user changed nick while a JOIN of his was under way.
NoLink == [toS |-> <<>>, toC |-> <<>>, nick |-> None, joined |-> {},
           refused |-> FALSE, crossed |-> FALSE]

ToServer == {"NICK", "JOIN", "PART"} \X Titles
ToClient == {"nick", "join", "text", "priv", "eof"}
              \X (Nicks \union {None}) \X (Titles \union {None})

Links == [toS : Seq(ToServer), toC : Seq(ToClient), nick : Nicks \union {None},
          joined : SUBSET Names, refused : BOOLEAN, crossed : BOOLEAN]

NewServer == [nick |-> UserNick, socket |-> FALSE, channels |-> <<>>]
NoWindow == [name |-> UserNick, part |-> FALSE]        \* of a window that is freed

Open == UNION {Range(srv[s].channels) : s \in Range(servers)}
FreeServers == ServerIds \ Range(servers)
FreeWindows == WindowIds \ (Open \union {ccur})
Lowest(ids) == CHOOSE i \in ids : \A j \in ids : i <= j

TypeOK ==
  /\ pc \in {"run", "exit", "undefined"}
  /\ servers \in Seq(ServerIds) /\ servers # <<>> /\ IsInjective(servers)
  /\ srv \in [ServerIds -> [nick : Nicks, socket : BOOLEAN, channels : Seq(WindowIds)]]
  /\ \A s \in ServerIds : IsInjective(srv[s].channels)
  /\ win \in [WindowIds -> [name : Titles, part : BOOLEAN]]
  /\ scur \in Range(servers) /\ ccur \in WindowIds \union {None}
  /\ changed \subseteq ServerIds \union WindowIds
  /\ unread \subseteq ServerIds \union WindowIds
  /\ link \in [ServerIds -> Links]

Init ==
  /\ pc = "run"
  /\ servers = <<1>>
  /\ srv = [s \in ServerIds |-> NewServer]
  /\ win = [w \in WindowIds |-> NoWindow]
  /\ scur = 1 /\ ccur = None
  /\ changed = {} /\ unread = {}
  /\ link = [s \in ServerIds |-> NoLink]

-----------------------------------------------------------------------------
(* What the handlers share *)

Shown(s, c) == IF c = None THEN s ELSE c

\* channel_focus, from the flags cs and texts us of the moment.
FocusFrom(s, c, cs, us) ==
  /\ scur' = s /\ ccur' = c
  /\ changed' = cs \ {Shown(s, c)}
  /\ unread' = us \ {Shown(s, c)}

Focus(s, c) == FocusFrom(s, c, changed, unread)

\* Seeded bug: a server's window counts as shown while one of its channels is.
OnScreenLoose(s, c) == \/ c # None /\ c = ccur
                       \/ c = None /\ s = scur

\* screen_printf's test for text that goes to the screen.
OnScreen(s, c) == \/ c # None /\ c = ccur
                  \/ c = None /\ ccur = None /\ s = scur

\* screen_printf, for one window or the windows in cs.
PrintAll(s, cs) ==
  LET hidden == {c \in cs : ~OnScreen(s, c)}
  IN  /\ changed' = changed \union {Shown(s, c) : c \in hidden}
      /\ unread' = (unread \union {Shown(s, c) : c \in cs}) \ {Shown(scur, ccur)}
      /\ UNCHANGED <<scur, ccur>>

ScreenPrint(s, c) == PrintAll(s, {c})

\* The places of the windows of s with that name, and channel_get: the first.
Places(s, name) == {i \in DOMAIN srv[s].channels : win[srv[s].channels[i]].name = name}

ChannelGet(s, name) ==
  IF Places(s, name) = {} THEN None ELSE srv[s].channels[Lowest(Places(s, name))]

\* channel_create: the window is focused, but server_current stays what it was.
ChannelCreate(s, name, part) ==
  /\ FreeWindows # {}
  /\ LET w == Lowest(FreeWindows)
     IN  /\ win' = [win EXCEPT ![w] = [name |-> name, part |-> part]]
         /\ srv' = [srv EXCEPT ![s].channels = Append(@, w)]
         /\ Focus(scur, w)

\* dprintf to a socket, -1 included.
Sent(s, lines) ==
  IF srv[s].socket THEN [link EXCEPT ![s].toS = @ \o lines] ELSE link

\* There is room for a new line.
Room == FoldFunction(LAMBDA l, n : n + Len(l.toS) + Len(l.toC), 0, link) < Cap

CanSend(s) == srv[s].socket => Room

PlaceOf(seq, x) == CHOOSE i \in DOMAIN seq : seq[i] = x

\* The array without an element: those after it move up by one.
Without(seq, x) ==
  [i \in 1 .. Len(seq) - 1 |-> IF i < PlaceOf(seq, x) THEN seq[i] ELSE seq[i + 1]]

LastOf(seq) == IF seq = <<>> THEN None ELSE seq[Len(seq)]

-----------------------------------------------------------------------------
(* Keys *)

\* The next window of this server, the window of the next server after the last.
NextWindow ==
  /\ pc = "run"
  /\ LET cs == srv[scur].channels
         i == IF ccur = None THEN 0
              ELSE IF ccur \in Range(cs) THEN PlaceOf(cs, ccur) ELSE Len(cs)
         j == PlaceOf(servers, scur)
     IN  IF i < Len(cs) THEN Focus(scur, cs[i + 1])
                        ELSE Focus(servers[(j % Len(servers)) + 1], None)
  /\ UNCHANGED <<pc, servers, srv, win, link>>

PrevWindow ==
  /\ pc = "run"
  /\ IF ccur = None
       THEN LET j == PlaceOf(servers, scur)
                s == servers[IF j > 1 THEN j - 1 ELSE Len(servers)]
            IN  Focus(s, LastOf(srv[s].channels))
       ELSE LET cs == srv[scur].channels
                i == IF ccur \in Range(cs) THEN PlaceOf(cs, ccur) ELSE 1
            IN  Focus(scur, IF i > 1 THEN cs[i - 1] ELSE None)
  /\ UNCHANGED <<pc, servers, srv, win, link>>

ServerCreate ==
  /\ pc = "run" /\ FreeServers # {}
  /\ LET s == Lowest(FreeServers)
     IN  /\ servers' = Append(servers, s)
         /\ srv' = [srv EXCEPT ![s] = NewServer]
         /\ FocusFrom(s, None, changed \ {s}, unread \ {s})
  /\ UNCHANGED <<pc, win, link>>

\* Everything is given up; quit() takes leave of every server.
Leave ==
  /\ pc' = "exit"
  /\ srv' = [s \in ServerIds |-> [srv[s] EXCEPT !.socket = FALSE]]
  /\ link' = [s \in ServerIds |-> NoLink]

\* The quit key, or a signal.
Quit ==
  /\ pc = "run"
  /\ Leave
  /\ UNCHANGED <<servers, win, scur, ccur, changed, unread>>

Owned == ccur = None \/ ccur \in Range(srv[scur].channels)

\* channel_destroy leaves the array empty: realloc to no bytes returns NULL with
\* some C libraries, which _realloc takes for an error and ends the program.
ReallocFails == /\ Leave
                /\ UNCHANGED <<servers, win, scur, ccur, changed, unread>>

\* Seeded bug: the focus stays at the window that is gone.
CloseChannelKeepsFocus ==
  /\ pc = "run" /\ ccur # None /\ Owned /\ CanSend(scur)
  /\ srv' = [srv EXCEPT ![scur].channels = Without(@, ccur)]
  /\ UNCHANGED <<pc, servers, win, scur, ccur, changed, unread, link>>

\* channel_destroy of the window on the screen, and the focus goes to the one
\* before it.  The array is empty after the last.
CloseChannel ==
  /\ pc = "run" /\ ccur # None /\ Owned /\ CanSend(scur)
  /\ LET cs == srv[scur].channels
         i == PlaceOf(cs, ccur)
     IN  /\ srv' = [srv EXCEPT ![scur].channels = Without(@, ccur)]
         /\ FocusFrom(scur, IF i > 1 THEN cs[i - 1] ELSE None,
                      changed \ {ccur}, unread \ {ccur})
  /\ link' = IF win[ccur].part THEN Sent(scur, <<<<"PART", win[ccur].name>>>>) ELSE link
  /\ win' = [win EXCEPT ![ccur] = NoWindow]
  /\ UNCHANGED <<pc, servers>>

CloseLastChannelExits ==
  /\ pc = "run" /\ ccur # None /\ Owned
  /\ Len(srv[scur].channels) = 1
  /\ ReallocFails

\* The window on the screen is one of another server: it is freed, but not taken
\* off that server's array, and an index that was never set decides the rest.
CloseForeignChannel ==
  /\ pc = "run" /\ ~Owned
  /\ pc' = "undefined"
  /\ UNCHANGED <<servers, srv, win, scur, ccur, changed, unread, link>>

\* server_destroy of the only server: a new one takes its place.
CloseLastServer ==
  /\ pc = "run" /\ ccur = None /\ Len(servers) = 1
  /\ srv' = [srv EXCEPT ![scur] = NewServer]
  /\ link' = [link EXCEPT ![scur] = NoLink]
  /\ changed' = {} /\ unread' = {}
  /\ win' = [w \in WindowIds |-> NoWindow]
  /\ UNCHANGED <<pc, servers, scur, ccur>>

\* server_destroy of one of several: its channels go with it (every second is
\* only forgotten), and the focus to the last window of the server before it.
CloseServer ==
  /\ pc = "run" /\ ccur = None /\ Len(servers) > 1
  /\ LET j == PlaceOf(servers, scur)
         rest == Without(servers, scur)
         s == rest[IF j > 1 THEN j - 1 ELSE 1]
         gone == {scur} \union Range(srv[scur].channels)
     IN  /\ servers' = rest
         /\ srv' = [srv EXCEPT ![scur] = NewServer]
         /\ link' = [link EXCEPT ![scur] = NoLink]
         /\ FocusFrom(s, LastOf(srv[s].channels), changed \ gone, unread \ gone)
         /\ win' = [w \in WindowIds |-> IF w \in gone THEN NoWindow ELSE win[w]]
  /\ UNCHANGED pc

\* The loop in server_destroy empties the channel array only when it holds one.
CloseServerExits ==
  /\ pc = "run" /\ ccur = None
  /\ Len(servers) = 1 \/ Len(srv[scur].channels) = 1
  /\ ReallocFails

-----------------------------------------------------------------------------
(* Typed lines *)

\* server_connect: a socket that was open is forgotten, not closed.
Connect ==
  /\ pc = "run"
  /\ srv' = [srv EXCEPT ![scur].socket = TRUE]
  /\ link' = [link EXCEPT ![scur] = [NoLink EXCEPT !.toS = <<<<"NICK", srv[scur].nick>>>>]]
  /\ UNCHANGED <<pc, servers, win, scur, ccur, changed, unread>>

ConnectFails ==
  /\ pc = "run"
  /\ srv' = [srv EXCEPT ![scur].socket = FALSE]
  /\ link' = [link EXCEPT ![scur] = NoLink]
  /\ ScreenPrint(scur, None)
  /\ UNCHANGED <<pc, servers, win>>

Disconnect ==
  /\ pc = "run" /\ srv[scur].socket
  /\ srv' = [srv EXCEPT ![scur].socket = FALSE]
  /\ link' = [link EXCEPT ![scur] = NoLink]
  /\ UNCHANGED <<pc, servers, win, scur, ccur, changed, unread>>

JoinUnderWay(s) ==
  \/ \E i \in DOMAIN link[s].toS : link[s].toS[i][1] = "JOIN"
  \/ \E i \in DOMAIN link[s].toC : link[s].toC[i][1] = "join"

\* /nick: the nick changes here at once, whatever the server will say.
ChangeNick(n) ==
  /\ pc = "run" /\ CanSend(scur)
  /\ srv' = [srv EXCEPT ![scur].nick = n]
  /\ link' = [Sent(scur, <<<<"NICK", n>>>>)
                EXCEPT ![scur].crossed = @ \/ (n # srv[scur].nick /\ JoinUnderWay(scur))]
  /\ UNCHANGED <<pc, servers, win, scur, ccur, changed, unread>>

\* /msg with a name alone: a new window, also when there is one of that name.
OpenWindow(name) ==
  /\ pc = "run"
  /\ ChannelCreate(scur, name, FALSE)
  /\ UNCHANGED <<pc, servers, link>>

\* A line the client does not know goes to the server as it is: /join, /part.
SendRaw(line) ==
  /\ pc = "run" /\ srv[scur].socket /\ CanSend(scur)
  /\ link' = Sent(scur, <<line>>)
  /\ UNCHANGED <<pc, servers, srv, win, scur, ccur, changed, unread>>

-----------------------------------------------------------------------------
(* Lines from a server: irc_receive and handle_command *)

Hears(s, type) ==
  /\ pc = "run" /\ srv[s].socket
  /\ link[s].toC # <<>> /\ Head(link[s].toC)[1] = type
  /\ link' = [link EXCEPT ![s].toC = Tail(@)]

Who(s) == Head(link[s].toC)[2]
Arg(s) == Head(link[s].toC)[3]

\* Seeded bug: NICK lines of the server are not heeded.
HandleNickIgnored(s) ==
  /\ Hears(s, "nick")
  /\ UNCHANGED client

HandleNick(s) ==
  /\ Hears(s, "nick")
  /\ srv' = IF Who(s) = srv[s].nick THEN [srv EXCEPT ![s].nick = Arg(s)] ELSE srv
  /\ UNCHANGED <<pc, servers, win, scur, ccur, changed, unread>>

\* Seeded bug: the window that exists does not learn that it was joined.
HandleJoinKnownForgets(s) ==
  /\ Hears(s, "join") /\ Who(s) = srv[s].nick
  /\ Places(s, Arg(s)) # {}
  /\ ScreenPrint(s, ChannelGet(s, Arg(s)))
  /\ UNCHANGED <<pc, servers, srv, win>>

\* The user joined a channel that has a window ...
HandleJoinKnown(s) ==
  /\ Hears(s, "join") /\ Who(s) = srv[s].nick
  /\ Places(s, Arg(s)) # {}
  /\ win' = [win EXCEPT ![ChannelGet(s, Arg(s))].part = TRUE]
  /\ ScreenPrint(s, ChannelGet(s, Arg(s)))
  /\ UNCHANGED <<pc, servers, srv>>

\* Seeded bug: a join opens a window without looking for one.
HandleJoinAnew(s) ==
  /\ Hears(s, "join") /\ Who(s) = srv[s].nick
  /\ ChannelCreate(s, Arg(s), TRUE)
  /\ UNCHANGED <<pc, servers>>

\* ... or one that has none: a window is opened, and shown.
HandleJoinNew(s) ==
  /\ Hears(s, "join") /\ Who(s) = srv[s].nick
  /\ Places(s, Arg(s)) = {}
  /\ ChannelCreate(s, Arg(s), TRUE)
  /\ UNCHANGED <<pc, servers>>

\* Someone else joined, it seems.
HandleJoinOther(s) ==
  /\ Hears(s, "join") /\ Who(s) # srv[s].nick
  /\ ScreenPrint(s, ChannelGet(s, Arg(s)))
  /\ UNCHANGED <<pc, servers, srv, win>>

\* Text for a channel, or for the server's own window when there is none.
HandleText(s) ==
  /\ Hears(s, "text")
  /\ ScreenPrint(s, ChannelGet(s, Arg(s)))
  /\ UNCHANGED <<pc, servers, srv, win>>

\* Text for the user: its window has the user's name, not the sender's.
HandlePrivate(s) ==
  /\ Hears(s, "priv")
  /\ IF Arg(s) = srv[s].nick /\ Places(s, Arg(s)) = {}
       THEN ChannelCreate(s, Arg(s), FALSE)
       ELSE ScreenPrint(s, ChannelGet(s, Arg(s))) /\ UNCHANGED <<srv, win>>
  /\ UNCHANGED <<pc, servers>>

\* The end of the connection is told in every window of the server.
HandleEOF(s) ==
  /\ pc = "run" /\ srv[s].socket
  /\ link[s].toC # <<>> /\ Head(link[s].toC)[1] = "eof"
  /\ srv' = [srv EXCEPT ![s].socket = FALSE]
  /\ link' = [link EXCEPT ![s] = NoLink]
  /\ PrintAll(s, {None} \union Range(srv[s].channels))
  /\ UNCHANGED <<pc, servers, win>>

-----------------------------------------------------------------------------
(* The IRC server at the other end of a connection (external) *)

\* The connection is up at that end too.
Serving(s) == /\ srv[s].socket
              /\ \A i \in DOMAIN link[s].toC : link[s].toC[i][1] # "eof"

Takes(s, type) ==
  /\ Serving(s)
  /\ link[s].toS # <<>> /\ Head(link[s].toS)[1] = type
  /\ UNCHANGED client

Asked(s) == Head(link[s].toS)[2]

\* The connection after a line was taken, and lines were sent.
Taken(s, lines) == [link[s] EXCEPT !.toS = Tail(@), !.toC = @ \o lines]

ServerNick(s) ==
  /\ Takes(s, "NICK")
  /\ link' = [link EXCEPT ![s] =
       [Taken(s, IF @.nick \in {None, Asked(s)} THEN <<>>
                 ELSE <<<<"nick", @.nick, Asked(s)>>>>) EXCEPT !.nick = Asked(s)]]

\* Nick in use: the old nick stays, and the client shows the line it is told.
ServerRefuse(s) ==
  /\ Takes(s, "NICK") /\ Asked(s) # link[s].nick
  /\ link' = [link EXCEPT ![s] = [Taken(s, <<<<"text", None, None>>>>) EXCEPT !.refused = TRUE]]

\* A join is granted once; before the user has a nick it is not.
ServerJoin(s) ==
  /\ Takes(s, "JOIN")
  /\ link' = [link EXCEPT ![s] =
       IF @.nick = None \/ Asked(s) \in @.joined
         THEN Taken(s, <<>>)
         ELSE [Taken(s, <<<<"join", @.nick, Asked(s)>>>>) EXCEPT !.joined = @ \union {Asked(s)}]]

ServerPart(s) ==
  /\ Takes(s, "PART")
  /\ link' = [link EXCEPT ![s] =
       IF Asked(s) \in @.joined
         THEN [Taken(s, <<<<"text", None, Asked(s)>>>>) EXCEPT !.joined = @ \ {Asked(s)}]
         ELSE Taken(s, <<>>)]

\* What it says of its own accord.
Says(s, line) ==
  /\ Serving(s) /\ Room
  /\ link' = [link EXCEPT ![s].toC = Append(@, line)]
  /\ UNCHANGED client

ServerText(s) == \E name \in link[s].joined : Says(s, <<"text", None, name>>)
ServerPrivate(s) == link[s].nick # None /\ Says(s, <<"priv", None, link[s].nick>>)
ServerClose(s) == Says(s, <<"eof", None, None>>)

\* It renames the user.
ServerRename(s) ==
  /\ Serving(s) /\ Room
  /\ link[s].nick # None
  /\ \E n \in Nicks \ {link[s].nick} :
       link' = [link EXCEPT ![s].nick = n,
                            ![s].toC = Append(@, <<"nick", link[s].nick, n>>)]
  /\ UNCHANGED client

-----------------------------------------------------------------------------
User ==
  \/ NextWindow \/ PrevWindow \/ ServerCreate \/ Quit
  \/ CloseChannel \/ CloseLastChannelExits \/ CloseForeignChannel
  \/ CloseServer \/ CloseLastServer \/ CloseServerExits
  \/ Connect \/ ConnectFails \/ Disconnect
  \/ \E n \in Nicks : ChangeNick(n)
  \/ \E name \in Names : OpenWindow(name)
  \/ \E line \in {"JOIN", "PART"} \X Names : SendRaw(line)

Network(s) ==
  \/ HandleNick(s) \/ HandleJoinKnown(s) \/ HandleJoinNew(s) \/ HandleJoinOther(s)
  \/ HandleText(s) \/ HandlePrivate(s) \/ HandleEOF(s)

IrcServer(s) ==
  \/ ServerNick(s) \/ ServerRefuse(s) \/ ServerJoin(s) \/ ServerPart(s)
  \/ ServerText(s) \/ ServerPrivate(s) \/ ServerClose(s) \/ ServerRename(s)

Next == User \/ \E s \in Range(servers) : Network(s) \/ IrcServer(s)

Spec == Init /\ [][Next]_vars

-----------------------------------------------------------------------------
(* Properties *)

\* The focus leaves the windows of server_current only when another server
\* opens a window: closing, moving and reconnecting always refocus.
FocusStaysOwned ==
  [][Owned => Owned' \/ \E s \in Range(servers) \ {scur} :
                          ccur' \in Range(srv'[s].channels) \ Range(srv[s].channels)]_vars

\* Text that was never on the screen is marked in the status line, and nothing
\* else is, whichever server it came from and whatever the user closed since.
UnreadIsMarked == TypeOK /\ (pc = "run" => changed = unread)

\* A window whose closing leaves a channel is the one the channel's text goes
\* to, although /msg opens second windows of one name.
PartIsFirst ==
  \A s \in Range(servers) : \A w \in Range(srv[s].channels) :
    win[w].part => ChannelGet(s, win[w].name) = w

Settled(s) == srv[s].socket /\ link[s].toS = <<>> /\ link[s].toC = <<>>

\* The nick changes here before the server agreed and the server's own renames
\* cross it: once all lines have arrived both have the same nick, unless the
\* server refused one.
NickAgrees ==
  \A s \in Range(servers) :
    Settled(s) /\ ~link[s].refused => link[s].nick = srv[s].nick

\* Once all lines have arrived every channel the server has the user in has a
\* window that will leave it, unless a NICK was refused or crossed a JOIN.
JoinedHasWindow ==
  \A s \in Range(servers) :
    Settled(s) /\ ~link[s].refused /\ ~link[s].crossed =>
      \A name \in link[s].joined :
        \E w \in Range(srv[s].channels) : win[w].name = name /\ win[w].part
=============================================================================
