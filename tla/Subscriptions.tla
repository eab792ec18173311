---------------------------- MODULE Subscriptions ----------------------------
(***************************************************************************)
(* The subscriptions of one connection: handleSubscribe and                *)
(* handleUnsubscribe of the proxy (src/src/websocket_proxy.cpp) over       *)
(* Websocket::subscriptions_ (src/src/websocket.h), and what the remote    *)
(* server has been asked for as a result.                                  *)
(*                                                                         *)
(* All clients of a socket share its subscriptions, so the proxy passes    *)
(* the request of the first subscriber on and that of the last one to      *)
(* unsubscribe.  A request carries its own text, which the proxy does not  *)
(* read: the text of a subscription asks for the types the call names; the *)
(* text of an unsubscription, which names no type, ends the types its      *)
(* author had in mind.  A SubscriptionType is a set of flags; None is the  *)
(* empty set.                                                              *)
(*                                                                         *)
(* A request that is passed on reaches the remote server only while the    *)
(* connection works.  A socket whose remote side has closed it, or which   *)
(* is going down, is still in the table: requests on it are recorded and   *)
(* answered like any other, and the write that fails afterwards is ignored *)
(* or closes the socket.                                                   *)
(***************************************************************************)
CONSTANTS
    Pid,       \* client processes
    Symbol,    \* symbols
    Type       \* the flags of SubscriptionType

VARIABLES
    clients,      \* clients_: the registered processes
    link,         \* the socket: not in websocketsById_, or there and working,
                  \* cut by the remote side, or closing
    users,        \* Websocket::clients_
    type,         \* Subscription::type_ of each symbol
    subscribers,  \* Subscription::clients_; {} when the symbol has no entry
    remote,       \* the types the remote server was asked for and not told to end
    wants,        \* the subscriptions each client made and did not give up since
    \* History, read by no guard.
    mixed,        \* symbols with a request for both known and new types
    left,         \* <<p, s>>: p left the socket without unsubscribing from s
    narrow        \* symbols ended by a request that named only some types

vars == <<clients, link, users, type, subscribers, remote, wants, mixed, left, narrow>>
subVars == <<type, subscribers, remote, mixed, narrow>>

Flags == SUBSET Type
NoSymbol == [s \in Symbol |-> {}]

\* Types, and: no type is recorded for a symbol that has no clients.
TypeOK ==
    /\ clients \subseteq Pid /\ users \subseteq Pid
    /\ link \in {"down", "open", "cut", "closing"}
    /\ type \in [Symbol -> SUBSET Type]
    /\ subscribers \in [Symbol -> SUBSET Pid]
    /\ remote \in [Symbol -> SUBSET Type]
    /\ wants \in [Pid -> [Symbol -> SUBSET Flags]]
    /\ mixed \subseteq Symbol /\ narrow \subseteq Symbol
    /\ left \subseteq Pid \X Symbol
    /\ \A s \in Symbol : subscribers[s] = {} => type[s] = {}

Init ==
    /\ clients = {} /\ users = {} /\ link = "down"
    /\ type = NoSymbol /\ subscribers = NoSymbol /\ remote = NoSymbol
    /\ wants = [p \in Pid |-> NoSymbol]
    /\ mixed = {} /\ left = {} /\ narrow = {}

-----------------------------------------------------------------------------
\* A definition whose comment starts with "Mutant" is a plausible bug in the
\* one after it: no specification uses it.

handleClientRegistration(p) ==
    /\ clients' = clients \cup {p}
    /\ UNCHANGED <<link, users, subVars, wants, left>>

\* OpenWs: p joins the socket, cut or not, or a new one, without subscriptions,
\* connects.  While the socket is closing openWs makes another one.
openWs(p) ==
    /\ p \in clients /\ link # "closing"
    /\ link' = IF link = "down" THEN "open" ELSE link
    /\ users' = users \cup {p}
    /\ UNCHANGED <<clients, subVars, wants, left>>

\* The Websocket goes, and its subscriptions_ and the connection with it.
SocketGone ==
    /\ link' = "down" /\ users' = {}
    /\ type' = NoSymbol /\ subscribers' = NoSymbol /\ remote' = NoSymbol
    /\ wants' = [p \in Pid |-> NoSymbol]
    /\ mixed' = {} /\ left' = {} /\ narrow' = {}

\* p leaves: the socket is closed when it loses its last user, but the entries
\* of subscriptions_ that name p stay as they are.
Leave(p) ==
    IF link # "down" /\ users # {} /\ users \subseteq {p}
    THEN SocketGone
    ELSE /\ users' = users \ {p}
         /\ wants' = [wants EXCEPT ![p] = NoSymbol]
         /\ left' = left \cup ({p} \X {s \in Symbol : p \in subscribers[s]})
         /\ UNCHANGED <<link, subVars>>

\* Unregister, or a heartbeat lost.
unregisterClient(p) ==
    /\ p \in clients
    /\ clients' = clients \ {p}
    /\ Leave(p)

\* CloseWs; a process that is no user may send it, too.
closeWs(p) ==
    /\ p \in clients /\ link # "down"
    /\ Leave(p)
    /\ UNCHANGED clients

\* The connection ends, and with it all the remote server was asked for; the
\* socket and its subscriptions_ stay in the table for now.
Cut(l) ==
    /\ link' = l
    /\ remote' = NoSymbol
    /\ UNCHANGED <<clients, users, type, subscribers, wants, mixed, left, narrow>>

\* The remote server closes the connection: on_read ignores it.
RemoteCloses == link = "open" /\ Cut("cut")

\* fail(), which closes the socket.
Fails == link \in {"open", "cut"} /\ Cut("closing")

\* A socket that has closed is removed, and a shutdown removes any, under all its
\* users.
Removed == link # "down" /\ SocketGone /\ UNCHANGED clients

\* Mutant of Known: an entry is enough, whatever its types.
KnownSymbol(s, t) == subscribers[s] # {} /\ t # {}

\* type_ & req->type, which is taken to mean that t is subscribed already.
Known(s, t) == subscribers[s] # {} /\ type[s] \cap t # {}

\* The request for the types t of s is passed on.
asked(s, t) == IF link = "open" THEN [remote EXCEPT ![s] = @ \cup t] ELSE remote

\* The request is passed on, unless Known; the client is recorded in any case.
handleSubscribe(p, s, t) ==
    /\ p \in clients /\ link # "down"
    /\ subscribers' = [subscribers EXCEPT ![s] = @ \cup {p}]
    /\ type' = [type EXCEPT ![s] = CASE subscribers[s] = {} -> t
                                     [] Known(s, t)         -> @
                                     [] OTHER               -> @ \cup t]
    /\ remote' = IF Known(s, t) THEN remote ELSE asked(s, t)
    /\ wants' = [wants EXCEPT ![p][s] = @ \cup {t}]
    /\ mixed' = IF t \cap type[s] # {} /\ t \ type[s] # {} THEN mixed \cup {s} ELSE mixed
    /\ left' = left \ {<<p, s>>}
    /\ UNCHANGED <<clients, link, users, narrow>>

\* Mutant of Last: looks for clients left before it erases p.
LastBefore(p, s) == p \in Pid /\ subscribers[s] = {}

\* Nobody is left on the entry of s once p is erased from it.
Last(p, s) == subscribers[s] # {} /\ subscribers[s] \subseteq {p}

\* Mutant of ended: the entry is gone, the request is not passed on.
endedSilently(s, u) == [remote EXCEPT ![s] = @ \cup (u \cap @)]

\* The request to end the types u of s is passed on (on a connection that has
\* ended there is nothing left to end).
ended(s, u) == [remote EXCEPT ![s] = @ \ u]

\* The entry goes with its last client, whose request, for the types u, is passed
\* on; every other request is swallowed.
handleUnsubscribe(p, s, u) ==
    /\ p \in clients /\ link # "down"
    /\ wants' = [wants EXCEPT ![p][s] = {}]
    /\ left' = left \ {<<p, s>>}
    /\ subscribers' = [subscribers EXCEPT ![s] = @ \ {p}]
    /\ IF Last(p, s)
       THEN /\ type' = [type EXCEPT ![s] = {}]
            /\ remote' = ended(s, u)
            /\ mixed' = mixed \ {s}
            /\ narrow' = IF remote[s] \subseteq u THEN narrow \ {s} ELSE narrow \cup {s}
       ELSE UNCHANGED <<type, remote, mixed, narrow>>
    /\ UNCHANGED <<clients, link, users>>

Next ==
    \/ \E p \in Pid :
          \/ handleClientRegistration(p) \/ openWs(p)
          \/ unregisterClient(p) \/ closeWs(p)
          \/ \E s \in Symbol, t \in Flags :
                handleSubscribe(p, s, t) \/ handleUnsubscribe(p, s, t)
    \/ RemoteCloses \/ Fails \/ Removed

Spec == Init /\ [][Next]_vars

-----------------------------------------------------------------------------
\* While the connection works, a client gets what it subscribed to, whatever the
\* others subscribe to, give up or leave behind; the exception is a symbol for
\* which somebody asked for known and new types in one request, which
\* handleSubscribe swallows.  Nothing is said of a connection the remote side has
\* closed: there handleSubscribe answers SUCCESS and nobody is asked.
Served ==
    link = "open" =>
        \A p \in Pid, s \in Symbol :
            s \in mixed \/ \A t \in wants[p][s] : t \subseteq remote[s]

\* The remote server sends a symbol only while some client wants it, unless a
\* client left without unsubscribing (its pid keeps the entry alive) or the last
\* request named fewer types than had been asked for.
EndsWithLastClient ==
    \A s \in Symbol : remote[s] # {} =>
        \/ s \in narrow
        \/ \E p \in Pid : wants[p][s] # {} \/ <<p, s>> \in left
=============================================================================
